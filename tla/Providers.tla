----------------------------- MODULE Providers -----------------------------
(***************************************************************************)
(* The tenant's AI providers: the credentials and the binding that says    *)
(* which of them, and which model, serves a task; the vectors the bound    *)
(* model gave the corpus; and the control of what all of it costs.         *)
(*                                                                         *)
(* A task resolves the binding once, when it starts, and works with what   *)
(* it resolved to its end, whatever is bound meanwhile.  Rows are          *)
(* transcriptions ("tx") and mentions of persons ("mn").  A step is one    *)
(* committed transaction.  The queue is that of module Jobs, of which only *)
(* what matters here is kept: the order in which tasks start is free, a    *)
(* dead worker's tasks start again, and a task that raises does not.       *)
(***************************************************************************)
EXTENDS Integers, FiniteSets

CONSTANTS Cred,      \* credential ids
          Model,     \* models
          Offline,   \* models whose provider has a batch API
          Default,   \* Default[c]: cred.model_default, or the catalogue's
          Row,       \* rows of the corpus
          Table,     \* Table[r]: "tx" or "mn"
          Blank,     \* rows without text: they never get a vector
          MaxJobs,   \* bound: jobs ever asked for
          Batch,     \* rows per call of the provider
          MaxTries,  \* WorkerSettings.max_tries
          Rate,      \* Rate[m]: price of a token of m
          PerCent,   \* the same unit, in a cent
          Budgets,   \* bound: caps a tenant may set
          MaxPages,  \* bound: pages one reading job sends, tokens of a batch
          None

Job == 1..MaxJobs
Kinds == {"reembed", "embed_document", "embed_mentions", "read", "batch", "index"}

ASSUME ProvidersAssumption ==
    /\ Default \in [Cred -> Model] /\ Table \in [Row -> {"tx", "mn"}]
    /\ Blank \subseteq Row /\ IsFiniteSet(Row) /\ Offline \subseteq Model
    /\ MaxJobs \in Nat /\ MaxTries \in Nat /\ MaxPages \in Nat /\ Batch \in Nat \ {0}
    /\ Rate \in [Model -> Nat] /\ PerCent \in Nat \ {0} /\ Budgets \subseteq Nat
    /\ None \notin Model /\ None \notin Cred /\ None \notin Nat

VARIABLES
    creds,    \* provider_credentials, of the tenant or of the server
    binding,  \* the row of task_provider_bindings for "embedding", or None
    budget,   \* tenants.monthly_budget_cents, None without a cap
    spent,    \* the month's sum of usage_events.cost_cents
    state,    \* rows: absent, active, inactive (superseded), gone
    vec,      \* embedding: the model the vector is from, None for NULL
    row,      \* jobs.status, "absent" until there is one
    kind,     \* the task the job runs
    task,     \* where it is: queued, resolved, wiped, working, unbilled,
              \* done, failed, over (ARQ knows that it ended)
    tries,    \* ARQ's job_try
    model,    \* rc.model, None before it is resolved
    left,     \* rows it has still to send
    batch,    \* params["batch_id"]: the tokens of the batch, 0 without one
    used,     \* tokens of the run that no usage event holds yet
    paid,     \* history: tokens the provider charged for the job
    billed,   \* history: tokens the usage events of the job hold
    again,    \* history: the batch was fetched anew after it was logged
    pure      \* history: TRUE from a wipe no task of another model outlives,
              \* until the binding stands for another model

config == <<creds, binding, budget>>
corpus == <<state, vec>>
run    == <<row, kind, task, tries, model, left>>
money  == <<spent, batch, used, paid, billed, again>>
vars   == <<config, corpus, run, money, pure>>

-----------------------------------------------------------------------------
\* The model a binding stands for: its own, or the credential's default.
Serves(b) == IF b = None THEN None
             ELSE IF b.model # None THEN b.model ELSE Default[b.cred]
Bound == Serves(binding)

Present(r) == state[r] \in {"active", "inactive"}
Embeds(k) == k \in {"reembed", "embed_document", "embed_mentions"}
UnderWay(j) == task[j] \in {"resolved", "wiped", "working"}
Active == {"queued", "running"}

\* What a run's tokens cost, rounded up to the cent.
cost_cents(m, tokens) == (tokens * Rate[m] + PerCent - 1) \div PerCent

Init ==
    /\ creds = {} /\ binding = None /\ budget = None
    /\ spent = 0
    /\ state \in [Row -> {"absent", "active"}]
    /\ vec = [r \in Row |-> None]
    /\ row = [j \in Job |-> "absent"]
    /\ kind = [j \in Job |-> None]
    /\ task = [j \in Job |-> "idle"]
    /\ tries = [j \in Job |-> 0]
    /\ model = [j \in Job |-> None]
    /\ left = [j \in Job |-> {}]
    /\ batch = [j \in Job |-> 0]
    /\ used = [j \in Job |-> 0]
    /\ paid = [j \in Job |-> 0]
    /\ billed = [j \in Job |-> 0]
    /\ again = [j \in Job |-> FALSE]
    /\ pure = FALSE

-----------------------------------------------------------------------------
(* Settings: credentials, the binding, the monthly cap                     *)

create_credential(c) ==
    /\ c \notin creds
    /\ creds' = creds \union {c}
    /\ UNCHANGED <<binding, budget, corpus, run, money, pure>>

\* Mutant: the binding survives its credential.
delete_credential_keeping(c) ==
    /\ c \in creds
    /\ creds' = creds \ {c}
    /\ UNCHANGED <<binding, budget, corpus, run, money, pure>>

\* The bindings of the credential go with it (ON DELETE CASCADE).
delete_credential(c) ==
    /\ c \in creds
    /\ creds' = creds \ {c}
    /\ binding' = IF binding # None /\ binding.cred = c THEN None ELSE binding
    /\ pure' = (pure /\ Serves(binding') = Bound)
    /\ UNCHANGED <<budget, corpus, run, money>>

\* A model left out means the credential's own.
upsert_binding(c, m) ==
    /\ c \in creds
    /\ binding' = [cred |-> c, model |-> m]
    /\ pure' = (pure /\ Serves(binding') = Bound)
    /\ UNCHANGED <<creds, budget, corpus, run, money>>

set_budget(b) ==
    /\ budget' = b
    /\ UNCHANGED <<creds, binding, corpus, run, money, pure>>

\* month_spend_cents sums from the first of the month.
new_month ==
    /\ spent' = 0
    /\ UNCHANGED <<config, corpus, run, batch, used, paid, billed, again, pure>>

-----------------------------------------------------------------------------
(* The API: asking for a job                                               *)

\* assert_within_budget: the cap is compared with what is recorded so far.
assert_within_budget == budget # None => spent < budget

Fresh(j) == row[j] = "absent" /\ \A i \in Job : i < j => row[i] # "absent"

queue_job(j, k) ==
    /\ Fresh(j)
    /\ row' = [row EXCEPT ![j] = "queued"]
    /\ kind' = [kind EXCEPT ![j] = k]
    /\ task' = [task EXCEPT ![j] = "queued"]
    /\ UNCHANGED <<config, corpus, tries, model, left, money, pure>>

\* A second request is answered with the job that is active.
request_reembed(j) ==
    /\ ~ \E i \in Job : kind[i] = "reembed" /\ row[i] \in Active
    /\ assert_within_budget
    /\ queue_job(j, "reembed")

\* Transcription, extraction and the parsing of an index.
request_reading(j, k) == assert_within_budget /\ queue_job(j, k)

\* Embedding a document is never refused; an extraction asks for it too.
request_embedding(j, k) == queue_job(j, k)

\* Cancelled by the user, or reaped because it looks dead.
settle(j, status) ==
    /\ row[j] \in Active
    /\ row' = [row EXCEPT ![j] = status]
    /\ UNCHANGED <<config, corpus, kind, task, tries, model, left, money, pure>>

-----------------------------------------------------------------------------
(* The worker                                                              *)

\* The job is marked running and its model is settled; nothing is bound, or
\* the credential is no use: the job ends there.  A reading job has a binding
\* of its own, or an override.
resolve(j) ==
    /\ task[j] = "queued"
    /\ tries' = [tries EXCEPT ![j] = @ + 1]
    /\ \E m \in IF Embeds(kind[j]) THEN {Bound} ELSE Model \union {None} :
          /\ model' = [model EXCEPT ![j] = m]
          /\ task' = [task EXCEPT ![j] = IF m = None THEN "failed" ELSE "resolved"]
          /\ row' = [row EXCEPT ![j] = IF m = None THEN "error" ELSE "running"]
    /\ left' = [left EXCEPT ![j] = {}]
    /\ used' = [used EXCEPT ![j] = 0]
    /\ UNCHANGED <<config, corpus, kind, spent, batch, paid, billed, again, pure>>

\* No task that holds another model can still write.
Alone(j) == \A i \in Job : UnderWay(i) /\ Embeds(kind[i]) => model[i] = model[j]

\* Mutant: the mentions keep the vectors they have.
Wiped_transcriptions == [r \in Row |-> IF Table[r] = "tx" THEN None ELSE vec[r]]
Wiped == [r \in Row |-> None]

\* "wipe existing vectors (they belong to the old model's space)"
wipe(j) ==
    /\ kind[j] = "reembed" /\ task[j] = "resolved"
    /\ vec' = Wiped
    /\ pure' = (model[j] = Bound /\ Alone(j))
    /\ task' = [task EXCEPT ![j] = "wiped"]
    /\ UNCHANGED <<config, state, row, kind, tries, model, left, money>>

\* Mutant: superseded transcriptions are left out, as in embed_document.
Everything_active == {r \in Row \ Blank : state[r] = "active"}
\* What a re-embedding sends: every row with text, superseded or not.
Everything == {r \in Row \ Blank : Present(r)}

\* Rows of a table that have no vector yet; superseded transcriptions wait.
Pending(table) ==
    {r \in Row \ Blank : Table[r] = table /\ state[r] = "active" /\ vec[r] = None}

\* What the task is going to send: everything, or the rows of one document
\* that have no vector.
read_targets(j) ==
    /\ \/ /\ kind[j] = "reembed" /\ task[j] = "wiped"
          /\ left' = [left EXCEPT ![j] = Everything]
       \/ /\ kind[j] \in {"embed_document", "embed_mentions"} /\ task[j] = "resolved"
          /\ \E rows \in SUBSET Pending(IF kind[j] = "embed_document" THEN "tx" ELSE "mn") :
                left' = [left EXCEPT ![j] = rows]
       \/ /\ ~ Embeds(kind[j]) /\ task[j] = "resolved"
          /\ left' = left
    /\ task' = [task EXCEPT ![j] = "working"]
    /\ UNCHANGED <<config, corpus, row, kind, tries, model, money, pure>>

\* A batch is full unless it is the table's last; transcriptions go first.
Chunks(rows) ==
    LET tx    == {r \in rows : Table[r] = "tx"}
        first == IF tx # {} THEN tx ELSE rows
    IN {c \in SUBSET first : IF Cardinality(first) <= Batch THEN c = first
                             ELSE Cardinality(c) = Batch}

\* Mutant: an event is logged for every batch, and one for them all.
charge_each(j, tokens) ==
    /\ used' = [used EXCEPT ![j] = @ + tokens]
    /\ paid' = [paid EXCEPT ![j] = @ + tokens]
    /\ billed' = [billed EXCEPT ![j] = @ + tokens]
    /\ spent' = spent + cost_cents(model[j], tokens)
    /\ UNCHANGED <<batch, again>>

\* The provider charges; the task adds up what it will log at its end.
charge(j, tokens) ==
    /\ used' = [used EXCEPT ![j] = @ + tokens]
    /\ paid' = [paid EXCEPT ![j] = @ + tokens]
    /\ UNCHANGED <<spent, batch, billed, again>>

\* The call and the UPDATEs of its vectors: a row deleted meanwhile matches
\* none of them, and the provider is paid for it all the same.
store(j) ==
    /\ task[j] = "working" /\ left[j] # {}
    /\ \E chunk \in Chunks(left[j]) :
          /\ left' = [left EXCEPT ![j] = @ \ chunk]
          /\ vec' = [r \in Row |-> IF r \in chunk /\ Present(r) THEN model[j] ELSE vec[r]]
          /\ charge(j, Cardinality(chunk))
    /\ UNCHANGED <<config, state, row, kind, task, tries, model, pure>>

\* An extraction in the batch modality goes page by page if the provider has
\* no batch API.
InBatch(j) == kind[j] = "batch" /\ model[j] \in Offline

\* A page is read: it may hold nothing, bring a row, or supersede another.
read_page(j) ==
    /\ task[j] = "working" /\ ~ Embeds(kind[j]) /\ ~ InBatch(j) /\ used[j] < MaxPages
    /\ \/ state' = state
       \/ /\ kind[j] \in {"read", "batch"}
          /\ \E r \in Row, old \in Row :
                /\ state[r] = "absent"
                /\ old = r \/ (state[old] = "active" /\ Table[old] = "tx" /\ Table[r] = "tx")
                /\ state' = [state EXCEPT ![old] = "inactive", ![r] = "active"]
    /\ charge(j, 1)
    /\ UNCHANGED <<config, vec, run, pure>>

\* All pages are sent at once and charged once; the job keeps the batch's id.
submit_batch(j) ==
    /\ task[j] = "working" /\ InBatch(j) /\ batch[j] = 0
    /\ \E tokens \in 1..MaxPages :
          /\ batch' = [batch EXCEPT ![j] = tokens]
          /\ paid' = [paid EXCEPT ![j] = @ + tokens]
    /\ UNCHANGED <<config, corpus, run, spent, used, billed, again, pure>>

\* The provider has done the batch of the id, which may be an earlier run's: the
\* results become mentions, their tokens are added up.
fetch_batch(j) ==
    /\ task[j] = "working" /\ InBatch(j) /\ batch[j] # 0 /\ used[j] = 0
    /\ used' = [used EXCEPT ![j] = batch[j]]
    /\ again' = [again EXCEPT ![j] = @ \/ billed[j] # 0]
    /\ \E rows \in SUBSET {r \in Row : state[r] = "absent" /\ Table[r] = "mn"} :
          state' = [r \in Row |-> IF r \in rows THEN "active" ELSE state[r]]
    /\ UNCHANGED <<config, vec, run, spent, batch, paid, billed, pure>>

\* It failed, expired or was not done in four hours: the job ends, nothing is
\* logged.
lose_batch(j) ==
    /\ task[j] = "working" /\ InBatch(j) /\ batch[j] # 0 /\ used[j] = 0
    /\ row' = [row EXCEPT ![j] = "error"]
    /\ task' = [task EXCEPT ![j] = "done"]
    /\ UNCHANGED <<config, corpus, kind, tries, model, left, money, pure>>

\* The usage event of the job: its own transaction, at the end of the run.
record_usage(j) ==
    /\ billed' = [billed EXCEPT ![j] = @ + used[j]]
    /\ spent' = spent + cost_cents(model[j], used[j])
    /\ used' = [used EXCEPT ![j] = 0]
    /\ UNCHANGED <<batch, paid, again>>

\* The job is completed, cancelled or not.  Parsing an index logs its usage in
\* the same transaction; the others in the next.
complete(j) ==
    /\ task[j] = "working" /\ left[j] = {}
    /\ InBatch(j) => used[j] # 0
    /\ row' = [row EXCEPT ![j] = "completed"]
    /\ IF kind[j] = "index"
       THEN /\ task' = [task EXCEPT ![j] = "done"]
            /\ record_usage(j)
       ELSE /\ task' = [task EXCEPT ![j] = "unbilled"]
            /\ UNCHANGED money
    /\ UNCHANGED <<config, corpus, kind, tries, model, left, pure>>

bill(j) ==
    /\ task[j] = "unbilled"
    /\ task' = [task EXCEPT ![j] = "done"]
    /\ record_usage(j)
    /\ UNCHANGED <<config, corpus, row, kind, tries, model, left, pure>>

\* A reading task that finds itself cancelled returns, and logs no usage.
stop_cancelled(j) ==
    /\ task[j] = "working" /\ kind[j] \in {"read", "batch"} /\ row[j] = "cancelled"
    /\ task' = [task EXCEPT ![j] = "done"]
    /\ UNCHANGED <<config, corpus, row, kind, tries, model, left, money, pure>>

\* The provider or the database raises: ARQ gives the job up, its row stays.
fail(j) ==
    /\ UnderWay(j)
    /\ task' = [task EXCEPT ![j] = "failed"]
    /\ UNCHANGED <<config, corpus, row, kind, tries, model, left, money, pure>>

\* ARQ notes that the task ended, however it did, and forgets it.
ack(j) ==
    /\ task[j] \in {"done", "failed"}
    /\ task' = [task EXCEPT ![j] = "over"]
    /\ UNCHANGED <<config, corpus, row, kind, tries, model, left, money, pure>>

\* The worker dies.  The boot sweep ends the rows it finds running; ARQ hands
\* out again what it does not know to have ended, if it has tries left.
crash ==
    /\ LET lost == {j \in Job : UnderWay(j) \/ task[j] \in {"unbilled", "done", "failed"}}
       IN /\ lost # {}
          /\ task' = [j \in Job |->
                         IF j \notin lost THEN task[j]
                         ELSE IF tries[j] < MaxTries THEN "queued" ELSE "failed"]
    /\ row' = [j \in Job |-> IF row[j] = "running" THEN "error" ELSE row[j]]
    /\ UNCHANGED <<config, corpus, kind, tries, model, left, money, pure>>

-----------------------------------------------------------------------------
(* The corpus                                                              *)

\* Its document is deleted.
remove_row(r) ==
    /\ Present(r)
    /\ state' = [state EXCEPT ![r] = "gone"]
    /\ vec' = [vec EXCEPT ![r] = None]
    /\ UNCHANGED <<config, run, money, pure>>

-----------------------------------------------------------------------------
Settings ==
    \/ \E c \in Cred : \/ create_credential(c) \/ delete_credential(c)
                       \/ \E m \in Model \union {None} : upsert_binding(c, m)
    \/ \E b \in Budgets \union {None} : set_budget(b)
    \/ new_month

Requests ==
    \E j \in Job :
       \/ request_reembed(j)
       \/ \E k \in {"embed_document", "embed_mentions"} : request_embedding(j, k)
       \/ \E k \in {"read", "batch", "index"} : request_reading(j, k)
       \/ \E status \in {"cancelled", "error"} : settle(j, status)

\* What the task does when nothing fails.
Work(j) == \/ resolve(j) \/ wipe(j) \/ read_targets(j) \/ store(j)
           \/ submit_batch(j) \/ fetch_batch(j) \/ complete(j) \/ bill(j) \/ ack(j)

Next ==
    \/ Settings \/ Requests
    \/ \E j \in Job : Work(j) \/ read_page(j) \/ lose_batch(j) \/ stop_cancelled(j) \/ fail(j)
    \/ crash
    \/ \E r \in Row : remove_row(r)

\* The worker takes what is queued and goes on with what it took.
Fairness == \A j \in Job : WF_vars(Work(j))

Spec == Init /\ [][Next]_vars /\ Fairness

-----------------------------------------------------------------------------
(* Properties                                                              *)

\* Every variable has its type; the binding names a credential that exists.
TypeOK ==
    /\ creds \subseteq Cred
    /\ binding = None \/ (binding \in [cred : creds, model : Model \union {None}])
    /\ budget \in Budgets \union {None}
    /\ spent \in Nat
    /\ state \in [Row -> {"absent", "active", "inactive", "gone"}]
    /\ vec \in [Row -> Model \union {None}]
    /\ row \in [Job -> {"absent", "queued", "running", "completed", "error", "cancelled"}]
    /\ kind \in [Job -> Kinds \union {None}]
    /\ task \in [Job -> {"idle", "queued", "resolved", "wiped", "working",
                         "unbilled", "done", "failed", "over"}]
    /\ tries \in [Job -> Nat]
    /\ model \in [Job -> Model \union {None}]
    /\ left \in [Job -> SUBSET Row]
    /\ batch \in [Job -> Nat] /\ used \in [Job -> Nat]
    /\ paid \in [Job -> Nat] /\ billed \in [Job -> Nat] /\ again \in [Job -> BOOLEAN]
    /\ pure \in BOOLEAN

\* "vectors from different models aren't comparable" (providers/router.py:41):
\* from a wipe that no task of another model outlives, and for as long as the
\* binding stands for the same model, every vector is of that model, whatever
\* is embedded, cancelled, retried or lost meanwhile; a search embeds its
\* question with it.
OneModel == pure => \A r \in Row : vec[r] \in {Bound, None}

\* A token is logged at most once: the usage events of a job and what its run
\* still has to log never exceed what the provider charged for it, however often
\* the job is handed out again, a batch that is paid once and fetched by several
\* runs included.  Only a run that died after its batch was logged, before ARQ
\* knew, leaves one that logs it again.  (They may fall short: a run that is
\* cancelled, fails or dies logs nothing.)
LoggedOnce == \A j \in Job : again[j] \/ billed[j] + used[j] <= paid[j]

\* A row the wipe took the vector from gets one of the bound model, unless
\* the binding changes, the row is deleted, or the job fails; a worker that
\* dies costs a try and no row.
Restored ==
    \A j \in Job, r \in Row \ Blank :
       (task[j] = "wiped" /\ pure /\ Present(r))
       ~> (vec[r] = Bound \/ ~pure \/ ~Present(r) \/ task[j] = "failed")
=============================================================================
