-------------------------- MODULE ProvidersProofs --------------------------
(***************************************************************************)
(* Providers, for any number of credentials, models, rows and jobs: the    *)
(* types hold, no vector is of another model once a wipe has made the      *)
(* corpus pure, and no token is logged twice.                              *)
(***************************************************************************)
EXTENDS Providers, FiniteSetTheorems, TLAPS

-----------------------------------------------------------------------------
(* Types                                                                   *)

\* The rows of a call are rows still to be sent, and they can be counted.
LEMMA ChunkIsFinite ==
    ASSUME NEW rows \in SUBSET Row, NEW c \in Chunks(rows)
    PROVE  c \subseteq rows /\ Cardinality(c) \in Nat
<1>1. c \subseteq rows
  BY DEF Chunks
<1>2. IsFiniteSet(c)
  BY <1>1, FS_Subset, ProvidersAssumption DEF ProvidersAssumption
<1> QED BY <1>1, <1>2, FS_CardinalityType

\* What a run costs is a number of cents.
LEMMA CostIsNat ==
    ASSUME NEW m \in Model, NEW n \in Nat
    PROVE  cost_cents(m, n) \in Nat
<1>1. Rate[m] \in Nat /\ PerCent \in Nat \ {0}
  BY ProvidersAssumption DEF ProvidersAssumption
<1>2. n * Rate[m] \in Nat
  BY <1>1, SMT
<1>3. \A a \in Nat, b \in Nat \ {0} : (a + b - 1) \div b \in Nat
  BY SMT
<1> QED BY <1>1, <1>2, <1>3 DEF cost_cents

\* A worker's task has a model from the moment it has resolved one.
Resolved == \A j \in Job : UnderWay(j) \/ task[j] = "unbilled" => model[j] \in Model

TypeInv == TypeOK /\ Resolved

USE DEF vars, config, corpus, run, money

\* The initial state has its types.
LEMMA TypeInit == Init => TypeInv
<1> SUFFICES ASSUME Init PROVE TypeInv
  OBVIOUS
<1>1. /\ creds \subseteq Cred /\ binding = None /\ budget \in Budgets \union {None}
      /\ spent \in Nat /\ pure \in BOOLEAN
  BY DEF Init
<1>2. /\ state \in [Row -> {"absent", "active", "inactive", "gone"}]
      /\ vec \in [Row -> Model \union {None}]
  BY DEF Init
<1>3. /\ row \in [Job -> {"absent", "queued", "running", "completed", "error", "cancelled"}]
      /\ kind \in [Job -> Kinds \union {None}]
      /\ task \in [Job -> {"idle", "queued", "resolved", "wiped", "working",
                           "unbilled", "done", "failed", "over"}]
      /\ tries \in [Job -> Nat] /\ model \in [Job -> Model \union {None}]
      /\ left \in [Job -> SUBSET Row]
      /\ batch \in [Job -> Nat] /\ used \in [Job -> Nat]
      /\ paid \in [Job -> Nat] /\ billed \in [Job -> Nat] /\ again \in [Job -> BOOLEAN]
  BY DEF Init
<1>4. Resolved
  BY DEF Init, Resolved, UnderWay
<1> QED BY <1>1, <1>2, <1>3, <1>4 DEF TypeInv, TypeOK

\* A change of the settings keeps them.
LEMMA TypeSettings == TypeInv /\ Settings => TypeInv'
<1> SUFFICES ASSUME TypeInv, Settings PROVE TypeInv'
  OBVIOUS
<1> USE DEF TypeInv, TypeOK, Resolved, UnderWay
<1>1. ASSUME NEW c \in Cred, create_credential(c) PROVE TypeInv'
  BY <1>1 DEF create_credential
<1>2. ASSUME NEW c \in Cred, delete_credential(c) PROVE TypeInv'
  <2>1. binding' = None \/ binding' \in [cred : creds', model : Model \union {None}]
    BY <1>2 DEF delete_credential
  <2> QED BY <1>2, <2>1 DEF delete_credential
<1>3. ASSUME NEW c \in Cred, NEW m \in Model \union {None}, upsert_binding(c, m) PROVE TypeInv'
  BY <1>3 DEF upsert_binding
<1>4. ASSUME NEW b \in Budgets \union {None}, set_budget(b) PROVE TypeInv'
  BY <1>4 DEF set_budget
<1>5. ASSUME new_month PROVE TypeInv'
  BY <1>5 DEF new_month
<1> QED BY <1>1, <1>2, <1>3, <1>4, <1>5 DEF Settings

\* So does a request.
LEMMA TypeRequests == TypeInv /\ Requests => TypeInv'
<1> SUFFICES ASSUME TypeInv, Requests PROVE TypeInv'
  OBVIOUS
<1> USE DEF TypeInv, TypeOK, Resolved, UnderWay
<1>1. ASSUME NEW j \in Job, NEW k \in Kinds, queue_job(j, k) PROVE TypeInv'
  BY <1>1 DEF queue_job
<1>2. ASSUME NEW j \in Job, NEW s \in {"cancelled", "error"}, settle(j, s) PROVE TypeInv'
  BY <1>2 DEF settle
<1> QED BY <1>1, <1>2 DEF Requests, request_reembed, request_reading, request_embedding, Kinds

\* And so does every step of the worker.
LEMMA TypeTask ==
    ASSUME TypeInv, NEW j \in Job,
           Work(j) \/ read_page(j) \/ lose_batch(j) \/ stop_cancelled(j) \/ fail(j)
    PROVE  TypeInv'
<1> USE DEF TypeInv, TypeOK, Resolved, UnderWay
<1>1. ASSUME resolve(j) PROVE TypeInv'
  <2>1. Bound \in Model \union {None}
    BY ProvidersAssumption DEF Bound, Serves, ProvidersAssumption
  <2> QED BY <1>1, <2>1 DEF resolve
<1>2. ASSUME wipe(j) PROVE TypeInv'
  <2>1. vec' \in [Row -> Model \union {None}]
    BY <1>2 DEF wipe, Wiped
  <2>2. pure' \in BOOLEAN
    BY <1>2 DEF wipe
  <2> QED BY <1>2, <2>1, <2>2 DEF wipe
<1>3. ASSUME read_targets(j) PROVE TypeInv'
  <2>1. left' \in [Job -> SUBSET Row]
    BY <1>3 DEF read_targets, Everything, Pending
  <2> QED BY <1>3, <2>1 DEF read_targets
<1>4. ASSUME store(j) PROVE TypeInv'
  <2>1. PICK chunk \in Chunks(left[j]) :
           /\ left' = [left EXCEPT ![j] = @ \ chunk]
           /\ vec' = [r \in Row |-> IF r \in chunk /\ Present(r) THEN model[j] ELSE vec[r]]
           /\ charge(j, Cardinality(chunk))
    BY <1>4 DEF store
  <2>2. Cardinality(chunk) \in Nat
    BY ChunkIsFinite
  <2>3. /\ used' \in [Job -> Nat] /\ paid' \in [Job -> Nat] /\ billed' \in [Job -> Nat]
        /\ spent' \in Nat /\ UNCHANGED <<batch, again>>
    BY <2>1, <2>2 DEF charge
  <2>4. vec' \in [Row -> Model \union {None}]
    BY <1>4, <2>1 DEF store
  <2>5. left' \in [Job -> SUBSET Row]
    BY <2>1
  <2> QED BY <1>4, <2>3, <2>4, <2>5 DEF store
<1>5. ASSUME complete(j) \/ bill(j) PROVE TypeInv'
  <2>1. /\ used' \in [Job -> Nat] /\ paid' \in [Job -> Nat]
        /\ billed' \in [Job -> Nat] /\ spent' \in Nat /\ UNCHANGED <<batch, again>>
    <3>1. ASSUME record_usage(j)
          PROVE  /\ used' \in [Job -> Nat] /\ paid' \in [Job -> Nat]
                 /\ billed' \in [Job -> Nat] /\ spent' \in Nat /\ UNCHANGED <<batch, again>>
      <4>1. model[j] \in Model
        BY <1>5 DEF complete, bill
      <4>2. cost_cents(model[j], used[j]) \in Nat
        BY <4>1, CostIsNat
      <4> QED BY <3>1, <4>2 DEF record_usage
    <3> QED BY <1>5, <3>1 DEF complete, bill
  <2>2. /\ row' \in [Job -> {"absent", "queued", "running", "completed", "error", "cancelled"}]
        /\ task' \in [Job -> {"idle", "queued", "resolved", "wiped", "working",
                              "unbilled", "done", "failed", "over"}]
    BY <1>5 DEF complete, bill
  <2>3. Resolved'
    BY <1>5 DEF complete, bill
  <2> QED BY <1>5, <2>1, <2>2, <2>3 DEF complete, bill
<1>6. ASSUME read_page(j) PROVE TypeInv'
  <2>1. /\ used' \in [Job -> Nat] /\ paid' \in [Job -> Nat] /\ billed' \in [Job -> Nat]
        /\ spent' \in Nat /\ UNCHANGED <<batch, again>>
    BY <1>6 DEF read_page, charge
  <2>2. state' \in [Row -> {"absent", "active", "inactive", "gone"}]
    BY <1>6 DEF read_page
  <2> QED BY <1>6, <2>1, <2>2 DEF read_page
<1>7. ASSUME stop_cancelled(j) \/ fail(j) \/ lose_batch(j) \/ ack(j) PROVE TypeInv'
  BY <1>7 DEF stop_cancelled, fail, lose_batch, ack
<1>8. ASSUME submit_batch(j) PROVE TypeInv'
  <2>1. batch' \in [Job -> Nat] /\ paid' \in [Job -> Nat]
    BY <1>8, ProvidersAssumption DEF submit_batch, ProvidersAssumption
  <2> QED BY <1>8, <2>1 DEF submit_batch
<1>9. ASSUME fetch_batch(j) PROVE TypeInv'
  <2>1. state' \in [Row -> {"absent", "active", "inactive", "gone"}]
    BY <1>9 DEF fetch_batch
  <2>2. used' \in [Job -> Nat] /\ again' \in [Job -> BOOLEAN]
    BY <1>9 DEF fetch_batch
  <2> QED BY <1>9, <2>1, <2>2 DEF fetch_batch
<1> QED BY <1>1, <1>2, <1>3, <1>4, <1>5, <1>6, <1>7, <1>8, <1>9 DEF Work

\* The death of the worker and the deletion of a row keep them too.
LEMMA TypeNext == TypeInv /\ [Next]_vars => TypeInv'
<1> SUFFICES ASSUME TypeInv, [Next]_vars PROVE TypeInv'
  OBVIOUS
<1>1. CASE crash
  <2>1. /\ row' \in [Job -> {"absent", "queued", "running", "completed", "error", "cancelled"}]
        /\ task' \in [Job -> {"idle", "queued", "resolved", "wiped", "working",
                              "unbilled", "done", "failed", "over"}]
    BY <1>1 DEF crash, TypeInv, TypeOK
  <2>2. Resolved'
    BY <1>1 DEF crash, TypeInv, TypeOK, Resolved, UnderWay
  <2> QED BY <1>1, <2>1, <2>2 DEF crash, TypeInv, TypeOK
<1>2. ASSUME NEW r \in Row, remove_row(r) PROVE TypeInv'
  BY <1>2 DEF remove_row, TypeInv, TypeOK, Resolved, UnderWay
<1>3. CASE UNCHANGED vars
  BY <1>3 DEF TypeInv, TypeOK, Resolved, UnderWay
<1> QED BY <1>1, <1>2, <1>3, TypeSettings, TypeRequests, TypeTask DEF Next

\* Every variable keeps its type, and the binding a credential that exists,
\* whoever deletes it (the cascade of task_provider_bindings).
THEOREM TypeCorrect == Spec => []TypeOK
<1>1. Spec => []TypeInv
  BY TypeInit, TypeNext, PTL DEF Spec
<1> QED BY <1>1, PTL DEF TypeInv

-----------------------------------------------------------------------------
(* Spending                                                                *)

\* What is fetched was paid, so that a run may fetch it that has nothing logged.
BatchPaid == \A j \in Job : batch[j] <= paid[j]
SpendInv == LoggedOnce /\ BatchPaid

\* No step logs a token a second time.
LEMMA LoggedNext == TypeInv /\ SpendInv /\ [Next]_vars => SpendInv'
<1> SUFFICES ASSUME TypeInv, SpendInv, [Next]_vars PROVE SpendInv'
  OBVIOUS
<1> USE DEF SpendInv, LoggedOnce, BatchPaid
<1>1. ASSUME UNCHANGED <<batch, used, paid, billed, again>> PROVE SpendInv'
  BY <1>1
<1>2. ASSUME NEW j \in Job, NEW n \in Nat, charge(j, n) PROVE SpendInv'
  BY <1>2 DEF charge, TypeInv, TypeOK
<1>3. ASSUME NEW j \in Job, record_usage(j) PROVE SpendInv'
  BY <1>3 DEF record_usage, TypeInv, TypeOK
<1>4. ASSUME NEW j \in Job, resolve(j) PROVE SpendInv'
  BY <1>4 DEF resolve, TypeInv, TypeOK
<1>5. ASSUME NEW j \in Job, store(j) PROVE SpendInv'
  <2>1. PICK chunk \in Chunks(left[j]) : charge(j, Cardinality(chunk))
    BY <1>5 DEF store
  <2>2. left[j] \in SUBSET Row
    BY DEF TypeInv, TypeOK
  <2> QED BY <1>2, <2>1, <2>2, ChunkIsFinite
<1>6. ASSUME NEW j \in Job, read_page(j) PROVE SpendInv'
  BY <1>2, <1>6 DEF read_page
<1>7. ASSUME NEW j \in Job, complete(j) \/ bill(j) PROVE SpendInv'
  BY <1>1, <1>3, <1>7 DEF complete, bill
<1>8. ASSUME NEW j \in Job,
             \/ wipe(j) \/ read_targets(j) \/ stop_cancelled(j) \/ fail(j)
             \/ lose_batch(j) \/ ack(j)
      PROVE  SpendInv'
  BY <1>1, <1>8 DEF wipe, read_targets, stop_cancelled, fail, lose_batch, ack
<1>9. ASSUME NEW j \in Job, submit_batch(j) PROVE SpendInv'
  <2>1. PICK n \in 1..MaxPages : /\ batch' = [batch EXCEPT ![j] = n]
                                 /\ paid' = [paid EXCEPT ![j] = @ + n]
    BY <1>9 DEF submit_batch
  <2>2. n \in Nat /\ UNCHANGED <<used, billed, again>>
    BY <1>9, ProvidersAssumption DEF submit_batch, ProvidersAssumption
  <2>3. SUFFICES ASSUME NEW i \in Job
                 PROVE  /\ again'[i] \/ billed'[i] + used'[i] <= paid'[i]
                        /\ batch'[i] <= paid'[i]
    OBVIOUS
  <2>4. /\ paid[i] \in Nat /\ batch[i] \in Nat /\ used[i] \in Nat /\ billed[i] \in Nat
        /\ batch \in [Job -> Nat] /\ paid \in [Job -> Nat]
    BY DEF TypeInv, TypeOK
  <2>5. CASE i = j
    BY <2>1, <2>2, <2>4, <2>5
  <2>6. CASE i # j
    BY <2>1, <2>2, <2>4, <2>6
  <2> QED BY <2>5, <2>6
<1>10. ASSUME NEW j \in Job, fetch_batch(j) PROVE SpendInv'
  <2>1. /\ used' = [used EXCEPT ![j] = batch[j]]
        /\ again' = [again EXCEPT ![j] = @ \/ billed[j] # 0]
        /\ UNCHANGED <<batch, paid, billed>>
    BY <1>10 DEF fetch_batch
  <2>2. SUFFICES ASSUME NEW i \in Job, ~ again'[i]
                 PROVE  billed[i] + used'[i] <= paid[i]
    BY <2>1
  <2>3. /\ paid[i] \in Nat /\ batch[i] \in Nat /\ used[i] \in Nat /\ billed[i] \in Nat
        /\ used \in [Job -> Nat] /\ again \in [Job -> BOOLEAN]
    BY DEF TypeInv, TypeOK
  <2>4. CASE i = j
    <3>1. billed[i] = 0
      BY <2>1, <2>2, <2>3, <2>4
    <3> QED BY <2>1, <2>3, <2>4, <3>1
  <2>5. CASE i # j
    BY <2>1, <2>2, <2>3, <2>5
  <2> QED BY <2>4, <2>5
<1>11. ASSUME Settings PROVE SpendInv'
  BY <1>1, <1>11 DEF Settings, create_credential, delete_credential, upsert_binding,
                     set_budget, new_month
<1>12. ASSUME Requests PROVE SpendInv'
  BY <1>1, <1>12 DEF Requests, request_reembed, request_reading, request_embedding,
                     queue_job, settle
<1>13. ASSUME crash PROVE SpendInv'
  BY <1>1, <1>13 DEF crash
<1>14. ASSUME NEW r \in Row, remove_row(r) PROVE SpendInv'
  BY <1>1, <1>14 DEF remove_row
<1>15. ASSUME UNCHANGED vars PROVE SpendInv'
  BY <1>1, <1>15
<1> QED BY <1>4, <1>5, <1>6, <1>7, <1>8, <1>9, <1>10, <1>11, <1>12, <1>13, <1>14, <1>15
           DEF Next, Work

\* What the usage events of a job hold, with what its run has still to log,
\* never exceeds what the provider charged for it, unless a run fetched a batch
\* after the job had logged something: record_usage is called once in a run, at
\* its end, a run that starts again starts from nothing, and what it finds
\* stored from an earlier run was paid.
THEOREM NothingLoggedTwice == Spec => []LoggedOnce
<1>1. Init => SpendInv
  BY DEF Init, SpendInv, LoggedOnce, BatchPaid
<1>2. Spec => []TypeInv
  BY TypeInit, TypeNext, PTL DEF Spec
<1>3. Spec => []SpendInv
  BY <1>1, <1>2, LoggedNext, PTL DEF Spec
<1> QED BY <1>3, PTL DEF SpendInv

-----------------------------------------------------------------------------
(* Vectors                                                                 *)

\* A job nobody has asked for does nothing; a reading job has no rows to send.
Idle == \A j \in Job :
    /\ row[j] = "absent" => task[j] = "idle" /\ left[j] = {}
    /\ ~ Embeds(kind[j]) => left[j] = {}

\* While the corpus is pure, every task that may still write holds the bound
\* model: without this a vector could come from a task that resolved before
\* the binding changed.
OneWriter == pure => \A j \in Job : UnderWay(j) /\ Embeds(kind[j]) => model[j] = Bound

VectorInv == Idle /\ OneWriter /\ OneModel

\* A step that leaves the binding, the vectors and the tasks alone.
LEMMA VectorStill ==
    ASSUME VectorInv, UNCHANGED <<binding, vec, row, kind, task, model, left, pure>>
    PROVE  VectorInv'
  BY DEF VectorInv, Idle, OneWriter, OneModel, UnderWay, Bound, Serves

\* A change of the binding to another model ends the corpus's purity.
LEMMA VectorRebound ==
    ASSUME VectorInv, UNCHANGED <<vec, row, kind, task, model, left>>,
           pure' = (pure /\ Serves(binding') = Bound)
    PROVE  VectorInv'
<1>1. pure' => pure /\ Bound' = Bound
  BY DEF Bound, Serves
<1> QED BY <1>1 DEF VectorInv, Idle, OneWriter, OneModel, UnderWay

\* Settings and requests.
LEMMA VectorApi == TypeInv /\ VectorInv /\ (Settings \/ Requests) => VectorInv'
<1> SUFFICES ASSUME TypeInv, VectorInv, Settings \/ Requests PROVE VectorInv'
  OBVIOUS
<1>1. ASSUME NEW c \in Cred, create_credential(c) PROVE VectorInv'
  BY <1>1, VectorStill DEF create_credential
<1>2. ASSUME NEW c \in Cred, delete_credential(c) PROVE VectorInv'
  BY <1>2, VectorRebound DEF delete_credential
<1>3. ASSUME NEW c \in Cred, NEW m \in Model \union {None}, upsert_binding(c, m) PROVE VectorInv'
  BY <1>3, VectorRebound DEF upsert_binding
<1>4. ASSUME NEW b \in Budgets \union {None}, set_budget(b) \/ new_month PROVE VectorInv'
  BY <1>4, VectorStill DEF set_budget, new_month
<1>5. ASSUME NEW j \in Job, NEW k \in Kinds, queue_job(j, k) PROVE VectorInv'
  <2>1. row[j] = "absent" /\ left[j] = {}
    BY <1>5 DEF queue_job, Fresh, VectorInv, Idle
  <2>2. Idle'
    BY <1>5, <2>1 DEF queue_job, VectorInv, Idle, Embeds, TypeInv, TypeOK
  <2>3. OneWriter' /\ OneModel'
    BY <1>5 DEF queue_job, VectorInv, OneWriter, OneModel, UnderWay, Embeds, Bound, Serves,
                TypeInv, TypeOK
  <2> QED BY <2>2, <2>3 DEF VectorInv
<1>6. ASSUME NEW j \in Job, NEW s \in {"cancelled", "error"}, settle(j, s) PROVE VectorInv'
  BY <1>6 DEF settle, Active, VectorInv, Idle, OneWriter, OneModel, UnderWay, Bound, Serves,
              TypeInv, TypeOK
<1> QED BY <1>1, <1>2, <1>3, <1>4, <1>5, <1>6
           DEF Settings, Requests, request_reembed, request_reading, request_embedding, Kinds

\* The steps of a task.
LEMMA VectorTask ==
    ASSUME TypeInv, VectorInv, NEW j \in Job,
           Work(j) \/ read_page(j) \/ lose_batch(j) \/ stop_cancelled(j) \/ fail(j)
    PROVE  VectorInv'
<1> USE DEF TypeInv, TypeOK, VectorInv
<1>1. ASSUME resolve(j) PROVE VectorInv'
  <2>1. Idle'
    BY <1>1 DEF resolve, Idle
  <2>2. OneWriter' /\ OneModel'
    BY <1>1 DEF resolve, OneWriter, OneModel, UnderWay, Embeds, Bound, Serves
  <2> QED BY <2>1, <2>2
<1>2. ASSUME wipe(j) PROVE VectorInv'
  <2>1. Idle'
    BY <1>2 DEF wipe, Idle
  <2>2. OneModel'
    BY <1>2 DEF wipe, Wiped, OneModel
  <2>3. ASSUME pure', NEW i \in Job, UnderWay(i)', Embeds(kind[i])'
        PROVE  model'[i] = Bound'
    <3>1. model[j] = Bound /\ Bound' = Bound /\ Alone(j)
      BY <1>2, <2>3 DEF wipe, Bound, Serves
    <3>2. UnderWay(i) /\ Embeds(kind[i])
      BY <1>2, <2>3 DEF wipe, UnderWay, Embeds
    <3> QED BY <1>2, <3>1, <3>2 DEF wipe, Alone
  <2> QED BY <2>1, <2>2, <2>3 DEF OneWriter
<1>3. ASSUME read_targets(j) PROVE VectorInv'
  <2>1. Idle'
    BY <1>3 DEF read_targets, Idle, Embeds
  <2>2. OneWriter' /\ OneModel'
    BY <1>3 DEF read_targets, OneWriter, OneModel, UnderWay, Embeds, Bound, Serves
  <2> QED BY <2>1, <2>2
<1>4. ASSUME store(j) PROVE VectorInv'
  <2>1. Embeds(kind[j]) /\ UnderWay(j)
    BY <1>4 DEF store, Idle, UnderWay
  <2>2. Idle'
    BY <1>4 DEF store, Idle, Embeds
  <2>3. OneWriter'
    BY <1>4 DEF store, OneWriter, UnderWay, Embeds, Bound, Serves
  <2>4. OneModel'
    BY <1>4, <2>1 DEF store, OneWriter, OneModel, Bound, Serves
  <2> QED BY <2>2, <2>3, <2>4
<1>5. ASSUME \/ complete(j) \/ bill(j) \/ stop_cancelled(j) \/ fail(j)
             \/ lose_batch(j) \/ ack(j)
      PROVE  VectorInv'
  <2>1. Idle'
    BY <1>5 DEF complete, bill, stop_cancelled, fail, lose_batch, ack, Idle, UnderWay, Embeds
  <2>2. OneWriter' /\ OneModel'
    BY <1>5 DEF complete, bill, stop_cancelled, fail, lose_batch, ack, OneWriter, OneModel,
                UnderWay, Embeds, Bound, Serves
  <2> QED BY <2>1, <2>2
<1>6. ASSUME read_page(j) \/ submit_batch(j) \/ fetch_batch(j) PROVE VectorInv'
  BY <1>6, VectorStill DEF read_page, submit_batch, fetch_batch
<1> QED BY <1>1, <1>2, <1>3, <1>4, <1>5, <1>6 DEF Work

\* Every step.
LEMMA VectorNext == TypeInv /\ VectorInv /\ [Next]_vars => VectorInv'
<1> SUFFICES ASSUME TypeInv, VectorInv, [Next]_vars PROVE VectorInv'
  OBVIOUS
<1>1. CASE crash
  BY <1>1 DEF crash, VectorInv, Idle, OneWriter, OneModel, UnderWay, Embeds, Bound, Serves,
              TypeInv, TypeOK
<1>2. ASSUME NEW r \in Row, remove_row(r) PROVE VectorInv'
  BY <1>2 DEF remove_row, VectorInv, Idle, OneWriter, OneModel, UnderWay, Embeds, Bound, Serves,
              TypeInv, TypeOK
<1>3. CASE UNCHANGED vars
  BY <1>3, VectorStill
<1> QED BY <1>1, <1>2, <1>3, VectorApi, VectorTask DEF Next

\* From a wipe that no task of another model outlives, and while the binding
\* stands for the same model, the vectors of the corpus are all of that model:
\* what reembed_corpus is for.
THEOREM VectorsOfOneModel == Spec => []OneModel
<1>1. Init => VectorInv
  BY DEF Init, VectorInv, Idle, OneWriter, OneModel
<1>2. Spec => []TypeInv
  BY TypeInit, TypeNext, PTL DEF Spec
<1>3. Spec => []VectorInv
  BY <1>1, <1>2, VectorNext, PTL DEF Spec
<1> QED BY <1>3, PTL DEF VectorInv
=============================================================================
