---------------------------- MODULE MCProviders ----------------------------
(***************************************************************************)
(* A small tenant: two credentials with a model each, two transcriptions   *)
(* and a mention, two jobs at a time.  The tenant is set up when the story *)
(* starts: the first credential is bound and the rows have vectors of its  *)
(* model.                                                                  *)
(***************************************************************************)
EXTENDS Providers, TLC

CONSTANTS c1, c2, m1, m2, t1, t2, p1,
          MaxTurns,  \* bound: changes of the settings, the corpus and the month
          MaxUpsets  \* bound: failures and crashes

VARIABLES turns, upsets, cast  \* cast: the jobs that are asked for, in order

mcvars == <<vars, turns, upsets, cast>>

TheDefaults == (c1 :> m1 @@ c2 :> m2)
TheTables == (t1 :> "tx" @@ t2 :> "tx" @@ p1 :> "mn")
TheRates == (m1 :> 1 @@ m2 :> 2)

\* The cap, the month and the credentials change where a reading job spends,
\* the choice of a model and the rows where only vectors are written.
Reads == cast[1] \in {"read", "batch", "index"}

MCInit ==
    /\ cast \in {<<"reembed", "reembed">>, <<"embed_document", "reembed">>,
                 <<"read", "embed_mentions">>, <<"batch", "embed_mentions">>,
                 <<"index", "reembed">>}
    /\ creds = (IF Reads THEN {c1} ELSE Cred) /\ binding = [cred |-> c1, model |-> None]
    /\ budget = None /\ spent = 0
    /\ state = (t1 :> "active" @@ t2 :> "inactive"
                    @@ p1 :> IF Reads THEN "absent" ELSE "active")
    /\ vec = [r \in Row |-> IF Present(r) THEN m1 ELSE None]
    /\ row = [j \in Job |-> "absent"] /\ kind = [j \in Job |-> None]
    /\ task = [j \in Job |-> "idle"] /\ tries = [j \in Job |-> 0]
    /\ model = [j \in Job |-> None] /\ left = [j \in Job |-> {}]
    /\ batch = [j \in Job |-> 0] /\ used = [j \in Job |-> 0] /\ paid = [j \in Job |-> 0]
    /\ billed = [j \in Job |-> 0] /\ again = [j \in Job |-> FALSE]
    /\ pure = FALSE
    /\ turns = 0 /\ upsets = 0

\* A change and the way back matter to the choice of a model, and to the cap.
Turns == IF cast[1] \in {"embed_document", "read"} THEN MaxTurns ELSE 1

Turn == /\ \/ Reads /\ \/ upsert_binding(c2, None) \/ create_credential(c2) \/ delete_credential(c2)
                       \/ delete_credential(c1) \/ new_month \/ \E b \in Budgets : set_budget(b)
           \/ ~ Reads /\ \/ upsert_binding(c1, m2) \/ upsert_binding(c1, None)
                         \/ remove_row(t1)
        /\ turns < Turns
        /\ \E j \in Job : task[j] \notin {"done", "failed", "over"}
        /\ turns' = turns + 1 /\ UNCHANGED <<upsets, cast>>

Upset == /\ \/ crash
            \/ \E j \in Job : fail(j) \/ settle(j, IF Reads THEN "cancelled" ELSE "error")
         /\ upsets < MaxUpsets
         /\ upsets' = upsets + 1 /\ UNCHANGED <<turns, cast>>

Plain == /\ \E j \in Job :
               \/ cast[j] = "reembed" /\ request_reembed(j)
               \/ cast[j] \in {"embed_document", "embed_mentions"} /\ request_embedding(j, cast[j])
               \/ cast[j] \in {"read", "batch", "index"} /\ request_reading(j, cast[j])
               \/ Work(j) \/ read_page(j) \/ lose_batch(j) \/ stop_cancelled(j)
         /\ UNCHANGED <<turns, upsets, cast>>

\* When no worker dies any more nobody waits for ARQ to note an end: who does it
\* first makes no difference.
Ended == upsets = MaxUpsets /\ \E j \in Job : task[j] \in {"done", "failed"}

MCNext == \/ ~ Ended /\ (Turn \/ Upset \/ Plain)
          \/ Ended /\ (\E j \in Job : ack(j)) /\ UNCHANGED <<turns, upsets, cast>>

MCSpec == /\ MCInit /\ [][MCNext]_mcvars
          /\ \A j \in Job : WF_mcvars(Work(j) /\ UNCHANGED <<turns, upsets, cast>>)
=============================================================================
