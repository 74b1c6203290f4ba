------------------------------ MODULE JobBoard ------------------------------
(***************************************************************************)
(* What the job list promises its readers, whoever writes to it: a job is  *)
(* posted once and never disappears; it runs only as often as the queue    *)
(* may deliver it; it is settled sooner or later.  The statuses are those  *)
(* of modules/jobs/constants.py.  Nothing here says HOW a job is settled   *)
(* (the task, a cancel, the reaper, the boot sweep): module Jobs does, and *)
(* is checked and proved to implement this one.                            *)
(***************************************************************************)
EXTENDS Naturals

CONSTANTS Job,      \* rows of the jobs table
          MaxTries  \* WorkerSettings.max_tries

VARIABLES row,      \* the status column, "absent" before the INSERT
          budget    \* how many more times the queue may still start the job

boardVars == <<row, budget>>

Active   == {"queued", "running"}
Terminal == {"completed", "error", "cancelled"}
Statuses == Active \union Terminal

BoardInit ==
    /\ row = [j \in Job |-> "absent"]
    /\ budget = [j \in Job |-> MaxTries]

Post(j) ==
    /\ row[j] = "absent"
    /\ row' = [row EXCEPT ![j] = "queued"]
    /\ UNCHANGED budget

Start(j) ==
    /\ row[j] # "absent"
    /\ budget[j] > 0
    /\ row' = [row EXCEPT ![j] = "running"]
    /\ budget' = [budget EXCEPT ![j] = @ - 1]

\* Several jobs may settle in one statement (the reaper, the boot sweep).
Settle ==
    /\ \E S \in (SUBSET Job) \ {{}} :
          /\ \A j \in S : row[j] # "absent"
          /\ \E f \in [S -> Terminal] :
                row' = [j \in Job |-> IF j \in S THEN f[j] ELSE row[j]]
    /\ UNCHANGED budget

\* Starts that a worker crash swallowed between the delivery and the claim.
Forfeit ==
    /\ \E S \in (SUBSET Job) \ {{}} :
          /\ \A j \in S : budget[j] > 0
          /\ budget' = [j \in Job |-> IF j \in S THEN budget[j] - 1 ELSE budget[j]]
    /\ UNCHANGED row

BoardNext == Settle \/ Forfeit \/ \E j \in Job : Post(j) \/ Start(j)

BoardSpec == BoardInit /\ [][BoardNext]_boardVars

=============================================================================
