------------------------------ MODULE JobJournal ------------------------------
(***************************************************************************)
(* What the job log promises to the rest of the service, whatever happens  *)
(* to its file: the jobs still owed to their senders, in the order they    *)
(* were accepted in, and how far the last attempt at each of them got.     *)
(* JobLog implements it with lines in a file, and PrintWorker, which sees  *)
(* the log only through its replays, uses it.                              *)
(***************************************************************************)
CONSTANT Jobs

VARIABLES
    seen,       \* ids already given to a job
    pending,    \* jobs accepted and not ended: pending_after_replay
    ahead,      \* pairs of pending jobs, the first accepted first
    stage       \* latest event of each pending job since it was accepted

vars == <<seen, pending, ahead, stage>>

Init ==
    /\ seen = {} /\ pending = {} /\ ahead = {}
    /\ stage = [j \in Jobs |-> "none"]

Accept(j) ==
    /\ j \notin seen /\ seen' = seen \cup {j}
    /\ pending' = pending \cup {j}
    /\ ahead' = ahead \cup (pending \X {j})
    /\ UNCHANGED stage

\* The accepted record did not survive; no other job will have its id.
Lose(j) ==
    /\ j \notin seen /\ seen' = seen \cup {j}
    /\ UNCHANGED <<pending, ahead, stage>>

Note(j, e) ==
    /\ j \in pending
    /\ stage' = [stage EXCEPT ![j] = e]
    /\ UNCHANGED <<seen, pending, ahead>>

\* An ended job never comes back: nothing but Accept adds to pending.
Close(j) ==
    /\ j \in pending /\ pending' = pending \ {j}
    /\ ahead' = {p \in ahead : j \notin {p[1], p[2]}}
    /\ stage' = [stage EXCEPT ![j] = "none"]
    /\ UNCHANGED seen

Next ==
    \E j \in Jobs :
        Accept(j) \/ Lose(j) \/ Note(j, "printing") \/ Note(j, "retry") \/ Close(j)

Spec == Init /\ [][Next]_vars
=============================================================================
