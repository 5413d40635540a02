------------------------------ MODULE JobQueue ------------------------------
(***************************************************************************)
(* The durable queue of pipeline jobs (repositories/jobs.py) and the       *)
(* workers that drain it (worker.py).                                      *)
(*                                                                         *)
(* A worker leases a batch of jobs for 120 s in one transaction and then   *)
(* runs them one after the other: the lease of the whole batch runs while  *)
(* the first job does.  Neither complete_pipeline_job nor                  *)
(* fail_pipeline_job asks whether the worker still holds the lease.        *)
(***************************************************************************)
EXTENDS Naturals, Sequences, SequencesExt, FiniteSetsExt

CONSTANTS
    Jobs,         \* job ids
    Workers,      \* worker.py processes
    BatchSize,    \* worker_batch_size
    MaxAttempts,  \* PipelineJob.max_attempts
    SlowBatches,  \* TRUE if a batch can outlive its 120 s lease
    MaxCrashes    \* bound: workers that die with their process

ASSUME JobQueueAssumption ==
    /\ BatchSize \in Nat \ {0}
    /\ MaxAttempts \in Nat \ {0}
    /\ SlowBatches \in BOOLEAN
    /\ MaxCrashes \in Nat

VARIABLES
    status,    \* the job's status, "none" before it is enqueued
    lease,     \* locked_until: "none" (NULL), "held" (future), "over" (past)
    due,       \* whether next_attempt_at has passed
    attempts,  \* the job's attempt_count
    batch,     \* the jobs each worker has leased and not finished, in order
    outcome,   \* how the run of a batch's first job ended, "none" before
    crashes    \* crashes so far

vars == <<status, lease, due, attempts, batch, outcome, crashes>>

Status == {"none", "pending", "processing", "retry", "completed",
           "dead_letter"}

Init ==
    /\ status = [j \in Jobs |-> "none"]
    /\ lease = [j \in Jobs |-> "none"]
    /\ due = [j \in Jobs |-> FALSE]
    /\ attempts = [j \in Jobs |-> 0]
    /\ batch = [w \in Workers |-> <<>>]
    /\ outcome = [w \in Workers |-> "none"]
    /\ crashes = 0

-----------------------------------------------------------------------------

\* enqueue_pipeline_job: a key that exists already is left alone.
Enqueue(j) ==
    /\ status[j] = "none"
    /\ status' = [status EXCEPT ![j] = "pending"]
    /\ due' = [due EXCEPT ![j] = TRUE]
    /\ UNCHANGED <<lease, attempts, batch, outcome, crashes>>

\* A variant of Claimable below that ignores the leases.
ClaimableUnleased(j) ==
    /\ status[j] \in {"pending", "retry", "processing"}
    /\ due[j]
    /\ attempts[j] < MaxAttempts

\* A variant of Claimable below that does not count the attempts.
ClaimableForever(j) ==
    /\ status[j] \in {"pending", "retry", "processing"}
    /\ due[j]
    /\ lease[j] # "held"

\* A variant of Claimable below that never takes a dead worker's job.
ClaimableOnce(j) ==
    /\ status[j] \in {"pending", "retry"}
    /\ due[j]
    /\ attempts[j] < MaxAttempts

Claimable(j) ==
    /\ status[j] \in {"pending", "retry", "processing"}
    /\ due[j]
    /\ lease[j] # "held"
    /\ attempts[j] < MaxAttempts

\* claim_pipeline_jobs.  SKIP LOCKED makes the rows of a concurrent claim
\* invisible, so any claimable jobs up to the limit may be the ones seen.
ClaimPipelineJobs(w) ==
    /\ batch[w] = <<>>
    /\ \E js \in SUBSET {j \in Jobs : Claimable(j)} :
          /\ js # {}
          /\ \E order \in SetToSeqs(js) :
                /\ Len(order) <= BatchSize
                /\ batch' = [batch EXCEPT ![w] = order]
          /\ status' = [j \in Jobs |-> IF j \in js THEN "processing"
                                                   ELSE status[j]]
          /\ lease' = [j \in Jobs |-> IF j \in js THEN "held" ELSE lease[j]]
          /\ attempts' = [j \in Jobs |-> IF j \in js THEN attempts[j] + 1
                                                     ELSE attempts[j]]
    /\ UNCHANGED <<due, outcome, crashes>>

\* run_pipeline or reextract_grievance begins and ends; the worker's next
\* transaction records how.
Run(w) ==
    /\ batch[w] # <<>>
    /\ outcome[w] = "none"
    /\ \E end \in {"ok", "failed"} : outcome' = [outcome EXCEPT ![w] = end]
    /\ UNCHANGED <<status, lease, due, attempts, batch, crashes>>

NextJob(w) ==
    /\ batch' = [batch EXCEPT ![w] = Tail(@)]
    /\ outcome' = [outcome EXCEPT ![w] = "none"]

CompletePipelineJob(w) ==
    LET j == Head(batch[w])
    IN  /\ batch[w] # <<>>
        /\ outcome[w] = "ok"
        /\ status' = [status EXCEPT ![j] = "completed"]
        /\ lease' = [lease EXCEPT ![j] = "none"]
        /\ NextJob(w)
        /\ UNCHANGED <<due, attempts, crashes>>

UsedUp(n) == n >= MaxAttempts

FailPipelineJob(w) ==
    LET j == Head(batch[w])
    IN  /\ batch[w] # <<>>
        /\ outcome[w] = "failed"
        /\ lease' = [lease EXCEPT ![j] = "none"]
        /\ \/ /\ UsedUp(attempts[j])
              /\ status' = [status EXCEPT ![j] = "dead_letter"]
              /\ UNCHANGED due
           \/ /\ ~UsedUp(attempts[j])
              /\ status' = [status EXCEPT ![j] = "retry"]
              /\ due' = [due EXCEPT ![j] = FALSE]
        /\ NextJob(w)
        /\ UNCHANGED <<attempts, crashes>>

\* The back-off of a retry ends.
BecomesDue(j) ==
    /\ status[j] # "none" /\ ~due[j]
    /\ due' = [due EXCEPT ![j] = TRUE]
    /\ UNCHANGED <<status, lease, attempts, batch, outcome, crashes>>

Holds(w, j) == Contains(batch[w], j)

LeaseExpires(j) ==
    /\ lease[j] = "held"
    /\ SlowBatches \/ \A w \in Workers : ~Holds(w, j)
    /\ lease' = [lease EXCEPT ![j] = "over"]
    /\ UNCHANGED <<status, due, attempts, batch, outcome, crashes>>

Crash(w) ==
    /\ batch[w] # <<>>
    /\ crashes < MaxCrashes
    /\ crashes' = crashes + 1
    /\ batch' = [batch EXCEPT ![w] = <<>>]
    /\ outcome' = [outcome EXCEPT ![w] = "none"]
    /\ UNCHANGED <<status, lease, due, attempts>>

Work(w) == Run(w) \/ CompletePipelineJob(w) \/ FailPipelineJob(w)

Next ==
    \/ \E j \in Jobs : Enqueue(j) \/ BecomesDue(j) \/ LeaseExpires(j)
    \/ \E w \in Workers : ClaimPipelineJobs(w) \/ Work(w) \/ Crash(w)

Spec == Init /\ [][Next]_vars

(***************************************************************************)
(* The loop goes on, time passes, and a claim takes the jobs that have     *)
(* been due for longest first, so every claimable job is claimed.          *)
(***************************************************************************)
Fairness ==
    /\ \A w \in Workers : WF_vars(Work(w))
    /\ \A j \in Jobs :
          /\ WF_vars(BecomesDue(j))
          /\ WF_vars(LeaseExpires(j))
          /\ SF_vars(\E w \in Workers :
                        ClaimPipelineJobs(w) /\ Contains(batch'[w], j))

FairSpec == Spec /\ Fairness

-----------------------------------------------------------------------------
(***************************************************************************)
(* Properties.                                                             *)
(***************************************************************************)

Closed == {"completed", "dead_letter"}

\* Above all, a job is claimed at most max_attempts times.
TypeOK ==
    /\ status \in [Jobs -> Status]
    /\ lease \in [Jobs -> {"none", "held", "over"}]
    /\ due \in [Jobs -> BOOLEAN]
    /\ attempts \in [Jobs -> 0..MaxAttempts]
    /\ batch \in [Workers -> Seq(Jobs)]
    /\ \A w \in Workers : Len(batch[w]) <= BatchSize
    /\ outcome \in [Workers -> {"none", "ok", "failed"}]
    /\ crashes \in 0..MaxCrashes

\* A job as a piece of leased work, and the workers that have it.
JobState ==
    [j \in Jobs |-> IF status[j] = "none" THEN "absent"
                    ELSE IF status[j] \in Closed THEN "closed" ELSE "open"]

JobHolders == [j \in Jobs |-> {w \in Workers : Holds(w, j)}]

Leased == INSTANCE LeasedWork WITH
    Items <- Jobs, Actors <- Workers,
    state <- JobState, holders <- JobHolders

\* No two workers have the same job, even when one died in between, the worker
\* that has a job closes it, and a completed or dead job stays that way
\* (claim_pipeline_jobs, and the late complete and fail that ask for no lease).
\* It needs batches that end within their lease.
LeasesExclude == Leased!Spec

\* A job that is enqueued is completed or given up (jobs.py: a dead worker's
\* job is reclaimed "instead of leaving it stuck forever"), unless the worker
\* that had it for the last time died: such a job is stuck.
EveryJobSettles ==
    \A j \in Jobs :
        status[j] # "none" ~> \/ status[j] \in Closed
                             \/ /\ status[j] = "processing"
                                /\ attempts[j] = MaxAttempts
=============================================================================
