--------------------------- MODULE PipelineProofs ---------------------------
(***************************************************************************)
(* Theorems about what a pipeline run passes on its way: JobQueue, for any *)
(* finite set of jobs, any workers, batch size and cap on attempts, and    *)
(* any number of crashes; and Throttle, for any callers, any interval and  *)
(* any number of lost slots.                                               *)
(***************************************************************************)
EXTENDS JobQueue, Throttle, FiniteSetTheorems, SequenceTheorems, TLAPS

-----------------------------------------------------------------------------
(***************************************************************************)
(* Batches are sequences without repetitions.                              *)
(***************************************************************************)

Distinct(q) == \A i, k \in 1..Len(q) : q[i] = q[k] => i = k

\* The order in which a worker takes the jobs it claimed.
LEMMA OrderIsSeq ==
    ASSUME NEW js, IsFiniteSet(js), NEW order \in SetToSeqs(js)
    PROVE  /\ order \in Seq(js)
           /\ Distinct(order)
           /\ \A j : Contains(order, j) => j \in js
<1> DEFINE n == Cardinality(js)
<1>1. n \in Nat
  BY FS_CardinalityType
<1>2. order \in [1..n -> js]
      /\ \A i, k \in 1..n : i # k => order[i] # order[k]
  BY DEF SetToSeqs
<1> HIDE DEF n
<1>3. order \in Seq(js) /\ Len(order) = n
  BY <1>1, <1>2, SeqDef, LenProperties
<1> QED  BY <1>1, <1>2, <1>3 DEF Distinct, Contains

\* What is left of a batch once its first job is done.
LEMMA TailKeeps ==
    ASSUME NEW S, NEW q \in Seq(S), q # <<>>
    PROVE  /\ Head(q) \in S /\ Contains(q, Head(q))
           /\ Tail(q) \in Seq(S) /\ Len(Tail(q)) <= Len(q)
           /\ Distinct(q) =>
                 /\ Distinct(Tail(q))
                 /\ \A j : Contains(Tail(q), j)
                              <=> Contains(q, j) /\ j # Head(q)
<1>1. /\ Len(q) \in Nat \ {0}
      /\ Head(q) = q[1] /\ Head(q) \in S
      /\ Tail(q) \in Seq(S) /\ Len(Tail(q)) = Len(q) - 1
      /\ \A i \in 1..Len(Tail(q)) : Tail(q)[i] = q[i + 1]
  BY HeadTailProperties, LenProperties, EmptySeq
<1>2. Contains(q, Head(q))
  BY <1>1 DEF Contains
<1>3. ASSUME Distinct(q)
      PROVE  /\ Distinct(Tail(q))
             /\ \A j : Contains(Tail(q), j) <=> Contains(q, j) /\ j # Head(q)
  <2>1. Distinct(Tail(q))
    BY <1>1, <1>3 DEF Distinct
  <2>2. ASSUME NEW j, Contains(Tail(q), j)
        PROVE  Contains(q, j) /\ j # Head(q)
    <3>1. PICK i \in 1..Len(Tail(q)) : Tail(q)[i] = j
      BY <2>2 DEF Contains
    <3>2. i + 1 \in 1..Len(q) /\ i + 1 # 1 /\ 1 \in 1..Len(q) /\ q[i + 1] = j
      BY <1>1, <3>1
    <3> QED  BY <1>1, <1>3, <3>2 DEF Contains, Distinct
  <2>3. ASSUME NEW j, Contains(q, j), j # Head(q)
        PROVE  Contains(Tail(q), j)
    <3>1. PICK i \in 1..Len(q) : q[i] = j
      BY <2>3 DEF Contains
    <3>2. i # 1
      BY <1>1, <2>3, <3>1
    <3>3. i - 1 \in 1..Len(Tail(q)) /\ Tail(q)[i - 1] = j
      <4>1. i - 1 \in 1..Len(Tail(q)) /\ (i - 1) + 1 = i
        BY <1>1, <3>1, <3>2
      <4> QED  BY <1>1, <3>1, <4>1
    <3> QED  BY <3>3 DEF Contains
  <2> QED  BY <2>1, <2>2, <2>3
<1> QED  BY <1>1, <1>2, <1>3

LEMMA EmptyBatch == /\ <<>> \in Seq(Jobs) /\ Len(<<>>) = 0
                    /\ Distinct(<<>>)
                    /\ \A j : ~Contains(<<>>, j)
BY EmptySeq DEF Distinct, Contains

-----------------------------------------------------------------------------
(***************************************************************************)
(* What the actions on batches do.                                         *)
(***************************************************************************)

\* Worker w has a batch and finishes its first job, or all of it.
LEMMA Finishes ==
    ASSUME TypeOK, NEW w \in Workers, batch[w] # <<>>, NextJob(w)
    PROVE  /\ batch' \in [Workers -> Seq(Jobs)]
           /\ \A x \in Workers : Len(batch'[x]) <= BatchSize
           /\ outcome' \in [Workers -> {"none", "ok", "failed"}]
           /\ batch'[w] = Tail(batch[w])
           /\ \A x \in Workers \ {w} : batch'[x] = batch[x]
<1>1. batch[w] \in Seq(Jobs)
  BY DEF TypeOK
<1>2. /\ Tail(batch[w]) \in Seq(Jobs)
      /\ Len(Tail(batch[w])) <= Len(batch[w])
  BY <1>1, TailKeeps
<1>3. Len(batch[w]) \in Nat /\ Len(Tail(batch[w])) \in Nat
  BY <1>1, <1>2, LenProperties
<1> QED
  BY <1>2, <1>3, JobQueueAssumption DEF TypeOK, NextJob

LEMMA Drops ==
    ASSUME TypeOK, NEW w \in Workers, Crash(w)
    PROVE  /\ batch' \in [Workers -> Seq(Jobs)]
           /\ \A x \in Workers : Len(batch'[x]) <= BatchSize
           /\ outcome' \in [Workers -> {"none", "ok", "failed"}]
           /\ crashes' \in 0..MaxCrashes
           /\ batch'[w] = <<>>
           /\ \A x \in Workers \ {w} : batch'[x] = batch[x]
BY JobQueueAssumption, EmptyBatch DEF TypeOK, Crash

\* Worker w claims the jobs js; those of its batch are among them.
LEMMA Claims ==
    ASSUME IsFiniteSet(Jobs), TypeOK, NEW w \in Workers, ClaimPipelineJobs(w)
    PROVE  \E js \in SUBSET Jobs, order \in Seq(Jobs) :
              /\ \A j \in js : Claimable(j)
              /\ Len(order) <= BatchSize
              /\ Distinct(order)
              /\ \A j : Contains(order, j) => j \in js
              /\ batch[w] = <<>>
              /\ batch' = [batch EXCEPT ![w] = order]
              /\ status' = [j \in Jobs |-> IF j \in js THEN "processing"
                                                       ELSE status[j]]
              /\ lease' = [j \in Jobs |-> IF j \in js THEN "held"
                                                      ELSE lease[j]]
              /\ attempts' = [j \in Jobs |-> IF j \in js THEN attempts[j] + 1
                                                         ELSE attempts[j]]
<1>1. PICK js \in SUBSET {j \in Jobs : Claimable(j)} :
         /\ \E order \in SetToSeqs(js) :
               /\ Len(order) <= BatchSize
               /\ batch' = [batch EXCEPT ![w] = order]
         /\ status' = [j \in Jobs |-> IF j \in js THEN "processing"
                                                  ELSE status[j]]
         /\ lease' = [j \in Jobs |-> IF j \in js THEN "held" ELSE lease[j]]
         /\ attempts' = [j \in Jobs |-> IF j \in js THEN attempts[j] + 1
                                                    ELSE attempts[j]]
  BY DEF ClaimPipelineJobs
<1>2. PICK order \in SetToSeqs(js) : /\ Len(order) <= BatchSize
                                     /\ batch' = [batch EXCEPT ![w] = order]
  BY <1>1
<1>3. js \in SUBSET Jobs /\ IsFiniteSet(js)
  BY FS_Subset
<1>4. /\ order \in Seq(js)
      /\ Distinct(order)
      /\ \A j : Contains(order, j) => j \in js
  BY <1>3, OrderIsSeq
<1>5. order \in Seq(Jobs)
  BY <1>3, <1>4, SeqMonotonic
<1>6. batch[w] = <<>> /\ \A j \in js : Claimable(j)
  BY DEF ClaimPipelineJobs
<1> QED  BY <1>1, <1>2, <1>3, <1>4, <1>5, <1>6

-----------------------------------------------------------------------------
(***************************************************************************)
(* Type correctness.                                                       *)
(***************************************************************************)

LEMMA TypeInit == Init => TypeOK
BY JobQueueAssumption, EmptyBatch DEF Init, TypeOK, Status

LEMMA TypeNext ==
    ASSUME IsFiniteSet(Jobs), TypeOK, [Next]_vars
    PROVE  TypeOK'
<1> USE JobQueueAssumption
<1>1. ASSUME NEW j \in Jobs, Enqueue(j) \/ BecomesDue(j) \/ LeaseExpires(j)
      PROVE  TypeOK'
  BY <1>1 DEF Enqueue, BecomesDue, LeaseExpires, TypeOK, Status
<1>2. ASSUME NEW w \in Workers, ClaimPipelineJobs(w)
      PROVE  TypeOK'
  <2>1. PICK js \in SUBSET Jobs, order \in Seq(Jobs) :
           /\ \A j \in js : Claimable(j)
           /\ Len(order) <= BatchSize
           /\ batch' = [batch EXCEPT ![w] = order]
           /\ status' = [j \in Jobs |-> IF j \in js THEN "processing"
                                                    ELSE status[j]]
           /\ lease' = [j \in Jobs |-> IF j \in js THEN "held" ELSE lease[j]]
           /\ attempts' = [j \in Jobs |-> IF j \in js THEN attempts[j] + 1
                                                      ELSE attempts[j]]
    BY <1>2, Claims
  <2>2. UNCHANGED <<due, outcome, crashes>>
    BY <1>2 DEF ClaimPipelineJobs
  <2>3. attempts' \in [Jobs -> 0..MaxAttempts]
    BY <2>1 DEF TypeOK, Claimable
  <2>4. batch' \in [Workers -> Seq(Jobs)]
        /\ \A x \in Workers : Len(batch'[x]) <= BatchSize
    BY <2>1 DEF TypeOK
  <2> QED  BY <2>1, <2>2, <2>3, <2>4 DEF TypeOK, Status
<1>3. ASSUME NEW w \in Workers, Run(w) PROVE TypeOK'
  BY <1>3 DEF Run, TypeOK
<1>4. ASSUME NEW w \in Workers, CompletePipelineJob(w) \/ FailPipelineJob(w)
      PROVE  TypeOK'
  <2>1. batch[w] # <<>> /\ NextJob(w)
    BY <1>4 DEF CompletePipelineJob, FailPipelineJob
  <2>2. Head(batch[w]) \in Jobs
    BY <2>1, TailKeeps DEF TypeOK
  <2>3. /\ status' \in [Jobs -> Status]
        /\ lease' \in [Jobs -> {"none", "held", "over"}]
        /\ due' \in [Jobs -> BOOLEAN]
        /\ UNCHANGED <<attempts, crashes>>
    BY <1>4, <2>2 DEF CompletePipelineJob, FailPipelineJob, TypeOK, Status
  <2> QED  BY <2>1, <2>3, Finishes DEF TypeOK
<1>5. ASSUME NEW w \in Workers, Crash(w) PROVE TypeOK'
  <2>1. UNCHANGED <<status, lease, due, attempts>>
    BY <1>5 DEF Crash
  <2> QED  BY <1>5, <2>1, Drops DEF TypeOK
<1>6. CASE UNCHANGED vars
  BY <1>6 DEF vars, TypeOK
<1> QED  BY <1>1, <1>2, <1>3, <1>4, <1>5, <1>6 DEF Next, Work

\* Every variable keeps its type; above all, no job is claimed more than
\* max_attempts times, however workers, leases and crashes interleave.
THEOREM TypeCorrect == ASSUME IsFiniteSet(Jobs) PROVE Spec => []TypeOK
<1>1. TypeOK /\ [Next]_vars => TypeOK'
  BY TypeNext
<1> QED  BY <1>1, TypeInit, PTL DEF Spec

-----------------------------------------------------------------------------
(***************************************************************************)
(* Leases.  As long as a batch ends within its lease, a job somebody has   *)
(* is "processing" under a lease that has not run out, so that nobody else *)
(* can claim it.                                                           *)
(***************************************************************************)

LInv ==
    /\ TypeOK
    /\ \A w \in Workers : Distinct(batch[w])
    /\ \A w \in Workers, j \in Jobs :
          Holds(w, j) => status[j] = "processing" /\ lease[j] = "held"
    /\ \A w, x \in Workers, j \in Jobs : Holds(w, j) /\ Holds(x, j) => w = x

LEMMA LInvInit == Init => LInv
<1> SUFFICES ASSUME Init PROVE LInv
  OBVIOUS
<1>1. \A w \in Workers : batch[w] = <<>>
  BY DEF Init
<1>2. \A w \in Workers : Distinct(batch[w]) /\ \A j \in Jobs : ~Holds(w, j)
  BY <1>1, EmptyBatch DEF Holds
<1> QED  BY <1>2, TypeInit DEF LInv

\* Workers whose batch a step leaves alone have the jobs they had.
LEMMA HoldsSame ==
    ASSUME NEW w, batch'[w] = batch[w]
    PROVE  \A j \in Jobs : Holds(w, j)' <=> Holds(w, j)
BY DEF Holds, Contains

\* What a step that only takes jobs away from workers keeps.
LEMMA LInvKept ==
    ASSUME LInv, TypeOK',
           \A w \in Workers : Distinct(batch[w])',
           \A w \in Workers, j \in Jobs :
              Holds(w, j)' =>
                 Holds(w, j) /\ status'[j] = status[j] /\ lease'[j] = lease[j]
    PROVE  LInv'
BY DEF LInv

\* Nobody has a job that can be claimed.
LEMMA ClaimableIsFree ==
    ASSUME LInv, NEW j \in Jobs, Claimable(j)
    PROVE  /\ \A w \in Workers : ~Holds(w, j)
           /\ JobHolders[j] = {}
           /\ JobState[j] = "open"
<1>1. \A w \in Workers : ~Holds(w, j)
  BY DEF LInv, Claimable
<1>2. JobHolders[j] = {}
  BY <1>1 DEF JobHolders
<1>3. JobState[j] = "open"
  BY DEF JobState, Claimable, Closed
<1> QED  BY <1>1, <1>2, <1>3

\* A job that worker w has is open, and w's alone.
LEMMA HeldIsMine ==
    ASSUME LInv, NEW w \in Workers, NEW j \in Jobs, Holds(w, j)
    PROVE  JobHolders[j] = {w} /\ JobState[j] = "open"
<1>1. JobHolders[j] = {w}
  BY DEF JobHolders, LInv
<1>2. JobState[j] = "open"
  BY DEF JobState, LInv, Closed
<1> QED  BY <1>1, <1>2

\* When the jobs of some are taken from worker w, and nothing else, they are
\* nobody's.
LEMMA Released ==
    ASSUME LInv, NEW w \in Workers, NEW some \in SUBSET Jobs,
           \A j \in some : Holds(w, j),
           \A x \in Workers \ {w} : batch'[x] = batch[x],
           \A j \in Jobs : Holds(w, j)' <=> Holds(w, j) /\ j \notin some
    PROVE  /\ \A x \in Workers, j \in Jobs :
                 Holds(x, j)' <=> Holds(x, j) /\ j \notin some
           /\ JobHolders' = [j \in Jobs |->
                                IF j \in some THEN {} ELSE JobHolders[j]]
<1>1. ASSUME NEW x \in Workers, NEW j \in Jobs
      PROVE  Holds(x, j)' <=> Holds(x, j) /\ j \notin some
  <2>1. CASE x = w
    BY <2>1
  <2>2. CASE x # w
    <3>1. Holds(x, j)' <=> Holds(x, j)
      BY <2>2, HoldsSame
    <3>2. j \in some => ~Holds(x, j)
      BY <2>2 DEF LInv
    <3> QED  BY <3>1, <3>2
  <2> QED  BY <2>1, <2>2
<1>2. ASSUME NEW j \in Jobs
      PROVE  {x \in Workers : Holds(x, j)'}
             = IF j \in some THEN {} ELSE {x \in Workers : Holds(x, j)}
  BY <1>1
<1>3. /\ JobHolders' = [j \in Jobs |-> {x \in Workers : Holds(x, j)'}]
      /\ JobHolders = [j \in Jobs |-> {x \in Workers : Holds(x, j)}]
  BY DEF JobHolders
<1> QED  BY <1>1, <1>2, <1>3

\* The actions of LeasedWork, on the jobs.
LEMMA LeasedActions ==
    /\ \A j \in Jobs :
          Leased!Add(j) <=> /\ JobState[j] = "absent"
                            /\ JobState' = [JobState EXCEPT ![j] = "open"]
                            /\ JobHolders' = JobHolders
    /\ \A w \in Workers, new \in SUBSET Jobs :
          Leased!Take(w, new) <=>
             /\ \A j \in new : JobState[j] = "open" /\ JobHolders[j] = {}
             /\ JobHolders' = [j \in Jobs |->
                                  IF j \in new THEN {w} ELSE JobHolders[j]]
             /\ JobState' = JobState
    /\ \A w \in Workers, some \in SUBSET Jobs :
          Leased!Release(w, some) <=>
             /\ \A j \in some : JobHolders[j] = {w}
             /\ JobHolders' = [j \in Jobs |->
                                  IF j \in some THEN {} ELSE JobHolders[j]]
             /\ JobState' = JobState
    /\ \A w \in Workers, j \in Jobs :
          Leased!Close(w, j) <=>
             /\ JobState[j] = "open"
             /\ JobHolders[j] \subseteq {w}
             /\ JobState' = [JobState EXCEPT ![j] = "closed"]
             /\ JobHolders' = [JobHolders EXCEPT ![j] = {}]
    /\ Leased!Next <=>
          \/ \E j \in Jobs : Leased!Add(j)
          \/ \E w \in Workers, is \in SUBSET Jobs :
                Leased!Take(w, is) \/ Leased!Release(w, is)
          \/ \E w \in Workers, j \in Jobs : Leased!Close(w, j)
<1>1. \A j \in Jobs :
          Leased!Add(j) <=> /\ JobState[j] = "absent"
                            /\ JobState' = [JobState EXCEPT ![j] = "open"]
                            /\ JobHolders' = JobHolders
  BY DEF Leased!Add
<1>2. \A w \in Workers, new \in SUBSET Jobs :
          Leased!Take(w, new) <=>
             /\ \A j \in new : JobState[j] = "open" /\ JobHolders[j] = {}
             /\ JobHolders' = [j \in Jobs |->
                                  IF j \in new THEN {w} ELSE JobHolders[j]]
             /\ JobState' = JobState
  BY DEF Leased!Take
<1>3. \A w \in Workers, some \in SUBSET Jobs :
          Leased!Release(w, some) <=>
             /\ \A j \in some : JobHolders[j] = {w}
             /\ JobHolders' = [j \in Jobs |->
                                  IF j \in some THEN {} ELSE JobHolders[j]]
             /\ JobState' = JobState
  BY DEF Leased!Release
<1>4. \A w \in Workers, j \in Jobs :
          Leased!Close(w, j) <=>
             /\ JobState[j] = "open"
             /\ JobHolders[j] \subseteq {w}
             /\ JobState' = [JobState EXCEPT ![j] = "closed"]
             /\ JobHolders' = [JobHolders EXCEPT ![j] = {}]
  BY DEF Leased!Close
<1>5. Leased!Next <=>
          \/ \E j \in Jobs : Leased!Add(j)
          \/ \E w \in Workers, is \in SUBSET Jobs :
                Leased!Take(w, is) \/ Leased!Release(w, is)
          \/ \E w \in Workers, j \in Jobs : Leased!Close(w, j)
  BY DEF Leased!Next
<1> QED  BY <1>1, <1>2, <1>3, <1>4, <1>5

\* Every step keeps the leases and is a step of LeasedWork.
LEMMA LInvNext ==
    ASSUME IsFiniteSet(Jobs), ~SlowBatches, LInv, [Next]_vars
    PROVE  LInv' /\ [Leased!Next]_<<JobState, JobHolders>>
<1> DEFINE Goal == LInv' /\ [Leased!Next]_<<JobState, JobHolders>>
<1>i. TypeOK /\ TypeOK'
  BY TypeNext DEF LInv
<1>t. /\ status \in [Jobs -> Status]
      /\ lease \in [Jobs -> {"none", "held", "over"}]
      /\ batch \in [Workers -> Seq(Jobs)]
  BY <1>i DEF TypeOK
\* Steps that leave the batches alone.
<1>b. ASSUME batch' = batch
      PROVE  /\ JobHolders' = JobHolders
             /\ \A w \in Workers : Distinct(batch[w])'
             /\ \A w \in Workers, j \in Jobs : Holds(w, j)' <=> Holds(w, j)
  <2>1. \A w \in Workers, j \in Jobs : Holds(w, j)' <=> Holds(w, j)
    BY <1>b DEF Holds, Contains
  <2>2. \A w \in Workers : Distinct(batch[w])'
    BY <1>b DEF LInv, Distinct
  <2>3. JobHolders' = JobHolders
    BY <1>b DEF JobHolders, Holds, Contains
  <2> QED  BY <2>1, <2>2, <2>3
<1>1. ASSUME NEW j \in Jobs, Enqueue(j) PROVE Goal
  <2>1. /\ status[j] = "none" /\ status' = [status EXCEPT ![j] = "pending"]
        /\ lease' = lease /\ batch' = batch
    BY <1>1 DEF Enqueue
  <2>2. \A w \in Workers : ~Holds(w, j)
    BY <2>1 DEF LInv
  <2>3. LInv'
    BY <1>i, <1>t, <1>b, <2>1, <2>2, LInvKept
  <2>4. JobState[j] = "absent" /\ JobState' = [JobState EXCEPT ![j] = "open"]
    BY <1>t, <2>1 DEF JobState, Closed
  <2>5. Leased!Add(j)
    BY <1>b, <2>1, <2>4, LeasedActions
  <2> QED  BY <2>3, <2>5, LeasedActions
<1>2. ASSUME NEW w \in Workers, ClaimPipelineJobs(w) PROVE Goal
  <2>1. PICK js \in SUBSET Jobs, order \in Seq(Jobs) :
           /\ \A j \in js : Claimable(j)
           /\ Distinct(order)
           /\ \A j : Contains(order, j) => j \in js
           /\ batch[w] = <<>>
           /\ batch' = [batch EXCEPT ![w] = order]
           /\ status' = [j \in Jobs |-> IF j \in js THEN "processing"
                                                    ELSE status[j]]
           /\ lease' = [j \in Jobs |-> IF j \in js THEN "held" ELSE lease[j]]
    BY <1>i, <1>2, Claims
  <2> DEFINE new == {j \in js : Contains(order, j)}
  <2>2. \A j \in js : /\ \A x \in Workers : ~Holds(x, j)
                      /\ JobHolders[j] = {}
                      /\ JobState[j] = "open"
    BY <2>1, ClaimableIsFree
  <2>3. batch'[w] = order /\ \A x \in Workers \ {w} : batch'[x] = batch[x]
    BY <1>t, <2>1
  <2>4. \A j \in Jobs : ~Holds(w, j) /\ (Holds(w, j)' <=> j \in new)
    <3>1. \A j \in Jobs : ~Holds(w, j)
      BY <2>1, EmptyBatch DEF Holds
    <3>2. \A j \in Jobs : Holds(w, j)' <=> Contains(order, j)
      BY <2>3 DEF Holds, Contains
    <3> QED  BY <2>1, <3>1, <3>2
  <2>5. ASSUME NEW x \in Workers, NEW j \in Jobs
        PROVE  Holds(x, j)' <=> IF j \in new THEN x = w ELSE Holds(x, j)
    <3>1. CASE x = w
      BY <2>4, <3>1
    <3>2. CASE x # w
      <4>1. Holds(x, j)' <=> Holds(x, j)
        BY <2>3, <3>2, HoldsSame
      <4> QED  BY <2>2, <3>2, <4>1
    <3> QED  BY <3>1, <3>2
  <2>6. \A x \in Workers : Distinct(batch[x])'
    <3>1. ASSUME NEW x \in Workers PROVE Distinct(batch[x])'
      <4>1. CASE x = w
        BY <2>1, <2>3, <4>1 DEF Distinct
      <4>2. CASE x # w
        BY <2>3, <4>2 DEF Distinct, LInv
      <4> QED  BY <4>1, <4>2
    <3> QED  BY <3>1
  <2>7. \A j \in js : status'[j] = "processing" /\ lease'[j] = "held"
    BY <2>1
  <2>8. \A j \in Jobs \ js : status'[j] = status[j] /\ lease'[j] = lease[j]
    BY <2>1
  <2>9. LInv'
    <3>1. \A x \in Workers, j \in Jobs :
             Holds(x, j)' => status'[j] = "processing" /\ lease'[j] = "held"
      BY <2>2, <2>5, <2>7, <2>8 DEF LInv
    <3>2. \A x, y \in Workers, j \in Jobs : Holds(x, j)' /\ Holds(y, j)' => x = y
      BY <2>5 DEF LInv
    <3> QED  BY <1>i, <2>6, <3>1, <3>2 DEF LInv
  <2>10. JobState' = JobState
    <3>1. \A j \in js : status[j] \notin {"none"} \cup Closed
      BY <2>1 DEF Claimable, Closed
    <3> QED  BY <1>t, <2>1, <3>1 DEF JobState, Closed
  <2>11. JobHolders' = [j \in Jobs |-> IF j \in new THEN {w} ELSE JobHolders[j]]
    <3>1. \A j \in Jobs : {x \in Workers : Holds(x, j)'}
             = IF j \in new THEN {w} ELSE {x \in Workers : Holds(x, j)}
      BY <2>5
    <3>2. /\ JobHolders' = [j \in Jobs |-> {x \in Workers : Holds(x, j)'}]
          /\ JobHolders = [j \in Jobs |-> {x \in Workers : Holds(x, j)}]
      BY DEF JobHolders
    <3> HIDE DEF new
    <3> QED  BY <3>1, <3>2
  <2>12. new \in SUBSET Jobs /\ \A j \in new : j \in js
    OBVIOUS
  <2>13. Leased!Take(w, new)
    <3> HIDE DEF new
    <3> QED  BY <2>2, <2>10, <2>11, <2>12, LeasedActions
  <2> HIDE DEF new
  <2> QED  BY <2>9, <2>12, <2>13, LeasedActions
<1>3. ASSUME NEW w \in Workers, CompletePipelineJob(w) \/ FailPipelineJob(w)
      PROVE  Goal
  <2>1. PICK j \in Jobs : j = Head(batch[w])
    BY <1>3, <1>t, TailKeeps DEF CompletePipelineJob, FailPipelineJob
  <2>2. /\ batch[w] # <<>> /\ NextJob(w)
        /\ lease' = [lease EXCEPT ![j] = "none"]
        /\ \E new \in {"completed", "dead_letter", "retry"} :
              status' = [status EXCEPT ![j] = new]
    BY <1>3, <2>1 DEF CompletePipelineJob, FailPipelineJob
  <2>3. /\ batch'[w] = Tail(batch[w])
        /\ \A x \in Workers \ {w} : batch'[x] = batch[x]
    BY <1>i, <2>2, Finishes
  <2>4. /\ Contains(batch[w], j)
        /\ Distinct(Tail(batch[w]))
        /\ \A k : Contains(Tail(batch[w]), k) <=> Contains(batch[w], k) /\ k # j
    BY <1>t, <2>1, <2>2, TailKeeps DEF LInv
  <2>5. /\ Holds(w, j)
        /\ \A k \in Jobs : Holds(w, k)' <=> Holds(w, k) /\ k \notin {j}
    BY <2>3, <2>4 DEF Holds, Contains
  <2>6. /\ \A x \in Workers, k \in Jobs :
              Holds(x, k)' <=> Holds(x, k) /\ k \notin {j}
        /\ JobHolders' = [k \in Jobs |->
                             IF k \in {j} THEN {} ELSE JobHolders[k]]
    <3> DEFINE some == {j}
    <3>1. some \in SUBSET Jobs /\ \A k \in some : Holds(w, k)
      BY <2>5
    <3>2. \A k \in Jobs : Holds(w, k)' <=> Holds(w, k) /\ k \notin some
      BY <2>5
    <3> HIDE DEF some
    <3>3. /\ \A x \in Workers, k \in Jobs :
                Holds(x, k)' <=> Holds(x, k) /\ k \notin some
          /\ JobHolders' = [k \in Jobs |->
                               IF k \in some THEN {} ELSE JobHolders[k]]
      BY <2>3, <3>1, <3>2, Released
    <3> QED  BY <3>3 DEF some
  <2>7. \A x \in Workers : Distinct(batch[x])'
    <3>1. ASSUME NEW x \in Workers PROVE Distinct(batch[x])'
      <4>1. CASE x = w
        BY <2>3, <2>4, <4>1 DEF Distinct
      <4>2. CASE x # w
        BY <2>3, <4>2 DEF Distinct, LInv
      <4> QED  BY <4>1, <4>2
    <3> QED  BY <3>1
  <2>8. LInv'
    BY <1>i, <1>t, <2>2, <2>6, <2>7, LInvKept
  <2>9. JobHolders[j] = {w} /\ JobState[j] = "open"
    BY <2>5, HeldIsMine
  <2>10. CASE status' = [status EXCEPT ![j] = "retry"]
    <3>1. JobState' = JobState
      BY <1>t, <2>9, <2>10 DEF JobState, Closed
    <3>2. Leased!Release(w, {j})
      BY <2>6, <2>9, <3>1, LeasedActions
    <3> QED  BY <2>8, <3>2, LeasedActions
  <2>11. CASE \E new \in Closed : status' = [status EXCEPT ![j] = new]
    <3>1. JobState' = [JobState EXCEPT ![j] = "closed"]
      BY <1>t, <2>11 DEF JobState, Closed
    <3>2. JobHolders' = [JobHolders EXCEPT ![j] = {}]
      BY <2>6 DEF JobHolders
    <3>3. Leased!Close(w, j)
      BY <2>9, <3>1, <3>2, LeasedActions
    <3> QED  BY <2>8, <3>3, LeasedActions
  <2> QED  BY <2>2, <2>10, <2>11 DEF Closed
<1>4. ASSUME NEW w \in Workers, Crash(w) PROVE Goal
  <2> DEFINE some == {j \in Jobs : Holds(w, j)}
  <2>1. /\ batch'[w] = <<>>
        /\ \A x \in Workers \ {w} : batch'[x] = batch[x]
    BY <1>i, <1>4, Drops
  <2>2. status' = status /\ lease' = lease
    BY <1>4 DEF Crash
  <2>3. \A j \in Jobs : ~Holds(w, j)'
    BY <2>1, EmptyBatch DEF Holds, Contains
  <2>4. \A j \in Jobs : Holds(w, j)' <=> Holds(w, j) /\ j \notin some
    BY <2>3
  <2>5. some \in SUBSET Jobs /\ \A j \in some : Holds(w, j)
    OBVIOUS
  <2> HIDE DEF some
  <2>6. /\ \A x \in Workers, j \in Jobs :
              Holds(x, j)' <=> Holds(x, j) /\ j \notin some
        /\ JobHolders' = [j \in Jobs |->
                             IF j \in some THEN {} ELSE JobHolders[j]]
    BY <2>1, <2>4, <2>5, Released
  <2>7. \A x \in Workers : Distinct(batch[x])'
    <3>1. ASSUME NEW x \in Workers PROVE Distinct(batch[x])'
      <4>1. CASE x = w
        BY <2>1, <4>1, EmptyBatch DEF Distinct
      <4>2. CASE x # w
        BY <2>1, <4>2 DEF Distinct, LInv
      <4> QED  BY <4>1, <4>2
    <3> QED  BY <3>1
  <2>8. LInv'
    BY <1>i, <2>2, <2>6, <2>7, LInvKept
  <2>9. \A j \in some : JobHolders[j] = {w}
    BY <2>5, HeldIsMine
  <2>10. JobState' = JobState
    BY <2>2 DEF JobState
  <2>11. Leased!Release(w, some)
    BY <2>5, <2>6, <2>9, <2>10, LeasedActions
  <2> QED  BY <2>5, <2>8, <2>11, LeasedActions
<1>5. ASSUME NEW j \in Jobs, LeaseExpires(j) PROVE Goal
  <2>1. /\ \A w \in Workers : ~Holds(w, j)
        /\ status' = status /\ batch' = batch
        /\ lease' = [lease EXCEPT ![j] = "over"]
    BY <1>5, ~SlowBatches DEF LeaseExpires
  <2>2. LInv'
    BY <1>i, <1>t, <1>b, <2>1, LInvKept
  <2>3. JobState' = JobState
    BY <2>1 DEF JobState
  <2> QED  BY <1>b, <2>1, <2>2, <2>3
<1>6. CASE \/ \E j \in Jobs : BecomesDue(j)
           \/ \E w \in Workers : Run(w)
           \/ UNCHANGED vars
  <2>1. status' = status /\ lease' = lease /\ batch' = batch
    BY <1>6 DEF BecomesDue, Run, vars
  <2>2. LInv'
    BY <1>i, <1>b, <2>1, LInvKept
  <2>3. JobState' = JobState
    BY <2>1 DEF JobState
  <2> QED  BY <1>b, <2>1, <2>2, <2>3
<1> QED  BY <1>1, <1>2, <1>3, <1>4, <1>5, <1>6 DEF Next, Work

LEMMA LeasedInit == Init => Leased!Init
<1> SUFFICES ASSUME Init PROVE Leased!Init
  OBVIOUS
<1>1. JobState = [j \in Jobs |-> "absent"]
  BY DEF Init, JobState
<1>2. \A w \in Workers, j \in Jobs : ~Holds(w, j)
  BY EmptyBatch DEF Init, Holds
<1>3. JobHolders = [j \in Jobs |-> {}]
  BY <1>2 DEF JobHolders
<1> QED  BY <1>1, <1>3 DEF Leased!Init

\* As long as batches end within their lease, the queue implements the leased
\* work of LeasedWork: one worker at a time has a job, and a job that was
\* completed or given up stays so, for any workers, batches and crashes.
THEOREM LeasesKept ==
    ASSUME IsFiniteSet(Jobs), ~SlowBatches
    PROVE  Spec => LeasesExclude
<1>1. LInv /\ [Next]_vars => LInv' /\ [Leased!Next]_<<JobState, JobHolders>>
  BY LInvNext
<1>2. LInv /\ [Next]_vars => LInv' /\ [Leased!Next]_(Leased!vars)
  BY <1>1 DEF Leased!vars
<1> QED
  BY <1>2, LInvInit, LeasedInit, PTL DEF Spec, LeasesExclude, Leased!Spec

-----------------------------------------------------------------------------
(***************************************************************************)
(* Throttle: the slots.                                                    *)
(***************************************************************************)

\* The slots given out all lie an interval before the one to be given next.
SlotsBehind == \A c \in Callers : Reserved(c) => slot[c] + Interval <= nextAllowed

ThrottleInv == ThrottleTypeOK /\ SlotsBehind /\ SlotsSpaced

\* The next slot is no earlier than the one promised (max of now and
\* next_allowed_at in reserve_slot).
LEMMA NextSlotIsFree ==
    ASSUME ThrottleTypeOK
    PROVE  NextSlot \in Nat /\ nextAllowed <= NextSlot
  BY DEF ThrottleTypeOK, NextSlot

\* No slot has been given out at first.
LEMMA SlotsInit == ThrottleInit => ThrottleInv
  BY DEF ThrottleInit, ThrottleInv, ThrottleTypeOK, SlotsBehind, SlotsSpaced, Reserved

\* A reservation puts its slot behind the promised one, so an interval behind
\* every other; the other steps give no slot out.
LEMMA SlotsStep == ThrottleInv /\ [ThrottleNext]_throttleVars => ThrottleInv'
<1> SUFFICES ASSUME ThrottleInv, [ThrottleNext]_throttleVars
             PROVE  ThrottleInv'
  OBVIOUS
<1> USE ThrottleAssumption DEF ThrottleInv
<1>1. CASE Tick
  BY <1>1 DEF Tick, ThrottleTypeOK, SlotsBehind, SlotsSpaced, Reserved, Spaced
<1>2. ASSUME NEW c \in Callers, ReserveSlot(c)
      PROVE  ThrottleInv'
  <2>1. /\ NextSlot \in Nat
        /\ nextAllowed <= NextSlot
    BY NextSlotIsFree
  <2>2. ThrottleTypeOK'
    BY <1>2, <2>1 DEF ReserveSlot, ThrottleTypeOK
  <2>3. slot'[c] = NextSlot /\ nextAllowed' = NextSlot + Interval
    BY <1>2 DEF ReserveSlot, ThrottleTypeOK
  <2>4. \A d \in Callers \ {c} :
           slot'[d] = slot[d] /\ (Reserved(d)' <=> Reserved(d))
    BY <1>2 DEF ReserveSlot, ThrottleTypeOK, Reserved
  <2>5. SlotsBehind'
    <3> SUFFICES ASSUME NEW d \in Callers, Reserved(d)'
                 PROVE  slot'[d] + Interval <= nextAllowed'
      BY DEF SlotsBehind
    <3>1. CASE d = c
      BY <2>1, <2>3, <3>1
    <3>2. CASE d # c
      BY <2>1, <2>3, <2>4, <3>2 DEF SlotsBehind, ThrottleTypeOK
    <3> QED  BY <3>1, <3>2
  <2>6. \A d \in Callers \ {c} : Reserved(d) => slot[d] + Interval <= NextSlot
    BY <2>1 DEF SlotsBehind, ThrottleTypeOK
  <2>7. SlotsSpaced'
    <3> SUFFICES ASSUME NEW a \in Callers, NEW b \in Callers, a # b,
                        Reserved(a)', Reserved(b)'
                 PROVE  Spaced(a, b)'
      BY DEF SlotsSpaced
    <3>1. CASE a # c /\ b # c
      BY <2>4, <3>1 DEF SlotsSpaced, Spaced
    <3>2. CASE a = c
      BY <2>3, <2>4, <2>6, <3>2 DEF Spaced
    <3>3. CASE b = c
      BY <2>3, <2>4, <2>6, <3>3 DEF Spaced
    <3> QED  BY <3>1, <3>2, <3>3
  <2> QED  BY <2>2, <2>5, <2>7
<1>3. ASSUME NEW c \in Callers, CallProvider(c) \/ LoseSlot(c)
      PROVE  ThrottleInv'
  <2>1. /\ slot' = slot /\ nextAllowed' = nextAllowed
        /\ \A d \in Callers : Reserved(d)' <=> Reserved(d)
    BY <1>3 DEF CallProvider, LoseSlot, ThrottleTypeOK, Reserved
  <2>2. ThrottleTypeOK'
    BY <1>3 DEF CallProvider, LoseSlot, ThrottleTypeOK
  <2>3. SlotsBehind' /\ SlotsSpaced'
    BY <2>1 DEF SlotsBehind, SlotsSpaced, Spaced
  <2> QED  BY <2>2, <2>3
<1>4. CASE UNCHANGED throttleVars
  BY <1>4 DEF throttleVars, ThrottleTypeOK, SlotsBehind, SlotsSpaced, Reserved, Spaced
<1> QED  BY <1>1, <1>2, <1>3, <1>4 DEF ThrottleNext

\* Slots of different callers are an interval apart (reserve_slot, under the
\* provider's row lock).
THEOREM SlotsAreSpaced == ThrottleSpec => []SlotsSpaced
<1>1. ThrottleInit => ThrottleInv
  BY SlotsInit
<1>2. ThrottleInv /\ [ThrottleNext]_throttleVars => ThrottleInv'
  BY SlotsStep
<1>3. ThrottleInv => SlotsSpaced
  BY DEF ThrottleInv
<1> QED  BY <1>1, <1>2, <1>3, PTL DEF ThrottleSpec

-----------------------------------------------------------------------------
(***************************************************************************)
(* The backlog.  A call ends its caller's wait, but the slots behind its   *)
(* own stay taken: how far off the next free slot is has to be counted     *)
(* from every caller that waits, by those that wait behind it.             *)
(***************************************************************************)

\* Those that wait for a later slot than c.
Later(c) == {d \in Waiting : slot[d] > slot[c]}

\* The earliest moment at which c may call.
Due(c) == IF slot[c] > now THEN slot[c] ELSE now

BacklogInv ==
    /\ ThrottleInv
    /\ BacklogBounded
    /\ \A c \in Waiting :
          nextAllowed <= Due(c) + Interval * (Cardinality(Later(c)) + lostSlots + 1)

\* Intervals add up.
LEMMA IntervalSum ==
    ASSUME NEW m \in Nat, NEW n \in Nat
    PROVE  /\ Interval * m \in Nat
           /\ m <= n => Interval * m <= Interval * n
           /\ Interval * (m + 1) = Interval * m + Interval
  BY ThrottleAssumption

\* The sets that are counted are finite.
LEMMA Counted ==
    ASSUME IsFiniteSet(Callers)
    PROVE  /\ IsFiniteSet(Waiting) /\ Cardinality(Waiting) \in Nat
           /\ \A c : /\ IsFiniteSet(Later(c))
                     /\ Cardinality(Later(c)) \in Nat
<1>1. \A S \in SUBSET Callers : IsFiniteSet(S) /\ Cardinality(S) \in Nat
  BY FS_Subset, FS_CardinalityType
<1>2. Waiting \subseteq Callers /\ \A c : Later(c) \subseteq Callers
  BY DEF Waiting, Later
<1> QED  BY <1>1, <1>2

\* Of two sets of callers, the one with a member more counts more.
LEMMA OneMore ==
    ASSUME IsFiniteSet(Callers), NEW S \in SUBSET Callers,
           NEW T \in SUBSET Callers
    PROVE  /\ S \subseteq T => Cardinality(S) <= Cardinality(T)
           /\ \A c \in T : S \subseteq T \ {c} =>
                 Cardinality(S) + 1 <= Cardinality(T)
<1>1. IsFiniteSet(S) /\ IsFiniteSet(T)
  BY FS_Subset
<1>2. Cardinality(S) \in Nat /\ Cardinality(T) \in Nat
  BY <1>1, FS_CardinalityType
<1>3. S \subseteq T => Cardinality(S) <= Cardinality(T)
  BY <1>1, FS_Subset
<1>4. ASSUME NEW c \in T, S \subseteq T \ {c}
      PROVE  Cardinality(S) + 1 <= Cardinality(T)
  <2>1. /\ IsFiniteSet(T \ {c})
        /\ Cardinality(T \ {c}) = Cardinality(T) - 1
    BY <1>1, FS_RemoveElement
  <2>2. Cardinality(S) <= Cardinality(T \ {c})
    BY <1>4, <2>1, FS_Subset
  <2> QED  BY <1>2, <2>1, <2>2
<1> QED  BY <1>3, <1>4

LEMMA BacklogInit == ThrottleInit => BacklogInv
<1> SUFFICES ASSUME ThrottleInit PROVE BacklogInv
  OBVIOUS
<1>1. Waiting = {} /\ nextAllowed = 0 /\ now = 0 /\ lostSlots = 0
  BY DEF ThrottleInit, Waiting
<1>2. Interval * (0 + 0 + 1) \in Nat
  BY ThrottleAssumption
<1>3. BacklogBounded
  BY <1>1, <1>2, FS_EmptySet DEF BacklogBounded
<1> QED  BY <1>1, <1>3, SlotsInit DEF BacklogInv

\* A reservation puts the next slot an interval on, and its caller behind all
\* others.
LEMMA ReserveBacklog ==
    ASSUME IsFiniteSet(Callers), BacklogInv, ThrottleInv',
           NEW e \in Callers, ReserveSlot(e)
    PROVE  BacklogInv'
<1>1. /\ now \in Nat /\ nextAllowed \in Nat /\ lostSlots \in Nat
      /\ phase \in [Callers -> {"new", "waiting", "called"}]
      /\ slot \in [Callers -> Nat]
      /\ Interval \in Nat
  BY ThrottleAssumption DEF BacklogInv, ThrottleInv, ThrottleTypeOK
<1>2. /\ now' = now /\ lostSlots' = lostSlots
      /\ phase[e] # "waiting"
      /\ phase' = [phase EXCEPT ![e] = "waiting"]
      /\ slot' = [slot EXCEPT ![e] = NextSlot]
      /\ nextAllowed' = NextSlot + Interval
  BY DEF ReserveSlot
<1>3. /\ NextSlot \in Nat /\ nextAllowed <= NextSlot /\ now <= NextSlot
      /\ NextSlot = now \/ NextSlot = nextAllowed
  BY <1>1 DEF NextSlot
<1>4. /\ Cardinality(Waiting) \in Nat /\ Cardinality(Waiting)' \in Nat
      /\ \A c \in Callers : /\ Cardinality(Later(c)) \in Nat
                            /\ Cardinality(Later(c))' \in Nat
  <2>1. /\ Waiting \in SUBSET Callers /\ Waiting' \in SUBSET Callers
        /\ \A c \in Callers : /\ Later(c) \in SUBSET Callers
                              /\ Later(c)' \in SUBSET Callers
    BY DEF Waiting, Later
  <2>2. \A S \in SUBSET Callers : Cardinality(S) \in Nat
    BY FS_Subset, FS_CardinalityType
  <2> QED  BY <2>1, <2>2
<1>5. BacklogBounded'
  <2>1. e \in Waiting' /\ Waiting \subseteq Waiting' \ {e}
    BY <1>1, <1>2 DEF Waiting
  <2>2. Cardinality(Waiting) + 1 <= Cardinality(Waiting')
    BY <2>1, OneMore DEF Waiting
  <2> DEFINE m == Cardinality(Waiting) + lostSlots + 1
             n == Cardinality(Waiting') + lostSlots + 1
  <2>3. m \in Nat /\ n \in Nat /\ m + 1 <= n
    BY <1>1, <1>4, <2>2
  <2>4. nextAllowed <= now + Interval * m
    BY DEF BacklogInv, BacklogBounded
  <2> HIDE DEF m, n
  <2>5. /\ Interval * m \in Nat /\ Interval * n \in Nat
        /\ Interval * m + Interval <= Interval * n
    <3>1. Interval * (m + 1) <= Interval * n
      BY <2>3, IntervalSum
    <3>2. Interval * (m + 1) = Interval * m + Interval
      BY <2>3, IntervalSum
    <3> QED  BY <2>3, <3>1, <3>2, IntervalSum
  <2>6. nextAllowed' <= now + Interval * n
    BY <1>1, <1>2, <1>3, <2>4, <2>5
  <2> QED  BY <1>2, <2>6 DEF BacklogBounded, n
<1>6. ASSUME NEW c \in Waiting'
      PROVE  nextAllowed' <= Due(c)' + Interval * (Cardinality(Later(c)') + lostSlots' + 1)
  <2> DEFINE n == Cardinality(Later(c)') + lostSlots + 1
  <2>0. c \in Callers /\ n \in Nat \ {0}
    BY <1>1, <1>4 DEF Waiting
  <2>1. CASE c = e
    <3>1. Due(c)' = NextSlot
      BY <1>1, <1>2, <1>3, <2>1 DEF Due
    <3> HIDE DEF n
    <3>2. Interval * 1 <= Interval * n
      BY <2>0, IntervalSum
    <3>3. nextAllowed' <= Due(c)' + Interval * n
      BY <1>1, <1>2, <1>3, <2>0, <3>1, <3>2, IntervalSum
    <3> QED  BY <1>2, <3>3 DEF n
  <2>2. CASE c # e
    <3> DEFINE m == Cardinality(Later(c)) + lostSlots + 1
    <3>1. /\ c \in Waiting /\ slot'[c] = slot[c] /\ Due(c)' = Due(c)
          /\ Due(c) \in Nat /\ now <= Due(c)
      BY <1>1, <1>2, <2>0, <2>2 DEF Waiting, Due
    <3>2. slot[c] + Interval <= NextSlot
      BY <1>1, <1>3, <3>1 DEF BacklogInv, ThrottleInv, SlotsBehind, Reserved,
                              Waiting
    <3>3. m \in Nat /\ nextAllowed <= Due(c) + Interval * m
      BY <1>1, <1>4, <3>1 DEF BacklogInv, Waiting
    <3>4. Later(c) \subseteq Later(c)' /\ e \notin Later(c)
      BY <1>1, <1>2, <2>0, <3>1 DEF Later, Waiting
    <3>5. CASE Interval = 0
      <4> HIDE DEF m, n
      <4>1. Interval * m = 0 /\ Interval * n = 0
        BY <2>0, <3>3, <3>5
      <4>2. nextAllowed' <= Due(c)' + Interval * n
        BY <1>1, <1>2, <1>3, <3>1, <3>3, <3>5, <4>1
      <4> QED  BY <1>2, <4>2 DEF n
    <3>6. CASE Interval > 0
      <4>1. e \in Later(c)'
        BY <1>1, <1>2, <1>3, <2>0, <2>2, <3>1, <3>2, <3>6 DEF Later, Waiting
      <4>2. Cardinality(Later(c)) + 1 <= Cardinality(Later(c)')
        BY <3>4, <4>1, OneMore DEF Later, Waiting
      <4>3. m + 1 <= n
        BY <1>1, <1>4, <2>0, <4>2
      <4> HIDE DEF m, n
      <4>4. /\ Interval * m \in Nat /\ Interval * n \in Nat
            /\ Interval * m + Interval <= Interval * n
        <5>1. Interval * (m + 1) <= Interval * n
          BY <2>0, <3>3, <4>3, IntervalSum
        <5>2. Interval * (m + 1) = Interval * m + Interval
          BY <3>3, IntervalSum
        <5> QED  BY <2>0, <3>3, <5>1, <5>2, IntervalSum
      <4>5. nextAllowed' <= Due(c)' + Interval * n
        BY <1>1, <1>2, <1>3, <3>1, <3>3, <4>4
      <4> QED  BY <1>2, <4>5 DEF n
    <3> QED  BY <1>1, <3>5, <3>6
  <2> QED  BY <2>1, <2>2
<1> QED  BY <1>5, <1>6 DEF BacklogInv

\* A caller that stops waiting: after a call its slot is no longer ahead, so
\* the bound counted from it holds for everybody; after a crash its slot is
\* counted as lost.
LEMMA LeaveBacklog ==
    ASSUME IsFiniteSet(Callers), BacklogInv, ThrottleInv',
           NEW e \in Callers, CallProvider(e) \/ LoseSlot(e)
    PROVE  BacklogInv'
<1>1. /\ now \in Nat /\ nextAllowed \in Nat /\ lostSlots \in Nat
      /\ lostSlots' \in Nat
      /\ phase \in [Callers -> {"new", "waiting", "called"}]
      /\ slot \in [Callers -> Nat]
      /\ Interval \in Nat
  BY ThrottleAssumption DEF BacklogInv, ThrottleInv, ThrottleTypeOK
<1>2. /\ now' = now /\ slot' = slot /\ nextAllowed' = nextAllowed
      /\ phase[e] = "waiting"
      /\ phase' = [phase EXCEPT ![e] = "called"]
      /\ \/ lostSlots' = lostSlots /\ now >= slot[e]
         \/ lostSlots' = lostSlots + 1
  BY DEF CallProvider, LoseSlot
<1>3. /\ Waiting' = Waiting \ {e} /\ e \in Waiting
      /\ \A c \in Callers : Later(c)' = Later(c) \ {e}
  BY <1>1, <1>2 DEF Waiting, Later
<1>4. /\ \A S \in SUBSET Callers : Cardinality(S) \in Nat
      /\ Waiting \in SUBSET Callers /\ Waiting' \in SUBSET Callers
      /\ \A c \in Callers : /\ Later(c) \in SUBSET Callers
                            /\ Later(c)' \in SUBSET Callers
  <2>1. \A S \in SUBSET Callers : Cardinality(S) \in Nat
    BY FS_Subset, FS_CardinalityType
  <2> QED  BY <2>1 DEF Waiting, Later
\* A bound that lets go of e, by its call or by its crash.
<1>5. ASSUME NEW S \in SUBSET Callers, NEW b \in Nat, now <= b,
             nextAllowed <= b + Interval * (Cardinality(S) + lostSlots + 1),
             e \in S => Later(e) \subseteq S \ {e}
      PROVE  nextAllowed <= b + Interval * (Cardinality(S \ {e}) + lostSlots' + 1)
  <2> DEFINE k == Cardinality(S) + lostSlots + 1
             n == Cardinality(S \ {e}) + lostSlots' + 1
             l == Cardinality(Later(e)) + lostSlots + 1
  <2>0. k \in Nat /\ n \in Nat /\ l \in Nat
    BY <1>1, <1>4
  <2>1. CASE e \notin S
    <3>1. Cardinality(S \ {e}) = Cardinality(S) /\ Cardinality(S) \in Nat
      <4>1. S \ {e} = S
        BY <2>1
      <4> QED  BY <1>4, <4>1
    <3>2. k <= n
      BY <1>1, <1>2, <3>1
    <3>3. nextAllowed <= b + Interval * k
      BY <1>5
    <3> HIDE DEF k, n
    <3>4. /\ Interval * k \in Nat /\ Interval * n \in Nat
          /\ Interval * k <= Interval * n
      BY <2>0, <3>2, IntervalSum
    <3>5. nextAllowed <= b + Interval * n
      BY <1>1, <3>3, <3>4
    <3> QED  BY <3>5 DEF n
  <2>2. CASE e \in S /\ lostSlots' = lostSlots + 1
    <3>1. Cardinality(S \ {e}) = Cardinality(S) - 1
      BY <2>2, FS_Subset, FS_RemoveElement
    <3>2. k = n
      BY <1>1, <1>4, <2>2, <3>1
    <3> QED  BY <1>5, <3>2
  <2>3. CASE e \in S /\ lostSlots' = lostSlots /\ now >= slot[e]
    <3>1. Cardinality(Later(e)) <= Cardinality(S \ {e})
      BY <1>4, <1>5, <2>3, OneMore
    <3>2. l <= n
      BY <1>1, <1>4, <2>3, <3>1
    <3>3. Due(e) = now
      BY <1>1, <2>3 DEF Due
    <3>4. nextAllowed <= now + Interval * l
      BY <1>3, <3>3 DEF BacklogInv
    <3> HIDE DEF l, n
    <3>5. /\ Interval * l \in Nat /\ Interval * n \in Nat
          /\ Interval * l <= Interval * n
      BY <2>0, <3>2, IntervalSum
    <3>6. nextAllowed <= b + Interval * n
      BY <1>1, <1>5, <3>4, <3>5
    <3> QED  BY <3>6 DEF n
  <2> QED  BY <1>2, <2>1, <2>2, <2>3
<1>6. BacklogBounded'
  <2>1. nextAllowed <= now + Interval * (Cardinality(Waiting) + lostSlots + 1)
    BY DEF BacklogInv, BacklogBounded
  <2>2. Later(e) \subseteq Waiting \ {e}
    BY <1>1 DEF Later
  <2>3. nextAllowed <= now + Interval * (Cardinality(Waiting \ {e}) + lostSlots' + 1)
    BY <1>1, <1>4, <1>5, <2>1, <2>2
  <2> QED  BY <1>2, <1>3, <2>3 DEF BacklogBounded
<1>7. ASSUME NEW c \in Waiting'
      PROVE  nextAllowed' <= Due(c)' + Interval * (Cardinality(Later(c)') + lostSlots' + 1)
  <2>1. /\ c \in Waiting /\ c \in Callers
        /\ Due(c)' = Due(c) /\ Due(c) \in Nat /\ now <= Due(c)
    BY <1>1, <1>2, <1>3 DEF Waiting, Due
  <2>2. nextAllowed <= Due(c) + Interval * (Cardinality(Later(c)) + lostSlots + 1)
    BY <2>1 DEF BacklogInv
  <2>3. e \in Later(c) => Later(e) \subseteq Later(c) \ {e}
    BY <1>1, <2>1 DEF Later, Waiting
  <2>4. nextAllowed <= Due(c) + Interval * (Cardinality(Later(c) \ {e}) + lostSlots' + 1)
    BY <1>4, <1>5, <2>1, <2>2, <2>3
  <2> QED  BY <1>2, <1>3, <2>1, <2>4
<1> QED  BY <1>6, <1>7 DEF BacklogInv

LEMMA BacklogStep ==
    ASSUME IsFiniteSet(Callers), BacklogInv, [ThrottleNext]_throttleVars
    PROVE  BacklogInv'
<1>0. ThrottleInv'
  BY SlotsStep DEF BacklogInv
<1>1. CASE Tick \/ UNCHANGED throttleVars
  <2>1. /\ now' \in Nat /\ now \in Nat /\ now <= now'
        /\ slot' = slot /\ phase' = phase /\ lostSlots' = lostSlots
        /\ nextAllowed' = nextAllowed /\ nextAllowed \in Nat
        /\ slot \in [Callers -> Nat] /\ lostSlots \in Nat
    BY <1>1 DEF Tick, throttleVars, BacklogInv, ThrottleInv, ThrottleTypeOK
  <2>2. Waiting' = Waiting /\ \A c : Later(c)' = Later(c)
    BY <2>1 DEF Waiting, Later
  <2>3. /\ Cardinality(Waiting) + lostSlots + 1 \in Nat
        /\ \A c : Cardinality(Later(c)) + lostSlots + 1 \in Nat
    BY <2>1, Counted
  <2>4. BacklogBounded'
    <3> DEFINE n == Cardinality(Waiting) + lostSlots + 1
    <3>1. nextAllowed <= now + Interval * n
      BY DEF BacklogInv, BacklogBounded
    <3>2. n \in Nat
      BY <2>3
    <3> HIDE DEF n
    <3>3. nextAllowed <= now' + Interval * n
      BY <2>1, <3>1, <3>2, IntervalSum
    <3> QED  BY <2>1, <2>2, <3>3 DEF BacklogBounded, n
  <2>5. ASSUME NEW c \in Waiting'
        PROVE  nextAllowed' <= Due(c)' + Interval * (Cardinality(Later(c)') + lostSlots' + 1)
    <3> DEFINE n == Cardinality(Later(c)) + lostSlots + 1
    <3>1. c \in Waiting /\ c \in Callers
      BY <2>2 DEF Waiting
    <3>2. /\ Due(c) \in Nat /\ Due(c)' \in Nat /\ Due(c) <= Due(c)'
      BY <2>1, <3>1 DEF Due
    <3>3. n \in Nat /\ nextAllowed <= Due(c) + Interval * n
      BY <2>3, <3>1 DEF BacklogInv
    <3> HIDE DEF n
    <3>4. nextAllowed <= Due(c)' + Interval * n
      BY <2>1, <3>2, <3>3, IntervalSum
    <3> QED  BY <2>1, <2>2, <3>4 DEF n
  <2> QED  BY <1>0, <2>4, <2>5 DEF BacklogInv
<1>2. ASSUME NEW e \in Callers, ReserveSlot(e)
      PROVE  BacklogInv'
  BY <1>0, <1>2, ReserveBacklog
<1>3. ASSUME NEW e \in Callers, CallProvider(e) \/ LoseSlot(e)
      PROVE  BacklogInv'
  BY <1>0, <1>3, LeaveBacklog
<1> QED  BY <1>1, <1>2, <1>3 DEF ThrottleNext

\* With finitely many callers, whatever the interval and the order of their
\* calls: nobody is made to wait for more slots than are waited for or lost
\* (reserve_slot hands out the next free slot and no later one).
THEOREM BacklogStaysBounded ==
    ASSUME IsFiniteSet(Callers)
    PROVE  ThrottleSpec => []BacklogBounded
<1>1. BacklogInv /\ [ThrottleNext]_throttleVars => BacklogInv'
  BY BacklogStep
<1>2. BacklogInv => BacklogBounded
  BY DEF BacklogInv
<1> QED  BY BacklogInit, <1>1, <1>2, PTL DEF ThrottleSpec
=============================================================================
