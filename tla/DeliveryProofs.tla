--------------------------- MODULE DeliveryProofs --------------------------
(***************************************************************************)
(* Proofs about DeliveryWorker and WebhookProcessor, for any deliveries,   *)
(* workers, processors, administrators, retry limits and faults.           *)
(*                                                                         *)
(* Counts. The budget and the dead-letter property compare a count kept in *)
(* one place (POSTs, attemptCount) with the number of times BullMQ started *)
(* the job. Both rest on the same argument: each start lets one worker in, *)
(* and the workers that are in and have not used their start yet are       *)
(* counted by Busy. The invariants say: what was used, plus what may still *)
(* be used, is at most what was started.                                   *)
(*                                                                         *)
(* Outcomes. Rows are saved from copies that may be out of date, so what a *)
(* final status is worth cannot be shown from the rows alone. The          *)
(* invariants speak of the workers that are still going to save: what a    *)
(* copy may claim is bounded by what the destination answered, and by the  *)
(* starts of the job.                                                      *)
(*                                                                         *)
(* While no worker loses the lock of its job, a job is in one pair of      *)
(* hands and no copy is out of date ("While locks hold"): completed jobs   *)
(* delivered, counts do not drop, failures are recorded late, and the      *)
(* processor sends no row that says SUCCESS then. Without any fault the    *)
(* rows live the life of DeliveryLifecycle, in step with their jobs        *)
(* ("Without faults").                                                     *)
(***************************************************************************)
EXTENDS WebhookProcessor, FiniteSetTheorems, TLAPS

-----------------------------------------------------------------------------
(* The two kinds of workers share the queue, and every invariant below     *)
(* holds whichever of them takes a job; the lemmas speak of their steps    *)
(* together.                                                               *)

TakeJob(w) == \E d \in Deliveries, l \in {"load", "procLoad"} : Take(w, d, l)

Handle(w) == Process(w) \/ ProcessorLoad(w) \/ ProcessorPost(w)

Step ==
    \/ \E w \in Workers : TakeJob(w) \/ Handle(w) \/ Crash(w)
    \/ QueueStep
    \/ AdminStep

LEMMA WorkerSteps == [Next]_vars => [Step]_vars
BY DEF Next, Step, TakeJob, Fetch, Handle

LEMMA ProcessorSteps == [ProcessorNext]_vars => [Step]_vars
BY ProcessorsAssumption
   DEF ProcessorNext, Step, TakeJob, Fetch, ProcessorFetch, Handle,
       ProcessorProcess, Process

LEMMA BothStep == Spec \/ ProcessorSpec => Init /\ [][Step]_vars
BY WorkerSteps, ProcessorSteps, PTL DEF Spec, ProcessorSpec

-----------------------------------------------------------------------------
(* Busy workers.                                                           *)

\* The workers that handle d and stand at one of the locations L.
Busy(d, L) == {w \in Workers : task[w] = d /\ pc[w] \in L}

\* Nobody but a goes anywhere in the step.
OnlyMoves(a) == \A w \in Workers \ {a} : pc'[w] = pc[w] /\ task'[w] = task[w]

\* A set of busy workers loses or gains at most the one that moves.
LEMMA BusyMove ==
    ASSUME NEW a, OnlyMoves(a), NEW d, NEW L
    PROVE  /\ Cardinality(Busy(d, L)) \in Nat
           /\ Cardinality(Busy(d, L)') =
                Cardinality(Busy(d, L))
                  - (IF a \in Busy(d, L) THEN 1 ELSE 0)
                  + (IF a \in Busy(d, L)' THEN 1 ELSE 0)
<1> DEFINE B  == Busy(d, L)
           B1 == Busy(d, L)'
<1>1. IsFiniteSet(B) /\ IsFiniteSet(B1)
  <2>1. B \subseteq Workers /\ B1 \subseteq Workers
    BY DEF Busy
  <2> QED BY <2>1, FS_Subset, WorkersAssumption
<1>2. B \ {a} = B1 \ {a}
  BY DEF Busy, OnlyMoves
<1> HIDE DEF B, B1
<1>3. Cardinality(B) \in Nat /\ Cardinality(B1) \in Nat
  BY <1>1, FS_CardinalityType
<1>4. /\ Cardinality(B \ {a}) = Cardinality(B) - (IF a \in B THEN 1 ELSE 0)
      /\ Cardinality(B1 \ {a}) = Cardinality(B1) - (IF a \in B1 THEN 1 ELSE 0)
  <2>1. ASSUME NEW S, IsFiniteSet(S), Cardinality(S) \in Nat
        PROVE  Cardinality(S \ {a}) = Cardinality(S) - (IF a \in S THEN 1 ELSE 0)
    BY <2>1, FS_RemoveElement
  <2> QED BY <1>1, <1>3, <2>1
<1>5. /\ Cardinality(B) \in Nat
      /\ Cardinality(B1) = Cardinality(B) - (IF a \in B THEN 1 ELSE 0)
                           + (IF a \in B1 THEN 1 ELSE 0)
  BY <1>2, <1>3, <1>4
<1> QED BY <1>5 DEF B, B1

-----------------------------------------------------------------------------
(* The queue.                                                              *)

\* A job that is not finished has attempts left, and stalled at most
\* MaxStalledCount times; only active jobs have an owner.
QueueInv ==
    \A d \in Deliveries :
      /\ job[d].owner # None => job[d].state = "active"
      /\ ~Finished(d) => /\ job[d].attemptsMade < Attempts(d)
                         /\ job[d].stalledCounter <= MaxStalledCount
      /\ Finished(d) =>
           job[d].attemptsMade + job[d].stalledCounter
             <= Attempts(d) + MaxStalledCount

\* The steps of the queue that start no job.
JobStep(d) ==
    \/ \E w \in Workers :
         JobCompleted(w, d) \/ JobFailed(w, d) \/ JobAbandoned(w, d)
    \/ JobBackoffOver(d) \/ JobLockLost(d) \/ JobStalled(d)

LEMMA AttemptsType == \A d \in Deliveries : Attempts(d) \in Nat /\ Attempts(d) >= 1
BY RetriesAssumption DEF Attempts

\* QueueInv bounds how often a job is started.
LEMMA StartedBound ==
    ASSUME job \in [Deliveries -> Job], QueueInv, NEW d \in Deliveries
    PROVE  /\ Started(d) \in Nat
           /\ Started(d) <= Attempts(d) + MaxStalledCount
BY AttemptsType, StalledAssumption DEF QueueInv, Started, Finished, Job

\* Handing a job to a worker keeps the queue's invariant and counts one
\* more start.
LEMMA FetchStep ==
    ASSUME job \in [Deliveries -> Job], QueueInv,
           NEW w \in Workers, NEW d \in Deliveries, JobFetched(w, d)
    PROVE  /\ job' \in [Deliveries -> Job]
           /\ QueueInv'
           /\ \A e \in Deliveries :
                Started(e)' = IF e = d THEN Started(e) + 1 ELSE Started(e)
<1> USE NoneAssumption, AttemptsType, StalledAssumption
<1>1. job' = [job EXCEPT ![d] = [job[d] EXCEPT !.state = "active", !.owner = w]]
  BY DEF JobFetched
<1>2. job' \in [Deliveries -> Job]
  BY <1>1 DEF Job, JobState
<1>3. QueueInv'
  BY <1>1 DEF JobFetched, QueueInv, Finished, Job, JobState, Attempts
<1>4. \A e \in Deliveries :
        Started(e)' = IF e = d THEN Started(e) + 1 ELSE Started(e)
  BY <1>1 DEF JobFetched, Started, Job, JobState
<1> QED BY <1>2, <1>3, <1>4

JobKept ==
    /\ job' \in [Deliveries -> Job]
    /\ QueueInv'
    /\ \A d \in Deliveries : Started(d)' = Started(d)

\* No other step of the queue counts a start: what leaves "active" is added
\* to attemptsMade or to stalledCounter.
LEMMA QueueStepKeeps ==
    ASSUME job \in [Deliveries -> Job], QueueInv,
           NEW d \in Deliveries, JobStep(d)
    PROVE  JobKept
<1> USE NoneAssumption, AttemptsType, StalledAssumption
<1> DEFINE After(state, made, stalls) ==
             [job[d] EXCEPT !.state = state, !.owner = None,
                            !.attemptsMade = made, !.stalledCounter = stalls]
<1>1. CASE UNCHANGED job
  BY <1>1 DEF JobKept, QueueInv, Started, Finished, Attempts
<1>2. ASSUME NEW w \in Workers, JobCompleted(w, d), job[d].owner = w
      PROVE  JobKept
  <2>1. job' = [job EXCEPT ![d] =
                  After("completed", job[d].attemptsMade + 1, job[d].stalledCounter)]
    BY <1>2 DEF JobCompleted, Job
  <2>2. job' \in [Deliveries -> Job]
    <3>1. job[d] \in Job
      OBVIOUS
    <3>2. job[d].attemptsMade + 1 \in Nat
      BY <3>1 DEF Job
    <3>3. After("completed", job[d].attemptsMade + 1, job[d].stalledCounter) \in Job
      BY <3>1, <3>2, Zenon DEF Job, JobState
    <3> QED BY <2>1, <3>3
  <2>3. job[d].state = "active"
    BY <1>2 DEF QueueInv
  <2>4. QueueInv'
    BY <2>1, <2>3 DEF QueueInv, Finished, Job, JobState, Attempts
  <2>5. \A e \in Deliveries : Started(e)' = Started(e)
    BY <2>1, <2>3 DEF Started, Job, JobState
  <2> QED BY <2>2, <2>4, <2>5 DEF JobKept
<1>3. ASSUME NEW w \in Workers, JobFailed(w, d), job[d].owner = w
      PROVE  JobKept
  <2> DEFINE next == IF job[d].attemptsMade + 1 < Attempts(d)
                     THEN "delayed" ELSE "failed"
  <2>1. job' = [job EXCEPT ![d] =
                  After(next, job[d].attemptsMade + 1, job[d].stalledCounter)]
    BY <1>3 DEF JobFailed, Job
  <2>2. job' \in [Deliveries -> Job]
    <3>1. job[d] \in Job
      OBVIOUS
    <3>2. job[d].attemptsMade + 1 \in Nat
      BY <3>1 DEF Job
    <3>3. After(next, job[d].attemptsMade + 1, job[d].stalledCounter) \in Job
      BY <3>1, <3>2, Zenon DEF Job, JobState
    <3> QED BY <2>1, <3>3
  <2>3. job[d].state = "active"
    BY <1>3 DEF QueueInv
  <2>4. QueueInv'
    BY <2>1, <2>3 DEF QueueInv, Finished, Job, JobState, Attempts
  <2>5. \A e \in Deliveries : Started(e)' = Started(e)
    BY <2>1, <2>3 DEF Started, Job, JobState
  <2> QED BY <2>2, <2>4, <2>5 DEF JobKept
<1>4. CASE JobBackoffOver(d)
  <2>1. job' = [job EXCEPT ![d] = [job[d] EXCEPT !.state = "waiting"]]
    BY <1>4 DEF JobBackoffOver
  <2>2. job' \in [Deliveries -> Job]
    BY <2>1 DEF Job, JobState
  <2>3. QueueInv'
    BY <1>4, <2>1 DEF JobBackoffOver, QueueInv, Finished, Job, JobState, Attempts
  <2>4. \A e \in Deliveries : Started(e)' = Started(e)
    BY <1>4, <2>1 DEF JobBackoffOver, Started, Job, JobState
  <2> QED BY <2>2, <2>3, <2>4 DEF JobKept
<1>5. CASE job' = [job EXCEPT ![d].owner = None]
  <2>1. job' = [job EXCEPT ![d] = [job[d] EXCEPT !.owner = None]]
    BY <1>5
  <2>2. job' \in [Deliveries -> Job]
    BY <2>1 DEF Job
  <2>3. QueueInv'
    BY <2>1 DEF QueueInv, Finished, Job, Attempts
  <2>4. \A e \in Deliveries : Started(e)' = Started(e)
    BY <2>1 DEF Started, Job
  <2> QED BY <2>2, <2>3, <2>4 DEF JobKept
<1>6. CASE JobStalled(d)
  <2> DEFINE next == IF job[d].stalledCounter + 1 > MaxStalledCount
                     THEN "failed" ELSE "waiting"
  <2>1. job' = [job EXCEPT ![d] =
                  [job[d] EXCEPT !.state = next,
                                 !.stalledCounter = job[d].stalledCounter + 1]]
    BY <1>6 DEF JobStalled, Job
  <2>2. job' \in [Deliveries -> Job]
    <3>1. job[d] \in Job
      OBVIOUS
    <3>2. job[d].stalledCounter + 1 \in Nat
      BY <3>1 DEF Job
    <3>3. [job[d] EXCEPT !.state = next,
                          !.stalledCounter = job[d].stalledCounter + 1] \in Job
      BY <3>1, <3>2, Zenon DEF Job, JobState
    <3> QED BY <2>1, <3>3
  <2>3. QueueInv'
    BY <1>6, <2>1 DEF JobStalled, QueueInv, Finished, Job, JobState, Attempts
  <2>4. \A e \in Deliveries : Started(e)' = Started(e)
    BY <1>6, <2>1 DEF JobStalled, Started, Job, JobState
  <2> QED BY <2>2, <2>3, <2>4 DEF JobKept
<1> QED
  BY <1>1, <1>2, <1>3, <1>4, <1>5, <1>6
     DEF JobStep, JobCompleted, JobFailed, JobLockLost, JobAbandoned

-----------------------------------------------------------------------------
(* The type invariant.                                                     *)

LEMMA RowTypes ==
    \A row \in Row, m \in Nat :
      {InProgress(row), Succeeded(row), Failed(row, m), DeadLettered(row)}
        \subseteq Row
<1> TAKE row \in Row, m \in Nat
<1>1. InProgress(row) \in Row
  BY DEF InProgress, Row, Status
<1>2. Succeeded(row) \in Row
  BY DEF Succeeded, Row, Status
<1>3. Failed(row, m) \in Row
  BY DEF Failed, Row, Status
<1>4. DeadLettered(row) \in Row
  BY DEF DeadLettered, Row, Status
<1> QED BY <1>1, <1>2, <1>3, <1>4

LEMMA CreatedIsRow == Created \in Row
BY DEF Created, Row, Status

\* A handler that is running has a delivery.
LEMMA BusyHasTask ==
    ASSUME TypeOK, NEW a \in Actors, pc[a] # "idle"
    PROVE  task[a] \in Deliveries
BY DEF TypeOK

\* What a database statement of a running handler does to the types.
LEMMA WriteRowTypes ==
    ASSUME TypeOK, NEW a \in Actors, pc[a] # "idle", NEW row \in Row,
           NEW then \in Location \ {"idle"}, NEW otherwise \in Location \ {"idle"},
           WriteRow(a, row, then, otherwise)
    PROVE  /\ delivery' \in [Deliveries -> Row]
           /\ pc' \in [Actors -> Location]
           /\ \E l \in {then, otherwise} : pc' = [pc EXCEPT ![a] = l]
BY DEF WriteRow, Goto, TypeOK

LEMMA ReadRowTypes ==
    ASSUME TypeOK, NEW a \in Actors, pc[a] # "idle",
           NEW then \in Location \ {"idle"}, NEW otherwise \in Location \ {"idle"},
           ReadRow(a, then, otherwise)
    PROVE  /\ copy' \in [Actors -> Row]
           /\ pc' \in [Actors -> Location]
           /\ \E l \in {then, otherwise} : pc' = [pc EXCEPT ![a] = l]
<1>1. delivery[task[a]] \in Row
  BY BusyHasTask DEF TypeOK
<1> QED BY <1>1 DEF ReadRow, Goto, TypeOK

\* A handler that moves on keeps its delivery; one that ends drops it.
LEMMA StepTypes ==
    ASSUME TypeOK, NEW a \in Actors, pc[a] # "idle",
           NEW l \in Location \ {"idle"}, pc' = [pc EXCEPT ![a] = l], task' = task
    PROVE  /\ pc' \in [Actors -> Location]
           /\ task' \in [Actors -> Deliveries \cup {None}]
           /\ (\A b \in Actors : pc[b] = "idle" <=> task[b] = None)'
BY DEF TypeOK

LEMMA RestTypes ==
    ASSUME TypeOK, NEW a \in Actors, Rest(a)
    PROVE  /\ pc' \in [Actors -> Location]
           /\ task' \in [Actors -> Deliveries \cup {None}]
           /\ seen' \in [Actors -> Nat]
           /\ copy' \in [Actors -> Row]
           /\ (\A b \in Actors : pc[b] = "idle" <=> task[b] = None)'
BY CreatedIsRow DEF TypeOK, Rest, Goto, Location

TypeInv == TypeOK /\ QueueInv

LEMMA TypeInvInit == Init => TypeInv
<1> SUFFICES ASSUME Init PROVE TypeInv
  OBVIOUS
<1>1. Added \in Job
  BY DEF Added, Job, JobState
<1>2. TypeOK
  <2>1. accepted \in [Deliveries -> BOOLEAN]
    BY Zenon DEF Init
  <2> QED BY <1>1, <2>1, CreatedIsRow DEF Init, TypeOK, Location
<1>3. QueueInv
  BY AttemptsType, StalledAssumption DEF Init, QueueInv, Added, Finished
<1> QED BY <1>2, <1>3 DEF TypeInv

LEMMA TypeInvStep == TypeInv /\ [Step]_vars => TypeInv'
<1> SUFFICES ASSUME TypeInv, [Step]_vars PROVE TypeInv'
  OBVIOUS
<1> USE DEF TypeInv
<1>0. CASE UNCHANGED vars
  BY <1>0 DEF vars, local, TypeOK, QueueInv, Finished, Attempts
<1>1. ASSUME NEW w \in Workers, TakeJob(w) PROVE TypeInv'
  <2>1. PICK d \in Deliveries, l \in {"load", "procLoad"} : Take(w, d, l)
    BY <1>1 DEF TakeJob
  <2>2. w \in Actors /\ pc' = [pc EXCEPT ![w] = l]
          /\ task' = [task EXCEPT ![w] = d]
    BY <2>1 DEF Take, Goto, Actors
  <2>3. job' \in [Deliveries -> Job] /\ QueueInv'
    BY <2>1, FetchStep DEF Take, TypeOK
  <2>4. TypeOK'
    BY <2>1, <2>2, <2>3, NoneAssumption DEF Take, TypeOK, Location, BeforePost
  <2> QED BY <2>3, <2>4
<1>2. ASSUME NEW w \in Workers, Handle(w) PROVE TypeInv'
  <2> w \in Actors
    BY DEF Actors
  <2>0. pc[w] # "idle"
    BY <1>2 DEF Handle, ProcessorLoad, ProcessorPost, Process, Load,
                MarkInProgress, Post, MarkSuccessRead, MarkSuccessSave,
                MarkFailureRead, MarkFailureSave, RecordFailure, Ack, Nack
  <2>t. task[w] \in Deliveries /\ delivery[task[w]] \in Row /\ copy[w] \in Row
          /\ MaxRetries[task[w]] \in Nat
    BY <2>0, BusyHasTask, RetriesAssumption DEF TypeOK
  <2>q. CASE job' = job /\ TypeOK'
    BY <2>q DEF QueueInv, Finished, Attempts
  <2>1. CASE Load(w)
    <3>1. \E l \in {"mark", "nack"} : pc' = [pc EXCEPT ![w] = l]
      BY <2>1 DEF Load, Goto
    <3>2. TypeOK'
      BY <2>0, <2>1, <2>t, <3>1, StepTypes
         DEF Load, TypeOK, Location, BeforePost, Row
    <3> QED BY <2>1, <2>q, <3>2 DEF Load
  <2>2. CASE MarkInProgress(w)
    <3>1. WriteRow(w, InProgress(delivery[task[w]]), "post", "failRead")
      BY <2>2 DEF MarkInProgress
    <3>2. InProgress(delivery[task[w]]) \in Row
      BY <2>t, RowTypes
    <3>0. "post" \in Location \ {"idle"} /\ "failRead" \in Location \ {"idle"}
      BY DEF Location, BeforePost
    <3>3. /\ delivery' \in [Deliveries -> Row]
          /\ \E l \in {"post", "failRead"} : pc' = [pc EXCEPT ![w] = l]
      BY <2>0, <3>0, <3>1, <3>2, WriteRowTypes
    <3>4. TypeOK'
      BY <2>0, <2>2, <3>3, StepTypes
         DEF MarkInProgress, TypeOK, Location, BeforePost
    <3> QED BY <2>2, <2>q, <3>4 DEF MarkInProgress
  <2>3. CASE Post(w)
    <3>1. \E l \in {"succRead", "failRead"} : pc' = [pc EXCEPT ![w] = l]
      BY <2>3 DEF Post, Goto
    <3>2. accepted' \in [Deliveries -> BOOLEAN]
      BY <2>3, Zenon DEF Post, TypeOK
    <3>3. posts' \in [Deliveries -> Nat]
      BY <2>3, <2>t DEF Post, TypeOK
    <3>4. UNCHANGED <<delivery, job, task, seen, copy, eventFailures>>
      BY <2>3 DEF Post
    <3>5. TypeOK'
      BY <2>0, <3>1, <3>2, <3>3, <3>4, StepTypes
         DEF TypeOK, Location, AfterAccept
    <3> QED BY <2>q, <3>4, <3>5
  <2>4. CASE MarkSuccessRead(w)
    <3>1. /\ copy' \in [Actors -> Row]
          /\ \E l \in {"succSave", "failRead"} : pc' = [pc EXCEPT ![w] = l]
      BY <2>0, <2>4, ReadRowTypes DEF MarkSuccessRead, Location, AfterAccept
    <3>2. TypeOK'
      BY <2>0, <2>4, <3>1, StepTypes
         DEF MarkSuccessRead, TypeOK, Location, AfterAccept
    <3> QED BY <2>4, <2>q, <3>2 DEF MarkSuccessRead
  <2>5. CASE MarkSuccessSave(w)
    <3>1. WriteRow(w, Succeeded(copy[w]), "ack", "failRead")
      BY <2>5 DEF MarkSuccessSave
    <3>2. Succeeded(copy[w]) \in Row
      BY <2>t, RowTypes
    <3>0. "ack" \in Location \ {"idle"} /\ "failRead" \in Location \ {"idle"}
      BY DEF Location
    <3>3. /\ delivery' \in [Deliveries -> Row]
          /\ \E l \in {"ack", "failRead"} : pc' = [pc EXCEPT ![w] = l]
      BY <2>0, <3>0, <3>1, <3>2, WriteRowTypes
    <3>4. TypeOK'
      BY <2>0, <2>5, <3>3, StepTypes DEF MarkSuccessSave, TypeOK, Location
    <3> QED BY <2>5, <2>q, <3>4 DEF MarkSuccessSave
  <2>6. CASE MarkFailureRead(w)
    <3>1. /\ copy' \in [Actors -> Row]
          /\ \E l \in {"failSave", "nack"} : pc' = [pc EXCEPT ![w] = l]
      BY <2>0, <2>6, ReadRowTypes DEF MarkFailureRead, Location
    <3>2. TypeOK'
      BY <2>0, <2>6, <3>1, StepTypes DEF MarkFailureRead, TypeOK, Location
    <3> QED BY <2>6, <2>q, <3>2 DEF MarkFailureRead
  <2>7. CASE MarkFailureSave(w)
    <3> DEFINE then == IF seen[w] >= MaxRetries[task[w]] THEN "record" ELSE "nack"
    <3>1. WriteRow(w, Failed(copy[w], MaxRetries[task[w]]), then, "nack")
      BY <2>7 DEF MarkFailureSave
    <3>2. Failed(copy[w], MaxRetries[task[w]]) \in Row
      BY <2>t, RowTypes
    <3>3. then \in {"record", "nack"}
      OBVIOUS
    <3> HIDE DEF then
    <3>4. then \in Location \ {"idle"} /\ "nack" \in Location \ {"idle"}
      BY <3>3 DEF Location
    <3>5. /\ delivery' \in [Deliveries -> Row]
          /\ \E l \in {then, "nack"} : pc' = [pc EXCEPT ![w] = l]
      BY <2>0, <3>1, <3>2, <3>4, WriteRowTypes
    <3>6. TypeOK'
      BY <2>0, <2>7, <3>4, <3>5, StepTypes DEF MarkFailureSave, TypeOK
    <3> QED BY <2>7, <2>q, <3>6 DEF MarkFailureSave
  <2>8. CASE RecordFailure(w)
    <3>1. pc' = [pc EXCEPT ![w] = "nack"]
      BY <2>8 DEF RecordFailure, Goto
    <3>2. TypeOK'
      BY <2>0, <2>8, <2>t, <3>1, StepTypes DEF RecordFailure, TypeOK, Location
    <3> QED BY <2>8, <2>q, <3>2 DEF RecordFailure
  <2>p. CASE ProcessorLoad(w)
    <3>1. \E l \in {"ack", "nack", "procPost"} : pc' = [pc EXCEPT ![w] = l]
      BY <2>p DEF ProcessorLoad, Goto
    <3>2. TypeOK'
      BY <2>0, <2>p, <3>1, StepTypes
         DEF ProcessorLoad, TypeOK, Location, BeforePost
    <3> QED BY <2>p, <2>q, <3>2 DEF ProcessorLoad
  <2>s. CASE ProcessorPost(w)
    <3>1. pc' = [pc EXCEPT ![w] = "nack"]
      BY <2>s DEF ProcessorPost, Goto
    <3>2. accepted' \in [Deliveries -> BOOLEAN]
      BY <2>s, Zenon DEF ProcessorPost, TypeOK
    <3>3. posts' \in [Deliveries -> Nat]
      BY <2>s, <2>t DEF ProcessorPost, TypeOK
    <3>4. UNCHANGED <<delivery, job, task, seen, copy, eventFailures>>
      BY <2>s DEF ProcessorPost
    <3>5. TypeOK'
      BY <2>0, <3>1, <3>2, <3>3, <3>4, StepTypes DEF TypeOK, Location
    <3> QED BY <2>q, <3>4, <3>5
  <2>9. CASE Ack(w) \/ Nack(w)
    <3>1. JobStep(task[w]) /\ Rest(w)
      BY <2>9 DEF Ack, Nack, JobStep
    <3>2. job' \in [Deliveries -> Job] /\ QueueInv'
      BY <2>t, <3>1, QueueStepKeeps DEF TypeOK, JobKept
    <3>3. TypeOK'
      BY <2>9, <3>1, <3>2, RestTypes DEF Ack, Nack, TypeOK
    <3> QED BY <3>2, <3>3
  <2> QED
    BY <1>2, <2>1, <2>2, <2>3, <2>4, <2>5, <2>6, <2>7, <2>8, <2>9, <2>p, <2>s
       DEF Handle, Process
<1>3. ASSUME NEW w \in Workers, Crash(w) PROVE TypeInv'
  <2>1. w \in Actors /\ task[w] \in Deliveries
    BY <1>3, BusyHasTask DEF Crash, Actors
  <2>2. JobStep(task[w]) /\ Rest(w)
    BY <1>3 DEF Crash, JobStep
  <2>3. job' \in [Deliveries -> Job] /\ QueueInv'
    BY <2>1, <2>2, QueueStepKeeps DEF TypeOK, JobKept
  <2>4. TypeOK'
    BY <1>3, <2>1, <2>2, <2>3, RestTypes DEF Crash, TypeOK
  <2> QED BY <2>3, <2>4
<1>4. CASE QueueStep
  <2>1. PICK d \in Deliveries : Backoff(d) \/ Stall(d) \/ LockLoss(d)
    BY <1>4 DEF QueueStep
  <2>2. UNCHANGED others
    BY <2>1 DEF Backoff, Stall, LockLoss
  <2>3. job' \in [Deliveries -> Job] /\ QueueInv'
    <3>1. JobStep(d)
      BY <2>1 DEF JobStep, Backoff, Stall, LockLoss
    <3> QED BY <3>1, QueueStepKeeps DEF TypeOK, JobKept
  <2>4. TypeOK'
    BY <2>2, <2>3 DEF others, local, TypeOK
  <2> QED BY <2>3, <2>4
<1>5. CASE AdminStep
  <2>1. PICK a \in Admins : MarkDeadLetterRead(a) \/ MarkDeadLetterSave(a)
    BY <1>5 DEF AdminStep
  <2>2. a \in Actors
    BY DEF Actors
  <2>3. UNCHANGED job
    BY <2>1 DEF MarkDeadLetterRead, MarkDeadLetterSave
  <2>4. QueueInv'
    BY <2>3 DEF QueueInv, Finished, Attempts
  <2>5. CASE MarkDeadLetterRead(a)
    <3>1. TypeOK'
      BY <2>2, <2>3, <2>5, NoneAssumption, AdministeredAssumption
         DEF MarkDeadLetterRead, Goto, TypeOK, Location
    <3> QED BY <2>4, <3>1
  <2>6. CASE MarkDeadLetterSave(a)
    <3>1. DeadLettered(copy[a]) \in Row
      BY <2>2, RowTypes DEF TypeOK
    <3>2. task[a] \in Deliveries
      BY <2>2, <2>6, BusyHasTask DEF MarkDeadLetterSave
    <3>3. delivery' \in [Deliveries -> Row]
      BY <2>6, <3>1, <3>2 DEF MarkDeadLetterSave, TypeOK
    <3>4. TypeOK'
      BY <2>2, <2>3, <2>6, <3>3, RestTypes DEF MarkDeadLetterSave, TypeOK
    <3> QED BY <2>4, <3>4
  <2> QED BY <2>1, <2>5, <2>6
<1> QED BY <1>0, <1>1, <1>2, <1>3, <1>4, <1>5 DEF Step

\* TypeOK: every variable of DeliveryWorker stays in its type.
THEOREM TypeCorrect == Spec \/ ProcessorSpec => []TypeOK
<1>1. TypeInv => TypeOK
  BY DEF TypeInv
<1> QED BY TypeInvInit, TypeInvStep, <1>1, BothStep, PTL

-----------------------------------------------------------------------------
(* How a step moves the workers and the starts.                            *)

LEMMA BusyCard ==
    ASSUME NEW d, NEW L
    PROVE  /\ IsFiniteSet(Busy(d, L))
           /\ Cardinality(Busy(d, L)) \in Nat
BY FS_Subset, FS_CardinalityType, WorkersAssumption DEF Busy

\* No start is counted except by Fetch.
LEMMA StartedKept ==
    ASSUME TypeInv, NEW d \in Deliveries,
           \/ \E w \in Workers : Handle(w) \/ Crash(w)
           \/ QueueStep \/ AdminStep \/ UNCHANGED vars
    PROVE  Started(d)' = Started(d)
<1>1. CASE UNCHANGED job
  BY <1>1 DEF Started
<1>2. ASSUME NEW w \in Workers, Handle(w) PROVE Started(d)' = Started(d)
  <2>1. CASE Ack(w) \/ Nack(w)
    <3>1. JobStep(task[w]) /\ task[w] \in Deliveries
      BY <2>1, BusyHasTask DEF Ack, Nack, JobStep, Actors, TypeInv
    <3> QED BY <3>1, QueueStepKeeps DEF TypeInv, TypeOK, JobKept
  <2>2. CASE ~(Ack(w) \/ Nack(w))
    BY <1>1, <1>2, <2>2
       DEF Handle, ProcessorLoad, ProcessorPost, Process, Load, MarkInProgress,
           Post, MarkSuccessRead, MarkSuccessSave, MarkFailureRead,
           MarkFailureSave, RecordFailure
  <2> QED BY <2>1, <2>2
<1>3. ASSUME NEW w \in Workers, Crash(w) PROVE Started(d)' = Started(d)
  <2>1. JobStep(task[w]) /\ task[w] \in Deliveries
    BY <1>3, BusyHasTask DEF Crash, JobStep, Actors, TypeInv
  <2> QED BY <2>1, QueueStepKeeps DEF TypeInv, TypeOK, JobKept
<1>4. CASE QueueStep
  <2>1. PICK e \in Deliveries : JobStep(e)
    BY <1>4 DEF QueueStep, Backoff, Stall, LockLoss, JobStep
  <2> QED BY <2>1, QueueStepKeeps DEF TypeInv, TypeOK, JobKept
<1>5. CASE AdminStep
  BY <1>1, <1>5 DEF AdminStep, MarkDeadLetterRead, MarkDeadLetterSave
<1> QED BY <1>1, <1>2, <1>3, <1>4, <1>5 DEF vars

\* An actor that does not enter the locations L at d adds nobody to them.
LEMMA BusyShrinks ==
    ASSUME NEW a, OnlyMoves(a), NEW d, NEW L,
           a \in Busy(d, L)' => a \in Busy(d, L)
    PROVE  /\ Cardinality(Busy(d, L)') <= Cardinality(Busy(d, L))
           /\ a \in Busy(d, L) /\ a \notin Busy(d, L)' =>
                Cardinality(Busy(d, L)') = Cardinality(Busy(d, L)) - 1
BY BusyMove

\* Where a step of either process() leads. It keeps the delivery until it ends, is
\* before the POST only if it was, and past it only by the POST.
LEMMA HandleMoves ==
    ASSUME TypeInv, NEW w \in Workers, Handle(w)
    PROVE  /\ OnlyMoves(w)
           /\ \/ task'[w] = task[w]
              \/ task'[w] = None /\ pc'[w] = "idle"
           /\ pc'[w] \in BeforePost => pc[w] \in {"load", "mark", "procLoad"}
           /\ pc'[w] \in AfterAccept => pc[w] = "succRead" \/ Post(w)
<1> USE DEF OnlyMoves, Goto, BeforePost, AfterAccept
<1>0. w \in Actors /\ pc \in [Actors -> Location]
        /\ task \in [Actors -> Deliveries \cup {None}] /\ Workers \subseteq Actors
  BY DEF TypeInv, TypeOK, Actors
<1>2. CASE Load(w)
  BY <1>0, <1>2 DEF Load
<1>3. CASE MarkInProgress(w)
  BY <1>0, <1>3 DEF MarkInProgress, WriteRow
<1>4. CASE Post(w)
  BY <1>0, <1>4 DEF Post
<1>5. CASE MarkSuccessRead(w)
  BY <1>0, <1>5 DEF MarkSuccessRead, ReadRow
<1>6. CASE MarkSuccessSave(w)
  BY <1>0, <1>6 DEF MarkSuccessSave, WriteRow
<1>7. CASE MarkFailureRead(w)
  BY <1>0, <1>7 DEF MarkFailureRead, ReadRow
<1>8. CASE MarkFailureSave(w)
  BY <1>0, <1>8 DEF MarkFailureSave, WriteRow
<1>9. CASE RecordFailure(w)
  BY <1>0, <1>9 DEF RecordFailure
<1>10. CASE Ack(w) \/ Nack(w)
  BY <1>0, <1>10 DEF Ack, Nack, Rest
<1>11. CASE ProcessorLoad(w)
  BY <1>0, <1>11 DEF ProcessorLoad
<1>12. CASE ProcessorPost(w)
  BY <1>0, <1>12 DEF ProcessorPost
<1> QED
  BY <1>2, <1>3, <1>4, <1>5, <1>6, <1>7, <1>8, <1>9, <1>10, <1>11, <1>12
     DEF Handle, Process

\* An administrator's step and the end of a handler move one actor only.
LEMMA RestMoves ==
    ASSUME TypeInv, NEW a \in Actors, Rest(a)
    PROVE  /\ OnlyMoves(a)
           /\ pc'[a] = "idle" /\ task'[a] = None
BY DEF Rest, Goto, OnlyMoves, TypeInv, TypeOK, Actors

-----------------------------------------------------------------------------
(* The budget of POSTs.                                                    *)

\* The POSTs sent, and those that workers are about to send, were all
\* started by the queue.
PostInv ==
    \A d \in Deliveries :
      posts[d] + Cardinality(Busy(d, BeforePost)) <= Started(d)

LEMMA PostInvInit == Init => PostInv
<1> SUFFICES ASSUME Init, NEW d \in Deliveries
             PROVE  posts[d] + Cardinality(Busy(d, BeforePost)) <= Started(d)
  BY DEF PostInv
<1>1. Busy(d, BeforePost) = {}
  BY DEF Init, Busy, BeforePost, Actors
<1>2. Started(d) = 0
  BY DEF Init, Started, Added
<1> QED BY <1>1, <1>2, FS_EmptySet DEF Init

LEMMA PostInvStep == TypeInv /\ TypeInv' /\ PostInv /\ [Step]_vars => PostInv'
<1> SUFFICES ASSUME TypeInv, TypeInv', PostInv, [Step]_vars,
                    NEW d \in Deliveries
             PROVE  (posts[d] + Cardinality(Busy(d, BeforePost)) <= Started(d))'
  BY DEF PostInv
<1> DEFINE n  == Cardinality(Busy(d, BeforePost))
           n1 == Cardinality(Busy(d, BeforePost)')
<1>a. n \in Nat /\ n1 \in Nat
  <2>1. IsFiniteSet(Busy(d, BeforePost)')
    BY FS_Subset, WorkersAssumption DEF Busy
  <2> QED BY <2>1, BusyCard, FS_CardinalityType
<1>b. Started(d) \in Nat /\ posts[d] \in Nat /\ posts'[d] \in Nat
  BY StartedBound DEF TypeInv, TypeOK
<1>c. posts[d] + n <= Started(d)
  BY DEF PostInv
<1> HIDE DEF n, n1
<1>d. ASSUME posts' = posts, n1 <= n, Started(d)' = Started(d)
      PROVE  posts'[d] + n1 <= Started(d)'
  BY <1>a, <1>b, <1>c, <1>d
<1>0. CASE UNCHANGED vars
  <2>1. n1 = n
    BY <1>0 DEF vars, local, n, n1, Busy
  <2> QED BY <1>0, <1>a, <1>d, <2>1, StartedKept DEF vars, n1
<1>1. ASSUME NEW w \in Workers, TakeJob(w)
      PROVE  posts'[d] + n1 <= Started(d)'
  <2>1. PICK e \in Deliveries, l \in {"load", "procLoad"} : Take(w, e, l)
    BY <1>1 DEF TakeJob
  <2>2. Started(d)' = IF d = e THEN Started(d) + 1 ELSE Started(d)
    BY <2>1, FetchStep DEF Take, TypeInv, TypeOK
  <2>3. OnlyMoves(w) /\ pc'[w] = l /\ task'[w] = e
    BY <2>1 DEF Take, Goto, OnlyMoves, TypeInv, TypeOK, Actors
  <2>4. /\ w \notin Busy(d, BeforePost)
        /\ w \in Busy(d, BeforePost)' <=> d = e
    BY <2>1, <2>3 DEF Take, Busy, BeforePost
  <2>5. n1 = n - (IF w \in Busy(d, BeforePost) THEN 1 ELSE 0)
               + (IF w \in Busy(d, BeforePost)' THEN 1 ELSE 0)
    BY <2>3, BusyMove DEF n, n1
  <2>6. n1 = IF d = e THEN n + 1 ELSE n
    BY <1>a, <2>4, <2>5
  <2>7. posts' = posts
    BY <2>1 DEF Take
  <2> QED BY <1>a, <1>b, <1>c, <2>2, <2>6, <2>7
<1>2. ASSUME NEW w \in Workers, Handle(w)
      PROVE  posts'[d] + n1 <= Started(d)'
  <2>1. Started(d)' = Started(d)
    BY <1>2, StartedKept
  <2>2. /\ OnlyMoves(w)
        /\ \/ task'[w] = task[w]
           \/ task'[w] = None /\ pc'[w] = "idle"
        /\ pc'[w] \in BeforePost => pc[w] \in {"load", "mark", "procLoad"}
    BY <1>2, HandleMoves
  <2>3. w \in Busy(d, BeforePost)' => w \in Busy(d, BeforePost)
    BY <2>2, NoneAssumption DEF Busy, BeforePost
  <2>4. /\ n1 <= n
        /\ w \in Busy(d, BeforePost) /\ w \notin Busy(d, BeforePost)'
             => n1 = n - 1
    BY <2>2, <2>3, BusyShrinks DEF n, n1
  <2>5. CASE Post(w) \/ ProcessorPost(w)
    <3>1. task[w] \in Deliveries
      BY <2>5, BusyHasTask DEF Post, ProcessorPost, TypeInv, Actors
    <3>2. CASE task[w] = d
      <4>1. w \in Busy(d, BeforePost) /\ w \notin Busy(d, BeforePost)'
        BY <2>2, <2>5, <3>2 DEF Post, ProcessorPost, Busy, BeforePost
      <4>2. posts'[d] = posts[d] + 1
        BY <2>5, <3>2 DEF Post, ProcessorPost, TypeInv, TypeOK
      <4> QED BY <1>a, <1>b, <1>c, <2>1, <2>4, <4>1, <4>2
    <3>3. CASE task[w] # d
      <4>1. posts'[d] = posts[d]
        BY <2>5, <3>1, <3>3 DEF Post, ProcessorPost, TypeInv, TypeOK
      <4> QED BY <1>a, <1>b, <1>c, <2>1, <2>4, <4>1
    <3> QED BY <3>2, <3>3
  <2>6. CASE ~(Post(w) \/ ProcessorPost(w))
    <3>1. posts' = posts
      BY <1>2, <2>6
         DEF Handle, ProcessorLoad, Process, Load, MarkInProgress,
             MarkSuccessRead, MarkSuccessSave, MarkFailureRead,
             MarkFailureSave, RecordFailure, Ack, Nack
    <3> QED BY <1>d, <2>1, <2>4, <3>1
  <2> QED BY <2>5, <2>6
<1>3. ASSUME NEW w \in Workers, Crash(w)
      PROVE  posts'[d] + n1 <= Started(d)'
  <2>1. OnlyMoves(w) /\ pc'[w] = "idle" /\ posts' = posts
    BY <1>3, RestMoves DEF Crash, Actors
  <2>2. w \notin Busy(d, BeforePost)'
    BY <2>1 DEF Busy, BeforePost
  <2>3. n1 <= n
    BY <2>1, <2>2, BusyShrinks DEF n, n1
  <2> QED BY <1>3, <1>d, <2>1, <2>3, StartedKept
<1>4. CASE QueueStep
  <2>1. UNCHANGED others
    BY <1>4 DEF QueueStep, Backoff, Stall, LockLoss
  <2>2. n1 = n
    BY <2>1 DEF others, local, n, n1, Busy
  <2> QED BY <1>4, <1>a, <1>d, <2>1, <2>2, StartedKept DEF others, n1
<1>5. CASE AdminStep
  <2>1. PICK a \in Admins : MarkDeadLetterRead(a) \/ MarkDeadLetterSave(a)
    BY <1>5 DEF AdminStep
  <2>2. posts' = posts
    BY <2>1 DEF MarkDeadLetterRead, MarkDeadLetterSave
  <2>3. Busy(d, BeforePost)' = Busy(d, BeforePost)
    <3>1. \A w \in Workers : w # a /\ pc'[w] = pc[w] /\ task'[w] = task[w]
      BY <2>1, AdminsAssumption
         DEF MarkDeadLetterRead, MarkDeadLetterSave, Rest, Goto, Actors,
             TypeInv, TypeOK
    <3> QED BY <3>1 DEF Busy
  <2>4. n1 = n
    BY <2>3 DEF n, n1
  <2> QED BY <1>5, <1>a, <1>d, <2>2, <2>4, StartedKept DEF n1
<1> QED BY <1>0, <1>1, <1>2, <1>3, <1>4, <1>5 DEF Step, n1

\* PostBudget: no delivery is POSTed more often than its attempts and the
\* re-queued stalls allow.
THEOREM PostsWithinBudget == Spec \/ ProcessorSpec => []PostBudget
<1>1. TypeInv /\ PostInv => PostBudget
  <2> SUFFICES ASSUME TypeInv, PostInv, NEW d \in Deliveries
               PROVE  posts[d] <= Attempts(d) + MaxStalledCount
    BY DEF PostBudget
  <2>1. posts[d] \in Nat /\ Cardinality(Busy(d, BeforePost)) \in Nat
    BY BusyCard DEF TypeInv, TypeOK
  <2>2. Started(d) \in Nat /\ Started(d) <= Attempts(d) + MaxStalledCount
    BY StartedBound DEF TypeInv, TypeOK
  <2> QED BY <2>1, <2>2, AttemptsType, StalledAssumption DEF PostInv
<1> QED
  BY TypeInvInit, TypeInvStep, PostInvInit, PostInvStep, <1>1, BothStep, PTL

-----------------------------------------------------------------------------
(* SUCCESS.                                                                *)

\* A worker that is past an accepted POST handles an accepted delivery.
TruthInv ==
    /\ SuccessIsTruthful
    /\ \A w \in Workers : pc[w] \in AfterAccept => accepted[task[w]]

\* A row turns to SUCCESS by markSuccess only.
LEMMA SuccessIsWritten ==
    ASSUME TypeInv, [Step]_vars, NEW d \in Deliveries,
           delivery'[d].status = "success"
    PROVE  \/ delivery[d].status = "success"
           \/ \E w \in Workers : pc[w] = "succSave" /\ task[w] = d
<1> DEFINE Goal == \/ delivery[d].status = "success"
                   \/ \E w \in Workers : pc[w] = "succSave" /\ task[w] = d
<1>0. delivery \in [Deliveries -> Row]
  BY DEF TypeInv, TypeOK
<1>1. ASSUME NEW a, NEW row,
             delivery' = delivery \/ delivery' = [delivery EXCEPT ![a] = row],
             d = a /\ row.status = "success" => delivery[d].status = "success"
      PROVE  Goal
  BY <1>0, <1>1
<1>2. ASSUME NEW w \in Workers, Handle(w) PROVE Goal
  <2>1. CASE MarkSuccessSave(w)
    <3>1. CASE task[w] = d
      BY <2>1, <3>1 DEF MarkSuccessSave
    <3>2. CASE task[w] # d
      BY <1>0, <2>1, <3>2 DEF MarkSuccessSave, WriteRow
    <3> QED BY <3>1, <3>2
  <2>2. CASE MarkInProgress(w)
    <3>1. \/ delivery' = delivery
          \/ delivery' = [delivery EXCEPT ![task[w]] = InProgress(delivery[task[w]])]
      BY <2>2 DEF MarkInProgress, WriteRow
    <3>2. ASSUME d = task[w], InProgress(delivery[task[w]]).status = "success"
          PROVE  delivery[d].status = "success"
      <4>1. delivery[d] \in Row
        BY <1>0
      <4> QED BY <3>2, <4>1 DEF InProgress, Row
    <3> QED BY <1>1, <3>1, <3>2
  <2>3. CASE MarkFailureSave(w)
    BY <1>1, <2>3 DEF MarkFailureSave, WriteRow, Failed
  <2>4. CASE delivery' = delivery
    BY <2>4
  <2> QED
    BY <1>2, <2>1, <2>2, <2>3, <2>4
       DEF Handle, ProcessorLoad, ProcessorPost, Process, Load, Post,
           MarkSuccessRead, MarkFailureRead, RecordFailure, Ack, Nack
<1>3. ASSUME NEW a \in Admins, MarkDeadLetterRead(a) \/ MarkDeadLetterSave(a)
      PROVE  Goal
  <2>1. copy[a] \in Row
    BY DEF TypeInv, TypeOK, Actors
  <2>2. DeadLettered(copy[a]).status = "dead_letter"
    BY <2>1 DEF DeadLettered, Row
  <2> QED BY <1>1, <1>3, <2>2 DEF MarkDeadLetterRead, MarkDeadLetterSave
<1>4. CASE delivery' = delivery
  BY <1>4
<1> QED
  BY <1>2, <1>3, <1>4
     DEF Step, AdminStep, TakeJob, Take, Crash, QueueStep, Backoff, Stall,
         LockLoss, others, vars

\* What a destination accepted stays accepted, and a worker gets past an
\* accepted POST by that POST only.
LEMMA AcceptedIsKept ==
    ASSUME TypeInv, [Step]_vars
    PROVE  /\ \A d \in Deliveries : accepted[d] => accepted'[d]
           /\ \A w \in Workers : pc'[w] \in AfterAccept =>
                \/ pc[w] \in AfterAccept /\ task'[w] = task[w]
                \/ accepted'[task'[w]]
<1> DEFINE Past(w) == pc'[w] \in AfterAccept =>
                        \/ pc[w] \in AfterAccept /\ task'[w] = task[w]
                        \/ accepted'[task'[w]]
           Goal == /\ \A d \in Deliveries : accepted[d] => accepted'[d]
                   /\ \A w \in Workers : Past(w)
<1>1. ASSUME NEW a, OnlyMoves(a), a \in Workers => Past(a),
             \A d \in Deliveries : accepted[d] => accepted'[d]
      PROVE  Goal
  BY <1>1, Zenon DEF OnlyMoves
<1>2. ASSUME NEW w \in Workers, Handle(w) PROVE Goal
  <2>1. /\ OnlyMoves(w)
        /\ \/ task'[w] = task[w]
           \/ task'[w] = None /\ pc'[w] = "idle"
        /\ pc'[w] \in AfterAccept => pc[w] = "succRead" \/ Post(w)
    BY <1>2, HandleMoves
  <2>2. CASE Post(w)
    <3>1. task[w] \in Deliveries /\ task' = task
      BY <2>2, BusyHasTask DEF Post, TypeInv, Actors
    <3>2. \/ accepted' = [accepted EXCEPT ![task[w]] = TRUE]
          \/ accepted' = accepted /\ pc' = [pc EXCEPT ![w] = "failRead"]
      BY <2>2, Zenon DEF Post, Goto
    <3>3. accepted \in [Deliveries -> BOOLEAN]
      BY Zenon DEF TypeInv, TypeOK
    <3>4. \A d \in Deliveries : accepted[d] => accepted'[d]
      BY <3>1, <3>2, <3>3
    <3>5. Past(w)
      <4>1. CASE accepted' = [accepted EXCEPT ![task[w]] = TRUE]
        <5>1. accepted'[task[w]]
          BY <3>1, <3>3, <4>1
        <5> QED BY <3>1, <5>1, Zenon
      <4>2. CASE accepted' = accepted /\ pc' = [pc EXCEPT ![w] = "failRead"]
        <5>1. pc'[w] = "failRead"
          BY <4>2 DEF TypeInv, TypeOK, Actors
        <5> QED BY <5>1 DEF AfterAccept
      <4> QED BY <3>2, <4>1, <4>2
    <3> QED BY <1>1, <2>1, <3>4, <3>5
  <2>4. CASE ProcessorPost(w)
    <3>1. task[w] \in Deliveries
      BY <2>4, BusyHasTask DEF ProcessorPost, TypeInv, Actors
    <3>2. \/ accepted' = [accepted EXCEPT ![task[w]] = TRUE]
          \/ accepted' = accepted
      BY <2>4, Zenon DEF ProcessorPost
    <3>3. accepted \in [Deliveries -> BOOLEAN]
      BY Zenon DEF TypeInv, TypeOK
    <3>4. \A d \in Deliveries : accepted[d] => accepted'[d]
      BY <3>1, <3>2, <3>3
    <3>5. pc'[w] = "nack"
      BY <2>4 DEF ProcessorPost, Goto, TypeInv, TypeOK, Actors
    <3>6. Past(w)
      BY <3>5 DEF AfterAccept
    <3> QED BY <1>1, <2>1, <3>4, <3>6, Zenon
  <2>3. CASE ~Post(w) /\ ~ProcessorPost(w)
    <3>1. accepted' = accepted
      BY <1>2, <2>3, Zenon
         DEF Handle, ProcessorLoad, Process, Load, MarkInProgress,
             MarkSuccessRead, MarkSuccessSave, MarkFailureRead,
             MarkFailureSave, RecordFailure, Ack, Nack
    <3>2. Past(w)
      BY <2>1, <2>3 DEF AfterAccept
    <3> QED BY <1>1, <2>1, <3>1, <3>2, Zenon
  <2> QED BY <2>2, <2>3, <2>4
<1>3. ASSUME NEW a \in Actors, OnlyMoves(a), pc'[a] \notin AfterAccept,
             accepted' = accepted
      PROVE  Goal
  BY <1>1, <1>3, Zenon
<1>4. ASSUME NEW w \in Workers, Crash(w) PROVE Goal
  <2>1. OnlyMoves(w) /\ pc'[w] = "idle"
    BY <1>4, RestMoves DEF Crash, Actors
  <2>2. pc'[w] \notin AfterAccept
    BY <2>1 DEF AfterAccept
  <2>3. accepted' = accepted
    BY <1>4, Zenon DEF Crash
  <2> QED BY <1>3, <2>1, <2>2, <2>3 DEF Actors
<1>5. ASSUME NEW w \in Workers, TakeJob(w) PROVE Goal
  <2>1. PICK d \in Deliveries, l \in {"load", "procLoad"} : Take(w, d, l)
    BY <1>5 DEF TakeJob
  <2>2. OnlyMoves(w) /\ pc'[w] = l
    BY <2>1 DEF Take, Goto, OnlyMoves, TypeInv, TypeOK, Actors
  <2>3. pc'[w] \notin AfterAccept
    BY <2>2 DEF AfterAccept
  <2>4. accepted' = accepted
    BY <2>1, Zenon DEF Take
  <2> QED BY <1>3, <2>2, <2>3, <2>4 DEF Actors
<1>6. ASSUME NEW a \in Admins, MarkDeadLetterRead(a) \/ MarkDeadLetterSave(a)
      PROVE  Goal
  <2>1. OnlyMoves(a) /\ pc'[a] \in {"deadSave", "idle"}
    BY <1>6, AdminsAssumption
       DEF MarkDeadLetterRead, MarkDeadLetterSave, Rest, Goto, OnlyMoves,
           Actors, TypeInv, TypeOK
  <2>2. pc'[a] \notin AfterAccept
    BY <2>1 DEF AfterAccept
  <2>3. accepted' = accepted
    BY <1>6, Zenon DEF MarkDeadLetterRead, MarkDeadLetterSave
  <2> QED BY <1>3, <2>1, <2>2, <2>3 DEF Actors
<1>7. ASSUME UNCHANGED local, accepted' = accepted PROVE Goal
  BY <1>7, Zenon DEF local
<1>8. CASE QueueStep
  <2>1. UNCHANGED local /\ accepted' = accepted
    BY <1>8, Zenon DEF QueueStep, Backoff, Stall, LockLoss, others
  <2> QED BY <1>7, <2>1
<1>9. CASE UNCHANGED vars
  <2>1. UNCHANGED local /\ accepted' = accepted
    BY <1>9, Zenon DEF vars
  <2> QED BY <1>7, <2>1
<1> QED
  BY <1>2, <1>4, <1>5, <1>6, <1>8, <1>9, Zenon DEF Step, AdminStep

LEMMA TruthInvInit == Init => TruthInv
BY DEF Init, TruthInv, SuccessIsTruthful, Created, AfterAccept, Actors

LEMMA TruthInvStep == TypeInv /\ TypeInv' /\ TruthInv /\ [Step]_vars => TruthInv'
<1> SUFFICES ASSUME TypeInv, TypeInv', TruthInv, [Step]_vars PROVE TruthInv'
  OBVIOUS
<1>1. ASSUME NEW w \in Workers, pc[w] \in AfterAccept
      PROVE  task[w] \in Deliveries
  BY <1>1, BusyHasTask DEF AfterAccept, TypeInv, Actors
<1>2. SuccessIsTruthful'
  <2> SUFFICES ASSUME NEW d \in Deliveries, delivery'[d].status = "success"
               PROVE  accepted'[d]
    BY DEF SuccessIsTruthful
  <2>1. CASE delivery[d].status = "success"
    BY <2>1, AcceptedIsKept, Zenon DEF TruthInv, SuccessIsTruthful
  <2>2. ASSUME NEW w \in Workers, pc[w] = "succSave", task[w] = d
        PROVE  accepted'[d]
    <3>1. pc[w] \in AfterAccept
      BY <2>2 DEF AfterAccept
    <3> QED BY <2>2, <3>1, AcceptedIsKept, Zenon DEF TruthInv
  <2> QED BY <2>1, <2>2, SuccessIsWritten
<1>3. ASSUME NEW w \in Workers, pc'[w] \in AfterAccept
      PROVE  accepted'[task'[w]]
  <2>1. CASE pc[w] \in AfterAccept /\ task'[w] = task[w]
    BY <1>1, <2>1, AcceptedIsKept, Zenon DEF TruthInv
  <2> QED BY <1>3, <2>1, AcceptedIsKept, Zenon
<1> QED BY <1>2, <1>3, Zenon DEF TruthInv

\* SuccessIsTruthful: a row says SUCCESS only when a worker saw the
\* destination accept the POST.
THEOREM SuccessTruthful == Spec \/ ProcessorSpec => []SuccessIsTruthful
<1>1. TruthInv => SuccessIsTruthful
  BY DEF TruthInv
<1> QED
  BY TypeInvInit, TypeInvStep, TruthInvInit, TruthInvStep, <1>1, BothStep, PTL

-----------------------------------------------------------------------------
(* Dead letters.                                                           *)

\* A worker here has not used its start for a failed attempt of the row yet.
Uncounted == BeforePost \cup AfterAccept \cup {"failRead", "failSave"}

Saving == {"succSave", "failSave"}

Pending(d) == Cardinality(Busy(d, Uncounted))

\* The attempts a row counts, those a copy counts that is going to be saved,
\* and those that running workers may still add, were started by the queue.
CountInv ==
    \A d \in Unattended :
      /\ delivery[d].attemptCount + Pending(d) <= Started(d)
      /\ \A w \in Busy(d, Saving) :
           copy[w].attemptCount + Pending(d) <= Started(d)

\* No step of process() makes a worker uncounted that was not.
LEMMA UncountedMoves ==
    ASSUME TypeInv, NEW w \in Workers, Handle(w), pc'[w] \in Uncounted
    PROVE  pc[w] \in Uncounted
<1> USE DEF Goto, Uncounted, BeforePost, AfterAccept
<1>1. w \in Actors /\ pc \in [Actors -> Location]
  BY DEF TypeInv, TypeOK, Actors
<1>2. CASE RecordFailure(w) \/ Ack(w) \/ Nack(w)
  BY <1>1, <1>2 DEF RecordFailure, Ack, Nack, Rest
<1>3. CASE ~(RecordFailure(w) \/ Ack(w) \/ Nack(w))
  BY <1>3 DEF Handle, ProcessorLoad, ProcessorPost, Process, Load,
              MarkInProgress, Post, MarkSuccessRead, MarkSuccessSave,
              MarkFailureRead, MarkFailureSave
<1> QED BY <1>2, <1>3

LEMMA PendingType ==
    ASSUME NEW d
    PROVE  Pending(d) \in Nat /\ Pending(d)' \in Nat
BY FS_Subset, FS_CardinalityType, WorkersAssumption DEF Pending, Busy

\* A worker that goes on or dies takes nobody's place, and counts one less
\* when it leaves.
LEMMA PendingShrinks ==
    ASSUME TypeInv, NEW w \in Workers, Handle(w) \/ Crash(w),
           NEW d \in Deliveries
    PROVE  /\ Started(d)' = Started(d)
           /\ Pending(d)' <= Pending(d)
           /\ w \in Busy(d, Uncounted) /\ w \notin Busy(d, Uncounted)' =>
                Pending(d)' = Pending(d) - 1
<1>1. Started(d)' = Started(d)
  BY StartedKept
<1>2. OnlyMoves(w) /\ (w \in Busy(d, Uncounted)' => w \in Busy(d, Uncounted))
  <2>1. CASE Handle(w)
    <3>1. /\ OnlyMoves(w)
          /\ \/ task'[w] = task[w]
             \/ task'[w] = None /\ pc'[w] = "idle"
      BY <2>1, HandleMoves
    <3> QED BY <2>1, <3>1, UncountedMoves, NoneAssumption DEF Busy
  <2>2. CASE Crash(w)
    <3>1. OnlyMoves(w) /\ task'[w] = None
      BY <2>2, RestMoves DEF Crash, Actors
    <3> QED BY <3>1, NoneAssumption DEF Busy
  <2> QED BY <2>1, <2>2
<1> QED BY <1>1, <1>2, BusyShrinks DEF Pending

\* Administrators save copies of the deliveries in Administered only.
AdminInv == \A a \in Admins : pc[a] = "deadSave" => task[a] \in Administered

LEMMA AdminKeeps ==
    ASSUME TypeInv, AdminInv, AdminStep
    PROVE  /\ \A w \in Workers : /\ pc'[w] = pc[w]
                                 /\ task'[w] = task[w]
                                 /\ copy'[w] = copy[w]
           /\ \A d \in Unattended : delivery'[d] = delivery[d]
<1>1. PICK a \in Admins : MarkDeadLetterRead(a) \/ MarkDeadLetterSave(a)
  BY DEF AdminStep
<1>2. \A w \in Workers : w # a
  BY AdminsAssumption
<1>3. \A w \in Workers : pc'[w] = pc[w] /\ task'[w] = task[w] /\ copy'[w] = copy[w]
  BY <1>1, <1>2
     DEF MarkDeadLetterRead, MarkDeadLetterSave, Rest, Goto, Actors, TypeInv, TypeOK
<1>4. \A d \in Unattended : delivery'[d] = delivery[d]
  <2>1. CASE MarkDeadLetterRead(a)
    BY <2>1 DEF MarkDeadLetterRead
  <2>2. CASE MarkDeadLetterSave(a)
    <3>1. \A d \in Unattended : d # task[a]
      BY <2>2 DEF MarkDeadLetterSave, AdminInv, Unattended
    <3> QED BY <2>2, <3>1 DEF MarkDeadLetterSave, Unattended, TypeInv, TypeOK
  <2> QED BY <1>1, <2>1, <2>2
<1> QED BY <1>3, <1>4

LEMMA AdminInvStep == TypeInv /\ AdminInv /\ [Step]_vars => AdminInv'
<1> SUFFICES ASSUME TypeInv, AdminInv, [Step]_vars,
                    NEW b \in Admins, pc'[b] = "deadSave"
             PROVE  task'[b] \in Administered
  BY DEF AdminInv
<1>0. /\ b \in Actors /\ b \notin Workers
      /\ pc \in [Actors -> Location] /\ task \in [Actors -> Deliveries \cup {None}]
  BY AdminsAssumption DEF TypeInv, TypeOK, Actors
<1>1. CASE pc'[b] = pc[b] /\ task'[b] = task[b]
  BY <1>1 DEF AdminInv
<1>2. ASSUME NEW w \in Workers, TakeJob(w) \/ Handle(w) \/ Crash(w)
      PROVE  pc'[b] = pc[b] /\ task'[b] = task[b]
  BY <1>0, <1>2
     DEF TakeJob, Take, Handle, ProcessorLoad, ProcessorPost, Process, Load,
         MarkInProgress, WriteRow, Post,
         MarkSuccessRead, ReadRow, MarkSuccessSave, MarkFailureRead,
         MarkFailureSave, RecordFailure, Ack, Nack, Crash, Rest, Goto
<1>3. ASSUME NEW a \in Admins, MarkDeadLetterRead(a) PROVE task'[b] \in Administered
  <2>1. CASE a = b
    BY <1>0, <1>3, <2>1 DEF MarkDeadLetterRead
  <2>2. CASE a # b
    BY <1>0, <1>1, <1>3, <2>2 DEF MarkDeadLetterRead, Goto
  <2> QED BY <2>1, <2>2
<1>4. ASSUME NEW a \in Admins, MarkDeadLetterSave(a) PROVE task'[b] \in Administered
  <2>1. CASE a = b
    BY <1>0, <1>4, <2>1 DEF MarkDeadLetterSave, Rest, Goto
  <2>2. CASE a # b
    BY <1>0, <1>1, <1>4, <2>2 DEF MarkDeadLetterSave, Rest, Goto
  <2> QED BY <2>1, <2>2
<1>5. CASE QueueStep \/ UNCHANGED vars
  BY <1>1, <1>5 DEF QueueStep, Backoff, Stall, LockLoss, others, local, vars
<1> QED BY <1>1, <1>2, <1>3, <1>4, <1>5 DEF Step, AdminStep

\* The workers that may still count an attempt grow by starts only.
LEMMA PendingIsStarted ==
    ASSUME TypeInv, AdminInv, [Step]_vars, NEW d \in Unattended
    PROVE  /\ Pending(d)' + Started(d) <= Pending(d) + Started(d)'
           /\ Started(d) <= Started(d)'
<1>0. d \in Deliveries
  BY DEF Unattended
<1>1. /\ Started(d) \in Nat
      /\ Pending(d) \in Nat /\ Pending(d)' \in Nat
  BY <1>0, StartedBound, PendingType DEF TypeInv, TypeOK
<1>2. ASSUME NEW w \in Workers, Handle(w) \/ Crash(w)
      PROVE  /\ Pending(d)' + Started(d) <= Pending(d) + Started(d)'
             /\ Started(d) <= Started(d)'
  BY <1>0, <1>1, <1>2, PendingShrinks
<1>3. ASSUME NEW w \in Workers, TakeJob(w)
      PROVE  /\ Pending(d)' + Started(d) <= Pending(d) + Started(d)'
             /\ Started(d) <= Started(d)'
  <2>1. PICK e \in Deliveries, l \in {"load", "procLoad"} : Take(w, e, l)
    BY <1>3 DEF TakeJob
  <2>2. Started(d)' = IF d = e THEN Started(d) + 1 ELSE Started(d)
    BY <1>0, <2>1, FetchStep DEF Take, TypeInv, TypeOK
  <2>3. OnlyMoves(w) /\ pc'[w] = l /\ task'[w] = e
    BY <2>1 DEF Take, Goto, OnlyMoves, TypeInv, TypeOK, Actors
  <2>4. /\ w \notin Busy(d, Uncounted)
        /\ w \in Busy(d, Uncounted)' <=> d = e
    BY <2>1, <2>3 DEF Take, Busy, Uncounted, BeforePost, AfterAccept
  <2>5. Pending(d)' = Pending(d) - (IF w \in Busy(d, Uncounted) THEN 1 ELSE 0)
                      + (IF w \in Busy(d, Uncounted)' THEN 1 ELSE 0)
    BY <2>3, BusyMove DEF Pending
  <2> QED BY <1>1, <2>2, <2>4, <2>5
<1>4. CASE QueueStep \/ UNCHANGED vars
  <2>1. UNCHANGED local
    BY <1>4 DEF QueueStep, Backoff, Stall, LockLoss, others, vars
  <2>2. Pending(d)' = Pending(d)
    BY <2>1 DEF local, Pending, Busy
  <2>3. Started(d)' = Started(d)
    BY <1>0, <1>4, StartedKept
  <2> QED BY <1>1, <2>2, <2>3
<1>5. CASE AdminStep
  <2>1. Pending(d)' = Pending(d)
    <3>1. Busy(d, Uncounted)' = Busy(d, Uncounted)
      BY <1>5, AdminKeeps DEF Busy
    <3> QED BY <3>1 DEF Pending
  <2>2. Started(d)' = Started(d)
    BY <1>0, <1>5, StartedKept
  <2> QED BY <1>1, <2>1, <2>2
<1> QED BY <1>2, <1>3, <1>4, <1>5 DEF Step

\* What a step may do to a row: leave its count and make no dead letter, or
\* save the copy of a worker, counted once more when it failed.
Untouched(d) ==
    /\ delivery'[d].attemptCount = delivery[d].attemptCount
    /\ delivery'[d].status = "dead_letter" => delivery[d].status = "dead_letter"

SavedSuccess(d, w) ==
    /\ w \in Busy(d, Saving)
    /\ delivery'[d] = Succeeded(copy[w])

SavedFailure(d, w) ==
    /\ w \in Busy(d, Saving)
    /\ delivery'[d] = Failed(copy[w], MaxRetries[d])
    /\ Started(d)' = Started(d)
    /\ Pending(d)' = Pending(d) - 1

LEMMA RowSteps ==
    ASSUME TypeInv, AdminInv, [Step]_vars, NEW d \in Unattended
    PROVE  \/ Untouched(d)
           \/ \E w \in Workers : SavedSuccess(d, w) \/ SavedFailure(d, w)
<1> DEFINE Goal == \/ Untouched(d)
                   \/ \E w \in Workers : SavedSuccess(d, w) \/ SavedFailure(d, w)
<1>0. delivery \in [Deliveries -> Row] /\ d \in Deliveries
  BY DEF TypeInv, TypeOK, Unattended
<1>a. ASSUME NEW w, NEW row, NEW then, NEW otherwise,
             WriteRow(w, row, then, otherwise)
      PROVE  \/ delivery'[d] = delivery[d]
             \/ task[w] = d /\ delivery'[d] = row
  <2>1. delivery' = delivery \/ delivery' = [delivery EXCEPT ![task[w]] = row]
    BY <1>a DEF WriteRow
  <2> QED BY <1>0, <2>1
<1>1. CASE delivery'[d] = delivery[d]
  BY <1>1 DEF Untouched
<1>2. ASSUME NEW w \in Workers, Handle(w) PROVE Goal
  <2>1. CASE MarkInProgress(w)
    <3>1. CASE delivery'[d] = InProgress(delivery[d])
      <4>1. delivery[d] \in Row
        BY <1>0
      <4> QED BY <3>1, <4>1 DEF Untouched, InProgress, Row
    <3>2. delivery'[d] \in {delivery[d], InProgress(delivery[d])}
      BY <1>0, <2>1 DEF MarkInProgress, WriteRow
    <3> QED BY <1>1, <3>1, <3>2
  <2>2. CASE MarkSuccessSave(w)
    <3>1. \/ delivery'[d] = delivery[d]
          \/ task[w] = d /\ delivery'[d] = Succeeded(copy[w])
      BY <1>a, <2>2 DEF MarkSuccessSave
    <3>2. task[w] = d => w \in Busy(d, Saving)
      BY <2>2 DEF MarkSuccessSave, Busy, Saving
    <3> QED BY <1>1, <3>1, <3>2 DEF SavedSuccess
  <2>3. CASE MarkFailureSave(w)
    <3>1. \/ delivery'[d] = delivery[d]
          \/ task[w] = d /\ delivery'[d] = Failed(copy[w], MaxRetries[d])
      <4>1. WriteRow(w, Failed(copy[w], MaxRetries[task[w]]),
                     IF seen[w] >= MaxRetries[task[w]] THEN "record" ELSE "nack",
                     "nack")
        BY <2>3, Zenon DEF MarkFailureSave
      <4>2. \/ delivery'[d] = delivery[d]
            \/ /\ task[w] = d
               /\ delivery'[d] = Failed(copy[w], MaxRetries[task[w]])
        BY <1>a, <4>1, Zenon
      <4> QED BY <4>2, Zenon
    <3>2. ASSUME task[w] = d PROVE w \in Busy(d, Saving) /\ w \in Busy(d, Uncounted)
      BY <2>3, <3>2 DEF MarkFailureSave, Busy, Saving, Uncounted
    <3>3. w \notin Busy(d, Uncounted)'
      <4>1. pc'[w] \in {"nack", "record"}
        BY <2>3 DEF MarkFailureSave, WriteRow, Goto, TypeInv, TypeOK, Actors
      <4> QED BY <4>1 DEF Busy, Uncounted, BeforePost, AfterAccept
    <3> QED BY <1>0, <1>1, <1>2, <3>1, <3>2, <3>3, PendingShrinks DEF SavedFailure
  <2>4. CASE delivery' = delivery
    BY <1>1, <2>4
  <2> QED
    BY <1>2, <2>1, <2>2, <2>3, <2>4
       DEF Handle, ProcessorLoad, ProcessorPost, Process, Load, Post,
           MarkSuccessRead, MarkFailureRead, RecordFailure, Ack, Nack
<1>3. CASE delivery' = delivery
  BY <1>1, <1>3
<1>4. CASE AdminStep
  BY <1>1, <1>4, AdminKeeps
<1> QED
  BY <1>2, <1>3, <1>4
     DEF Step, TakeJob, Take, Crash, QueueStep, Backoff, Stall,
         LockLoss, others, vars

\* A copy that is going to be saved was read from the row just now, or was
\* there before.
LEMMA CopySteps ==
    ASSUME TypeInv, AdminInv, [Step]_vars, NEW d \in Unattended,
           NEW w \in Busy(d, Saving)'
    PROVE  \/ w \in Busy(d, Saving) /\ copy'[w] = copy[w]
           \/ copy'[w] = delivery[d]
<1> DEFINE Goal == \/ w \in Busy(d, Saving) /\ copy'[w] = copy[w]
                   \/ copy'[w] = delivery[d]
<1>0. /\ w \in Workers /\ w \in Actors /\ task'[w] = d /\ pc'[w] \in Saving
      /\ pc \in [Actors -> Location] /\ copy \in [Actors -> Row]
      /\ task \in [Actors -> Deliveries \cup {None}]
      /\ d \in Deliveries
  BY DEF Unattended, Busy, Actors, TypeInv, TypeOK
<1>1. ASSUME pc'[w] = pc[w], task'[w] = task[w], copy'[w] = copy[w] PROVE Goal
  BY <1>0, <1>1 DEF Busy
<1>2. ASSUME NEW v \in Workers, Handle(v) PROVE Goal
  <2>1. CASE v = w
    <3>1. \/ MarkSuccessRead(w) \/ MarkFailureRead(w)
          \/ ~(MarkSuccessRead(w) \/ MarkFailureRead(w))
      OBVIOUS
    <3>2. CASE MarkSuccessRead(w) \/ MarkFailureRead(w)
      BY <1>0, <3>2 DEF MarkSuccessRead, MarkFailureRead, ReadRow, Goto, Saving
    <3>3. CASE ~(MarkSuccessRead(w) \/ MarkFailureRead(w))
      <4>1. pc'[w] \notin Saving
        BY <1>0, <1>2, <2>1, <3>3
           DEF Handle, ProcessorLoad, ProcessorPost, Process, Load,
               MarkInProgress, Post, MarkSuccessSave, MarkFailureSave,
               WriteRow, RecordFailure, Ack, Nack, Rest, Goto, Saving
      <4> QED BY <1>0, <4>1
    <3> QED BY <3>2, <3>3
  <2>2. CASE v # w
    <3>1. pc'[w] = pc[w] /\ task'[w] = task[w]
      BY <1>0, <1>2, <2>2, HandleMoves DEF OnlyMoves
    <3>2. copy'[w] = copy[w]
      BY <1>0, <1>2, <2>2
         DEF Handle, ProcessorLoad, ProcessorPost, Process, Load,
             MarkInProgress, Post, MarkSuccessRead, ReadRow, MarkSuccessSave,
             MarkFailureRead, MarkFailureSave, RecordFailure, Ack, Nack, Rest
    <3> QED BY <1>1, <3>1, <3>2
  <2> QED BY <2>1, <2>2
<1>3. ASSUME NEW v \in Workers, TakeJob(v) PROVE Goal
  <2>1. PICK e \in Deliveries, l \in {"load", "procLoad"} : Take(v, e, l)
    BY <1>3 DEF TakeJob
  <2>2. CASE v = w
    BY <1>0, <2>1, <2>2 DEF Take, Goto, Saving
  <2>3. CASE v # w
    BY <1>0, <1>1, <2>1, <2>3 DEF Take, Goto
  <2> QED BY <2>2, <2>3
<1>4. ASSUME NEW v \in Workers, Crash(v) PROVE Goal
  <2>1. CASE v = w
    BY <1>0, <1>4, <2>1 DEF Crash, Rest, Goto, Saving
  <2>2. CASE v # w
    BY <1>0, <1>1, <1>4, <2>2 DEF Crash, Rest, Goto
  <2> QED BY <2>1, <2>2
<1>5. CASE QueueStep \/ UNCHANGED vars
  <2>1. UNCHANGED local
    BY <1>5 DEF QueueStep, Backoff, Stall, LockLoss, others, vars
  <2> QED BY <1>1, <2>1 DEF local
<1>6. CASE AdminStep
  BY <1>0, <1>1, <1>6, AdminKeeps
<1> QED BY <1>2, <1>3, <1>4, <1>5, <1>6 DEF Step

LEMMA CountInvInit == Init => CountInv
<1> SUFFICES ASSUME Init, NEW d \in Unattended
             PROVE  /\ delivery[d].attemptCount + Pending(d) <= Started(d)
                    /\ Busy(d, Saving) = {}
  BY DEF CountInv
<1>1. Busy(d, Saving) = {} /\ Busy(d, Uncounted) = {}
  BY DEF Init, Busy, Saving, Uncounted, BeforePost, AfterAccept, Actors
<1>2. Pending(d) = 0
  BY <1>1, FS_EmptySet DEF Pending
<1>3. Started(d) = 0 /\ delivery[d].attemptCount = 0
  BY DEF Init, Started, Added, Created, Unattended
<1> QED BY <1>1, <1>2, <1>3

\* CountInv and DeadLetterEarned together are kept by every step.
LEMMA CountInvStep ==
    ASSUME AdminInv, TypeInv, TypeInv', CountInv, DeadLetterEarned,
           [Step]_vars
    PROVE  CountInv' /\ DeadLetterEarned'
<1> SUFFICES ASSUME NEW d \in Unattended
             PROVE  /\ (delivery[d].attemptCount + Pending(d) <= Started(d))'
                    /\ \A w \in Busy(d, Saving)' :
                         copy'[w].attemptCount + Pending(d)' <= Started(d)'
                    /\ delivery'[d].status = "dead_letter"
                         => Started(d)' >= Attempts(d)
  BY DEF CountInv, DeadLetterEarned, Attempts
<1> DEFINE n == Pending(d)
           n1 == Pending(d)'
           s == Started(d)
           s1 == Started(d)'
           c == delivery[d].attemptCount
           c1 == delivery'[d].attemptCount
<1>0. d \in Deliveries
  BY DEF Unattended
<1>1. n \in Nat /\ n1 \in Nat /\ s \in Nat /\ s1 \in Nat
  <2>1. n \in Nat /\ n1 \in Nat
    BY PendingType
  <2>2. s \in Nat /\ s1 \in Nat
    BY <1>0 DEF TypeInv, TypeOK, Started, Job
  <2> QED BY <2>1, <2>2
<1>2. c \in Nat /\ c1 \in Nat
  BY <1>0 DEF TypeInv, TypeOK, Row
<1>3. n1 + s <= n + s1 /\ s <= s1
  BY PendingIsStarted
<1>4. c + n <= s
  BY DEF CountInv
<1>5. ASSUME NEW w \in Busy(d, Saving)
      PROVE  copy[w] \in Row /\ copy[w].attemptCount \in Nat
             /\ copy[w].attemptCount + n <= s
  BY DEF CountInv, Busy, TypeInv, TypeOK, Actors, Row
<1>6. Attempts(d) \in Nat /\ MaxRetries[d] \in Nat
        /\ Attempts(d) = IF MaxRetries[d] = 0 THEN 1 ELSE MaxRetries[d]
  BY <1>0, AttemptsType, RetriesAssumption DEF Attempts
<1>7. delivery[d].status = "dead_letter" => s >= Attempts(d)
  BY DEF DeadLetterEarned
<1> HIDE DEF n, n1, s, s1
<1>8. c1 + n1 <= s1 /\ (delivery'[d].status = "dead_letter" => s1 >= Attempts(d))
  <2>1. CASE Untouched(d)
    BY <1>1, <1>2, <1>3, <1>4, <1>6, <1>7, <2>1 DEF Untouched
  <2>2. ASSUME NEW w \in Workers, SavedSuccess(d, w)
        PROVE  c1 + n1 <= s1 /\ delivery'[d].status # "dead_letter"
    <3>1. c1 = copy[w].attemptCount /\ delivery'[d].status = "success"
      BY <1>5, <2>2 DEF SavedSuccess, Succeeded, Row
    <3> QED BY <1>1, <1>2, <1>3, <1>5, <2>2, <3>1 DEF SavedSuccess
  <2>3. ASSUME NEW w \in Workers, SavedFailure(d, w)
        PROVE  c1 + n1 <= s1
               /\ (delivery'[d].status = "dead_letter" => s1 >= Attempts(d))
    <3>1. /\ c1 = copy[w].attemptCount + 1
          /\ delivery'[d].status = "dead_letter" => c1 >= MaxRetries[d]
      BY <1>5, <2>3 DEF SavedFailure, Failed
    <3>2. s1 = s /\ n1 = n - 1 /\ copy[w].attemptCount + n <= s
            /\ copy[w].attemptCount \in Nat
      BY <1>5, <2>3 DEF SavedFailure, n, n1, s, s1
    <3> QED BY <1>1, <1>2, <1>6, <3>1, <3>2
  <2> QED BY <2>1, <2>2, <2>3, RowSteps
<1>9. ASSUME NEW w \in Busy(d, Saving)'
      PROVE  copy'[w].attemptCount + n1 <= s1
  <2>1. CASE w \in Busy(d, Saving) /\ copy'[w] = copy[w]
    BY <1>1, <1>3, <1>5, <2>1
  <2>2. CASE copy'[w] = delivery[d]
    BY <1>1, <1>2, <1>3, <1>4, <2>2
  <2> QED BY <2>1, <2>2, CopySteps
<1> QED BY <1>8, <1>9 DEF n1, s1

LEMMA CountInvHolds == Spec \/ ProcessorSpec => [](CountInv /\ DeadLetterEarned)
<1> DEFINE Inv == TypeInv /\ AdminInv /\ CountInv /\ DeadLetterEarned
<1>1. Init => Inv
  <2>1. Init => DeadLetterEarned
    BY DEF Init, DeadLetterEarned, Created, Unattended
  <2>2. Init => AdminInv
    BY DEF Init, AdminInv, Actors
  <2> QED BY <2>1, <2>2, TypeInvInit, CountInvInit
<1>2. Inv /\ [Step]_vars => Inv'
  BY TypeInvStep, AdminInvStep, CountInvStep
<1>3. Inv => CountInv /\ DeadLetterEarned
  OBVIOUS
<1> QED BY <1>1, <1>2, <1>3, BothStep, PTL

\* DeadLetterEarned: a row that no administrator touches becomes a dead letter
\* only after the job was started as often as the destination allows attempts.
THEOREM DeadLettersEarned == Spec \/ ProcessorSpec => []DeadLetterEarned
  BY CountInvHolds, PTL

-----------------------------------------------------------------------------
(* While locks hold.                                                       *)

LocksHold == "lockLoss" \notin Env

\* A worker that runs a handler holds the lock of its job.
HeldInv ==
    \A w \in Workers :
      pc[w] # "idle" => job[task[w]].state = "active" /\ job[task[w]].owner = w

\* So two workers never handle one delivery, and a step of one leaves the
\* delivery of the other alone.
LEMMA HandledAlone ==
    ASSUME TypeInv, HeldInv, NEW v \in Workers, Handle(v),
           NEW w \in Workers, w # v, pc[w] # "idle"
    PROVE  /\ task[w] \in Deliveries /\ task[v] \in Deliveries /\ task[w] # task[v]
           /\ pc'[w] = pc[w] /\ task'[w] = task[w]
           /\ copy'[w] = copy[w] /\ seen'[w] = seen[w]
           /\ delivery'[task[w]] = delivery[task[w]]
           /\ job'[task[w]] = job[task[w]]
<1>1. pc[v] # "idle"
  BY DEF Handle, ProcessorLoad, ProcessorPost, Process, Load, MarkInProgress,
         Post, MarkSuccessRead, MarkSuccessSave, MarkFailureRead,
         MarkFailureSave, RecordFailure, Ack, Nack
<1>2. task[w] \in Deliveries /\ task[v] \in Deliveries
  BY <1>1, BusyHasTask DEF TypeInv, Actors
<1>3. task[w] # task[v]
  BY <1>1 DEF HeldInv
<1>4. pc'[w] = pc[w] /\ task'[w] = task[w]
  BY HandleMoves DEF OnlyMoves
<1>5. copy'[w] = copy[w] /\ seen'[w] = seen[w]
  BY DEF Handle, ProcessorLoad, ProcessorPost, Process, Load, MarkInProgress,
         Post, MarkSuccessRead, MarkSuccessSave, MarkFailureRead,
         MarkFailureSave, RecordFailure, Ack, Nack, ReadRow, Rest, TypeInv,
         TypeOK, Actors
<1>6. delivery'[task[w]] = delivery[task[w]]
  BY <1>2, <1>3
     DEF Handle, ProcessorLoad, ProcessorPost, Process, Load, MarkInProgress,
         Post, MarkSuccessRead, MarkSuccessSave, MarkFailureRead,
         MarkFailureSave, RecordFailure, Ack, Nack, WriteRow, TypeInv, TypeOK
<1>7. job'[task[w]] = job[task[w]]
  <2>1. CASE Ack(v) \/ Nack(v)
    BY <1>2, <1>3, <2>1 DEF Ack, Nack, JobCompleted, JobFailed, TypeInv, TypeOK
  <2>2. CASE ~(Ack(v) \/ Nack(v))
    BY <2>2 DEF Handle, ProcessorLoad, ProcessorPost, Process, Load,
                MarkInProgress, Post, MarkSuccessRead, MarkSuccessSave,
                MarkFailureRead, MarkFailureSave, RecordFailure
  <2> QED BY <2>1, <2>2
<1> QED BY <1>2, <1>3, <1>4, <1>5, <1>6, <1>7

\* A job nobody holds is none of the running workers'.
LEMMA NobodyHolds ==
    ASSUME HeldInv, NEW d \in Deliveries,
           job[d].state # "active" \/ job[d].owner \notin Workers,
           NEW w \in Workers, pc[w] # "idle"
    PROVE  task[w] # d
BY DEF HeldInv

LEMMA HeldInvStep ==
    ASSUME LocksHold, TypeInv, AdminInv, HeldInv, [Step]_vars
    PROVE  HeldInv'
<1> SUFFICES ASSUME NEW w \in Workers, pc'[w] # "idle"
             PROVE  job'[task'[w]].state = "active" /\ job'[task'[w]].owner = w
  BY DEF HeldInv
<1>0. job \in [Deliveries -> Job] /\ pc \in [Actors -> Location] /\ w \in Actors
        /\ task \in [Actors -> Deliveries \cup {None}]
  BY DEF TypeInv, TypeOK, Actors
<1>1. CASE UNCHANGED <<job, pc, task>>
  BY <1>1 DEF HeldInv
<1>2. ASSUME NEW v \in Workers, TakeJob(v)
      PROVE  job'[task'[w]].state = "active" /\ job'[task'[w]].owner = w
  <2>1. PICK d \in Deliveries, l \in {"load", "procLoad"} : Take(v, d, l)
    BY <1>2 DEF TakeJob
  <2>2. /\ job[d].state = "waiting" /\ v \in Actors
        /\ job' = [job EXCEPT ![d] = [job[d] EXCEPT !.state = "active", !.owner = v]]
        /\ pc' = [pc EXCEPT ![v] = l] /\ task' = [task EXCEPT ![v] = d]
    BY <2>1 DEF Take, JobFetched, Goto, Actors
  <2>3. job[d] \in Job
    BY <1>0
  <2>4. CASE w = v
    BY <1>0, <2>2, <2>3, <2>4 DEF Job
  <2>5. CASE w # v
    <3>1. pc[w] # "idle" /\ task'[w] = task[w]
      BY <1>0, <2>2, <2>5
    <3>2. task[w] # d
      BY <2>2, <3>1, NobodyHolds
    <3>3. job'[task[w]] = job[task[w]]
      BY <1>0, <2>2, <3>1, <3>2, BusyHasTask DEF TypeInv
    <3> QED BY <3>1, <3>3 DEF HeldInv
  <2> QED BY <2>4, <2>5
<1>3. ASSUME NEW v \in Workers, Handle(v) \/ Crash(v)
      PROVE  job'[task'[w]].state = "active" /\ job'[task'[w]].owner = w
  <2>1. CASE w # v /\ Handle(v)
    <3>1. pc[w] # "idle"
      BY <2>1, HandleMoves DEF OnlyMoves
    <3> QED BY <2>1, <3>1, HandledAlone DEF HeldInv
  <2>2. CASE w # v /\ Crash(v)
    <3>1. pc[w] # "idle" /\ task'[w] = task[w] /\ task[v] \in Deliveries
            /\ task[w] \in Deliveries
      BY <1>0, <2>2, RestMoves, BusyHasTask DEF OnlyMoves, Crash, TypeInv, Actors
    <3>2. task[w] # task[v]
      BY <2>2, <3>1 DEF Crash, HeldInv
    <3>3. job'[task[w]] = job[task[w]]
      BY <1>0, <2>2, <3>1, <3>2 DEF Crash, JobAbandoned
    <3> QED BY <3>1, <3>3 DEF HeldInv
  <2>3. CASE w = v
    <3>1. ~(Ack(v) \/ Nack(v) \/ Crash(v))
      BY <1>0, <2>3 DEF Ack, Nack, Crash, Rest, Goto
    <3>2. UNCHANGED <<job, task>> /\ pc[v] # "idle"
      BY <1>3, <3>1
         DEF Handle, ProcessorLoad, ProcessorPost, Process, Load,
             MarkInProgress, Post, MarkSuccessRead, MarkSuccessSave,
             MarkFailureRead, MarkFailureSave, RecordFailure
    <3> QED BY <2>3, <3>2 DEF HeldInv
  <2> QED BY <1>3, <2>1, <2>2, <2>3
<1>4. CASE QueueStep
  <2>1. PICK d \in Deliveries : Backoff(d) \/ Stall(d)
    BY <1>4 DEF QueueStep, LockLoss, LocksHold
  <2>2. UNCHANGED <<pc, task>> /\ \A e \in Deliveries \ {d} : job'[e] = job[e]
    BY <1>0, <2>1
       DEF Backoff, Stall, JobBackoffOver, JobStalled, others, local
  <2>3. job[d].state # "active" \/ job[d].owner \notin Workers
    BY <2>1, NoneAssumption DEF Backoff, Stall, JobBackoffOver, JobStalled
  <2>4. task[w] # d /\ task[w] \in Deliveries
    BY <1>0, <2>2, <2>3, NobodyHolds, BusyHasTask DEF TypeInv
  <2> QED BY <2>2, <2>4 DEF HeldInv
<1>5. CASE AdminStep
  <2>1. UNCHANGED job
    BY <1>5 DEF AdminStep, MarkDeadLetterRead, MarkDeadLetterSave
  <2> QED BY <1>5, <2>1, AdminKeeps DEF HeldInv
<1>6. CASE UNCHANGED vars
  BY <1>1, <1>6 DEF vars, local
<1> QED BY <1>2, <1>3, <1>4, <1>5, <1>6 DEF Step

\* The locations at which seen was read in this run, before the failure is
\* counted.
Counting == {"mark", "post", "succRead", "succSave", "failRead", "failSave"}

\* What worker w knows of its delivery, which nobody else writes.
KnownBy(w) ==
    LET row == delivery[task[w]]
    IN  /\ pc[w] \in Saving   => copy[w] = row
        /\ pc[w] \in Counting => seen[w] <= row.attemptCount
        /\ pc[w] = "record"   => row.attemptCount > MaxRetries[task[w]]
        /\ pc[w] = "ack"      => row.status = "success"

KnownInv == \A w \in Workers : task[w] \in Unattended => KnownBy(w)

\* An event failure is recorded only beyond the row's budget.
FailureInv ==
    \A d \in Unattended :
      eventFailures[d] > 0 => delivery[d].attemptCount > MaxRetries[d]

\* Every step of a worker keeps what it knows, and no save lowers a count.
LEMMA OwnStep ==
    ASSUME TypeInv, KnownInv, NEW w \in Workers, Handle(w), task[w] \in Unattended
    PROVE  /\ task'[w] = task[w] => KnownBy(w)'
           /\ delivery'[task[w]].attemptCount >= delivery[task[w]].attemptCount
<1> DEFINE d == task[w]
<1>1. /\ w \in Actors /\ d \in Deliveries /\ MaxRetries[d] \in Nat
      /\ pc \in [Actors -> Location] /\ delivery \in [Deliveries -> Row]
      /\ copy \in [Actors -> Row] /\ seen \in [Actors -> Nat]
      /\ KnownBy(w)
  BY RetriesAssumption DEF Unattended, Actors, TypeInv, TypeOK, KnownInv
<1>2. delivery[d] \in Row /\ delivery[d].attemptCount \in Nat /\ seen[w] \in Nat
  BY <1>1 DEF Row
<1> USE DEF Goto, Counting, Saving
<1> HIDE DEF d
<1>3. CASE Load(w)
  <2>1. /\ UNCHANGED <<delivery, task, copy>> /\ pc'[w] \in {"mark", "nack"}
        /\ pc'[w] = "mark" => seen'[w] = delivery[d].attemptCount
    BY <1>1, <1>3 DEF Load, d
  <2> QED BY <1>1, <1>2, <2>1 DEF KnownBy, d
<1>4. CASE MarkInProgress(w)
  <2>1. /\ UNCHANGED <<task, seen, copy>> /\ pc[w] = "mark"
        /\ pc'[w] \in {"post", "failRead"}
        /\ delivery'[d] = delivery[d] \/ delivery'[d] = InProgress(delivery[d])
    BY <1>1, <1>4 DEF MarkInProgress, WriteRow, d
  <2>2. delivery'[d].attemptCount = delivery[d].attemptCount
    BY <1>2, <2>1 DEF InProgress, Row
  <2> QED BY <1>1, <1>2, <2>1, <2>2 DEF KnownBy, d
<1>5. CASE Post(w)
  <2>1. /\ UNCHANGED <<delivery, task, seen, copy>> /\ pc[w] = "post"
        /\ pc'[w] \in {"succRead", "failRead"}
    BY <1>1, <1>5 DEF Post
  <2> QED BY <1>1, <1>2, <2>1 DEF KnownBy, d
<1>6. CASE MarkSuccessRead(w) \/ MarkFailureRead(w)
  <2>1. /\ UNCHANGED <<delivery, task, seen>> /\ pc[w] \in {"succRead", "failRead"}
        /\ pc'[w] \in {"succSave", "failSave", "failRead", "nack"}
        /\ pc'[w] \in Saving => copy'[w] = delivery[d]
    BY <1>1, <1>6 DEF MarkSuccessRead, MarkFailureRead, ReadRow, d
  <2> QED BY <1>1, <1>2, <2>1 DEF KnownBy, d
<1>7. CASE MarkSuccessSave(w)
  <2>1. /\ UNCHANGED <<task, seen, copy>> /\ pc[w] = "succSave"
        /\ pc'[w] \in {"ack", "failRead"}
        /\ delivery'[d] = delivery[d] \/ delivery'[d] = Succeeded(copy[w])
        /\ pc'[w] = "ack" => delivery'[d] = Succeeded(copy[w])
    BY <1>1, <1>7 DEF MarkSuccessSave, WriteRow, d
  <2>2. copy[w] = delivery[d] /\ seen[w] <= delivery[d].attemptCount
    BY <1>1, <2>1 DEF KnownBy, d
  <2>3. /\ delivery'[d].attemptCount = delivery[d].attemptCount
        /\ pc'[w] = "ack" => delivery'[d].status = "success"
    BY <1>2, <2>1, <2>2 DEF Succeeded, Row
  <2> QED BY <1>1, <1>2, <2>1, <2>2, <2>3 DEF KnownBy, d
<1>8. CASE MarkFailureSave(w)
  <2>1. /\ UNCHANGED <<task, seen, copy>> /\ pc[w] = "failSave"
        /\ pc'[w] \in {"record", "nack"}
        /\ \/ delivery'[d] = delivery[d]
           \/ delivery'[d] = Failed(copy[w], MaxRetries[d])
        /\ pc'[w] = "record" => /\ seen[w] >= MaxRetries[d]
                                /\ delivery'[d] = Failed(copy[w], MaxRetries[d])
    BY <1>1, <1>8 DEF MarkFailureSave, WriteRow, d
  <2>2. copy[w] = delivery[d] /\ seen[w] <= delivery[d].attemptCount
    BY <1>1, <2>1 DEF KnownBy, d
  <2>3. Failed(copy[w], MaxRetries[d]).attemptCount = delivery[d].attemptCount + 1
    BY <2>2 DEF Failed
  <2>4. /\ delivery'[d].attemptCount >= delivery[d].attemptCount
        /\ pc'[w] = "record" => delivery'[d].attemptCount > MaxRetries[d]
    BY <1>1, <1>2, <2>1, <2>2, <2>3
  <2> QED BY <1>1, <2>1, <2>4 DEF KnownBy, d
<1>9. CASE RecordFailure(w) \/ Ack(w) \/ Nack(w)
  <2>1. UNCHANGED delivery /\ (pc'[w] = "nack" \/ task'[w] = None)
    BY <1>1, <1>9 DEF RecordFailure, Ack, Nack, Rest, TypeInv, TypeOK
  <2> QED BY <1>1, <1>2, <2>1, NoneAssumption DEF KnownBy, d
<1>10. CASE ProcessorLoad(w) \/ ProcessorPost(w)
  <2>1. /\ UNCHANGED delivery /\ pc'[w] \in {"ack", "nack", "procPost"}
        /\ pc'[w] = "ack" => delivery[d].status = "success"
    BY <1>1, <1>10 DEF ProcessorLoad, ProcessorPost, d
  <2> QED BY <1>1, <1>2, <2>1 DEF KnownBy, d
<1> QED
  BY <1>3, <1>4, <1>5, <1>6, <1>7, <1>8, <1>9, <1>10 DEF Handle, Process, d

\* What every step does to an unattended row while locks hold: a worker's own
\* step writes it, or it stays.
LEMMA RowKept ==
    ASSUME TypeInv, AdminInv, [Step]_vars, NEW d \in Unattended,
           \A w \in Workers : Handle(w) => task[w] # d
    PROVE  delivery'[d] = delivery[d] /\ eventFailures'[d] = eventFailures[d]
<1>0. d \in Deliveries /\ delivery \in [Deliveries -> Row]
        /\ eventFailures \in [Deliveries -> Nat]
  BY DEF Unattended, TypeInv, TypeOK
<1>1. ASSUME NEW w \in Workers, Handle(w)
      PROVE  delivery'[d] = delivery[d] /\ eventFailures'[d] = eventFailures[d]
  <2>1. task[w] # d
    BY <1>1
  <2> QED BY <1>0, <1>1, <2>1
             DEF Handle, ProcessorLoad, ProcessorPost, Process, Load,
                 MarkInProgress, Post, MarkSuccessRead, MarkSuccessSave,
                 MarkFailureRead, MarkFailureSave, RecordFailure, Ack, Nack,
                 WriteRow
<1>2. CASE AdminStep
  BY <1>2, AdminKeeps DEF AdminStep, MarkDeadLetterRead, MarkDeadLetterSave
<1>3. CASE ~AdminStep /\ ~\E w \in Workers : Handle(w)
  BY <1>3 DEF Step, TakeJob, Take, Crash, QueueStep, Backoff, Stall, LockLoss,
              others, vars
<1> QED BY <1>1, <1>2, <1>3

LEMMA KnownInvStep ==
    ASSUME TypeInv, AdminInv, HeldInv, KnownInv, [Step]_vars
    PROVE  KnownInv'
<1> SUFFICES ASSUME NEW w \in Workers, task'[w] \in Unattended
             PROVE  KnownBy(w)'
  BY DEF KnownInv, Unattended
<1> USE DEF Counting, Saving
<1>0. /\ w \in Actors /\ task'[w] \in Deliveries /\ task'[w] # None
      /\ pc \in [Actors -> Location] /\ task \in [Actors -> Deliveries \cup {None}]
  BY NoneAssumption DEF Unattended, Actors, TypeInv, TypeOK
<1>1. ASSUME NEW v \in Workers, Handle(v) PROVE KnownBy(w)'
  <2>1. CASE w = v
    <3>1. task'[w] = task[w]
      BY <1>0, <1>1, <2>1, HandleMoves
    <3> QED BY <1>1, <2>1, <3>1, OwnStep
  <2>2. CASE w # v
    <3>1. task'[w] = task[w] /\ pc'[w] = pc[w]
      BY <1>1, <2>2, HandleMoves DEF OnlyMoves
    <3>2. pc[w] # "idle"
      BY <1>0, <3>1 DEF TypeInv, TypeOK
    <3>3. /\ copy'[w] = copy[w] /\ seen'[w] = seen[w]
          /\ delivery'[task[w]] = delivery[task[w]]
      BY <1>1, <2>2, <3>2, HandledAlone
    <3> QED BY <3>1, <3>3 DEF KnownInv, KnownBy
  <2> QED BY <2>1, <2>2
<1>2. ASSUME ~\E v \in Workers : Handle(v) PROVE KnownBy(w)'
  <2>1. \/ pc'[w] \in {"load", "procLoad"}
        \/ /\ task'[w] = task[w] /\ pc'[w] = pc[w]
           /\ copy'[w] = copy[w] /\ seen'[w] = seen[w]
    <3>1. ASSUME NEW v \in Workers, TakeJob(v) \/ Crash(v)
          PROVE  \/ pc'[w] \in {"load", "procLoad"}
                 \/ /\ task'[w] = task[w] /\ pc'[w] = pc[w]
                    /\ copy'[w] = copy[w] /\ seen'[w] = seen[w]
      <4>1. CASE w = v /\ Crash(v)
        BY <1>0, <4>1 DEF Crash, Rest
      <4>2. CASE ~(w = v /\ Crash(v))
        BY <1>0, <3>1, <4>2
           DEF TakeJob, Take, Crash, Rest, Goto, TypeInv, TypeOK, Actors
      <4> QED BY <4>1, <4>2
    <3>2. CASE QueueStep \/ UNCHANGED vars
      BY <3>2 DEF QueueStep, Backoff, Stall, LockLoss, others, local, vars
    <3>3. CASE AdminStep
      <4>1. seen'[w] = seen[w]
        BY <3>3, AdminsAssumption
           DEF AdminStep, MarkDeadLetterRead, MarkDeadLetterSave, Rest, TypeInv,
               TypeOK, Actors
      <4> QED BY <3>3, <4>1, AdminKeeps
    <3> QED BY <1>2, <3>1, <3>2, <3>3 DEF Step
  <2>2. CASE pc'[w] \in {"load", "procLoad"}
    BY <2>2 DEF KnownBy
  <2>3. CASE pc'[w] \notin {"load", "procLoad"}
    <3>1. delivery'[task[w]] = delivery[task[w]] /\ task'[w] = task[w]
      BY <1>2, <2>1, <2>3, RowKept
    <3> QED BY <2>1, <2>3, <3>1 DEF KnownInv, KnownBy
  <2> QED BY <2>2, <2>3
<1> QED BY <1>1, <1>2

LEMMA CountsRise ==
    ASSUME TypeInv, AdminInv, KnownInv, [Step]_vars, NEW d \in Unattended
    PROVE  delivery'[d].attemptCount >= delivery[d].attemptCount
<1>1. delivery[d].attemptCount \in Nat
  BY DEF Unattended, TypeInv, TypeOK, Row
<1>2. CASE \A w \in Workers : Handle(w) => task[w] # d
  BY <1>1, <1>2, RowKept
<1>3. ASSUME NEW w \in Workers, Handle(w), task[w] = d
      PROVE  delivery'[d].attemptCount >= delivery[d].attemptCount
  BY <1>3, OwnStep
<1> QED BY <1>2, <1>3

LEMMA FailureInvStep ==
    ASSUME TypeInv, TypeInv', AdminInv, KnownInv, FailureInv, [Step]_vars
    PROVE  FailureInv'
<1> SUFFICES ASSUME NEW d \in Unattended, eventFailures'[d] > 0
             PROVE  delivery'[d].attemptCount > MaxRetries[d]
  BY DEF FailureInv, Unattended
<1>1. /\ d \in Deliveries /\ MaxRetries[d] \in Nat
      /\ delivery[d].attemptCount \in Nat /\ delivery'[d].attemptCount \in Nat
  BY RetriesAssumption DEF Unattended, TypeInv, TypeOK, Row
<1>2. CASE eventFailures'[d] = eventFailures[d]
  BY <1>1, <1>2, CountsRise DEF FailureInv
<1>3. CASE eventFailures'[d] # eventFailures[d]
  <2>1. PICK w \in Workers : Handle(w) /\ task[w] = d
    BY <1>3, RowKept
  <2>2. RecordFailure(w)
    BY <1>3, <2>1
       DEF Handle, ProcessorLoad, ProcessorPost, Process, Load, MarkInProgress,
           Post, MarkSuccessRead, MarkSuccessSave, MarkFailureRead,
           MarkFailureSave, Ack, Nack
  <2>3. delivery[d].attemptCount > MaxRetries[d]
    BY <2>1, <2>2 DEF RecordFailure, KnownInv, KnownBy
  <2> QED BY <1>1, <2>3, CountsRise
<1> QED BY <1>2, <1>3

\* Neither a failure nor a timer completes a job.
LEMMA OnlyAckCompletes ==
    ASSUME job \in [Deliveries -> Job], NEW d \in Deliveries, NEW e \in Deliveries,
           \/ \E w \in Workers : JobFailed(w, e)
           \/ JobBackoffOver(e) \/ JobStalled(e) \/ JobLockLost(e),
           job'[d].state = "completed"
    PROVE  job[d].state = "completed"
<1>1. ASSUME NEW row, job' = [job EXCEPT ![e] = row],
             row.state = "completed" => job[e].state = "completed"
      PROVE  job[d].state = "completed"
  BY <1>1
<1>2. ASSUME NEW w \in Workers, JobFailed(w, e) PROVE job[d].state = "completed"
  <2>1. CASE job' = job
    BY <2>1
  <2>2. CASE job[e].owner = w
    <3> DEFINE s == IF job[e].attemptsMade + 1 < Attempts(e) THEN "delayed" ELSE "failed"
               row == [job[e] EXCEPT !.state = s, !.owner = None, !.attemptsMade = @ + 1]
    <3>1. s # "completed" /\ job[e] \in Job
      OBVIOUS
    <3>2. job' = [job EXCEPT ![e] = row]
      BY <1>2, <2>2 DEF JobFailed
    <3> HIDE DEF s
    <3>3. row.state # "completed"
      BY <3>1 DEF Job
    <3> HIDE DEF row
    <3> QED BY <1>1, <3>2, <3>3
  <2> QED BY <1>2, <2>1, <2>2 DEF JobFailed
<1>3. CASE JobBackoffOver(e)
  BY <1>3 DEF JobBackoffOver, Job
<1>4. CASE JobStalled(e)
  <2> DEFINE s == IF job[e].stalledCounter + 1 > MaxStalledCount THEN "failed" ELSE "waiting"
             row == [job[e] EXCEPT !.state = s, !.stalledCounter = @ + 1]
  <2>1. s # "completed" /\ job[e] \in Job
    OBVIOUS
  <2>2. job' = [job EXCEPT ![e] = row]
    BY <1>4 DEF JobStalled
  <2> HIDE DEF s
  <2>3. row.state # "completed"
    BY <2>1 DEF Job
  <2> HIDE DEF row
  <2> QED BY <1>1, <2>2, <2>3
<1>5. CASE JobLockLost(e)
  BY <1>5 DEF JobLockLost, Job
<1> QED BY <1>2, <1>3, <1>4, <1>5

\* A job that is over has no worker that could write its row.
LEMMA CompletedStep ==
    ASSUME TypeInv, AdminInv, HeldInv, KnownInv, CompletedMeansDelivered, [Step]_vars
    PROVE  CompletedMeansDelivered'
<1> SUFFICES ASSUME NEW d \in Unattended, job'[d].state = "completed"
             PROVE  delivery'[d].status = "success"
  BY DEF CompletedMeansDelivered, Unattended
<1>0. d \in Deliveries /\ job \in [Deliveries -> Job]
  BY DEF Unattended, TypeInv, TypeOK
<1>1. CASE job[d].state = "completed"
  <2>1. \A w \in Workers : Handle(w) => task[w] # d
    <3>1. \A w \in Workers : Handle(w) => pc[w] # "idle"
      BY DEF Handle, ProcessorLoad, ProcessorPost, Process, Load,
             MarkInProgress, Post, MarkSuccessRead, MarkSuccessSave,
             MarkFailureRead, MarkFailureSave, RecordFailure, Ack, Nack
    <3> QED BY <1>0, <1>1, <3>1, NobodyHolds
  <2> QED BY <1>1, <2>1, RowKept DEF CompletedMeansDelivered
<1>2. CASE job[d].state # "completed"
  <2>1. PICK w \in Workers : Ack(w) /\ task[w] = d
    <3>1. ASSUME NEW w \in Workers, Handle(w), ~Ack(w) PROVE FALSE
      <4>1. CASE Nack(w)
        <5>1. JobFailed(w, task[w]) /\ task[w] \in Deliveries
          BY <4>1, BusyHasTask DEF Nack, TypeInv, Actors
        <5> QED BY <1>0, <1>2, <5>1, OnlyAckCompletes
      <4>2. CASE ~Nack(w)
        BY <1>2, <3>1, <4>2
           DEF Handle, ProcessorLoad, ProcessorPost, Process, Load,
               MarkInProgress, Post, MarkSuccessRead, MarkSuccessSave,
               MarkFailureRead, MarkFailureSave, RecordFailure
      <4> QED BY <4>1, <4>2
    <3>2. ASSUME NEW w \in Workers, Ack(w), task[w] # d PROVE FALSE
      BY <1>0, <1>2, <3>2 DEF Ack, JobCompleted
    <3>3. ASSUME NEW w \in Workers, TakeJob(w) \/ Crash(w) PROVE FALSE
      <4>1. CASE TakeJob(w)
        <5>1. PICK e \in Deliveries : JobFetched(w, e)
          BY <4>1 DEF TakeJob, Take
        <5> QED BY <1>0, <1>2, <5>1 DEF JobFetched
      <4>2. CASE Crash(w)
        BY <1>0, <1>2, <4>2 DEF Crash, JobAbandoned
      <4> QED BY <3>3, <4>1, <4>2
    <3>4. CASE QueueStep
      <4>1. PICK e \in Deliveries : JobBackoffOver(e) \/ JobStalled(e) \/ JobLockLost(e)
        BY <3>4 DEF QueueStep, Backoff, Stall, LockLoss
      <4> QED BY <1>0, <1>2, <4>1, OnlyAckCompletes
    <3>5. CASE AdminStep \/ UNCHANGED vars
      BY <1>2, <3>5 DEF AdminStep, MarkDeadLetterRead, MarkDeadLetterSave, vars
    <3> QED BY <3>1, <3>2, <3>3, <3>4, <3>5 DEF Step
  <2> QED BY <2>1 DEF Ack, KnownInv, KnownBy
<1> QED BY <1>1, <1>2

LockInv == TypeInv /\ AdminInv /\ HeldInv /\ KnownInv /\ FailureInv
             /\ CompletedMeansDelivered

LEMMA LockInvHolds == ASSUME LocksHold PROVE Spec \/ ProcessorSpec => []LockInv
<1>1. Init => LockInv
  <2>1. Init => AdminInv /\ HeldInv
    BY DEF Init, AdminInv, HeldInv, Actors
  <2>2. Init => KnownInv
    BY NoneAssumption DEF Init, KnownInv, Unattended, Actors
  <2>3. Init => FailureInv /\ CompletedMeansDelivered
    BY DEF Init, FailureInv, CompletedMeansDelivered, Unattended, Added
  <2> QED BY <2>1, <2>2, <2>3, TypeInvInit DEF LockInv
<1>2. LockInv /\ [Step]_vars => LockInv'
  BY TypeInvStep, AdminInvStep, HeldInvStep, KnownInvStep, FailureInvStep, CompletedStep
     DEF LockInv
<1> QED BY <1>1, <1>2, BothStep, PTL

\* While locks hold, the row of a completed job says SUCCESS: from
\* markSuccess to the end of the job no other worker can reach the row.
THEOREM CompletedDelivered ==
    ASSUME LocksHold
    PROVE  Spec \/ ProcessorSpec => []CompletedMeansDelivered
<1>1. LockInv => CompletedMeansDelivered
  BY DEF LockInv
<1> QED BY <1>1, LockInvHolds, PTL

\* While locks hold, attemptCount never falls: the copy a mark... method
\* saves is the row as it still is.
THEOREM CountsNeverDrop ==
    ASSUME LocksHold
    PROVE  Spec \/ ProcessorSpec => AttemptCountNeverDrops
<1>1. LockInv /\ [Step]_vars =>
        [\A d \in Unattended :
           delivery'[d].attemptCount >= delivery[d].attemptCount]_vars
  BY CountsRise DEF LockInv
<1> QED BY <1>1, LockInvHolds, BothStep, PTL DEF AttemptCountNeverDrops

\* While locks hold, an event failure is recorded only for a row that counts,
\* and a job that was started, more often than maxRetries: never by the
\* attempt that makes the delivery a dead letter.
THEOREM FailuresBeyondBudget ==
    ASSUME LocksHold
    PROVE  Spec \/ ProcessorSpec => []EventFailureBeyondBudget
<1>1. LockInv /\ CountInv => EventFailureBeyondBudget
  <2> SUFFICES ASSUME LockInv, CountInv, NEW d \in Unattended, eventFailures[d] > 0
               PROVE  delivery[d].attemptCount > MaxRetries[d] /\ Started(d) > MaxRetries[d]
    BY DEF EventFailureBeyondBudget
  <2>1. delivery[d].attemptCount > MaxRetries[d]
    BY DEF LockInv, FailureInv
  <2>2. delivery[d].attemptCount + Pending(d) <= Started(d)
    BY DEF CountInv
  <2>3. /\ delivery[d].attemptCount \in Nat /\ Pending(d) \in Nat
        /\ MaxRetries[d] \in Nat /\ Started(d) \in Nat
    BY PendingType, RetriesAssumption
       DEF LockInv, TypeInv, TypeOK, Row, Job, Started, Unattended
  <2> QED BY <2>1, <2>2, <2>3
<1> QED BY <1>1, LockInvHolds, CountInvHolds, PTL

\* A processor that is about to send holds a row that does not say SUCCESS.
HonourInv ==
    \A w \in Workers : pc[w] = "procPost" => delivery[task[w]].status # "success"

LEMMA HonourInvStep ==
    ASSUME LockInv, HonourInv, [Step]_vars
    PROVE  HonourInv'
<1> SUFFICES ASSUME NEW w \in Workers, pc'[w] = "procPost",
                    delivery'[task'[w]].status = "success"
             PROVE  FALSE
  BY DEF HonourInv
<1>0. TypeInv /\ HeldInv /\ w \in Actors /\ pc \in [Actors -> Location]
  BY DEF LockInv, TypeInv, TypeOK, Actors
<1>1. CASE pc[w] = "procPost" /\ task'[w] = task[w]
  <2>1. task[w] \in Deliveries
    BY <1>0, <1>1, BusyHasTask DEF TypeInv
  <2>2. PICK v \in Workers : pc[v] = "succSave" /\ task[v] = task[w]
    BY <1>0, <1>1, <2>1, SuccessIsWritten DEF HonourInv
  <2> QED BY <1>0, <1>1, <2>2 DEF HeldInv
<1>2. CASE ProcessorLoad(w)
  <2>1. delivery[task[w]].status # "success"
    BY <1>0, <1>2 DEF ProcessorLoad, Goto
  <2> QED BY <1>2, <2>1 DEF ProcessorLoad
<1>3. CASE pc'[w] = pc[w] /\ task'[w] = task[w]
  BY <1>1, <1>3
<1>4. ASSUME NEW v \in Workers, Handle(v) PROVE FALSE
  <2>1. CASE v # w
    BY <1>0, <1>3, <1>4, <2>1, HandleMoves DEF OnlyMoves
  <2>2. CASE v = w
    <3>1. ProcessorLoad(w)
      BY <1>0, <1>4, <2>2
         DEF Handle, ProcessorLoad, ProcessorPost, Process, Load, MarkInProgress,
             WriteRow, Post, MarkSuccessRead, ReadRow, MarkSuccessSave,
             MarkFailureRead, MarkFailureSave, RecordFailure, Ack, Nack, Rest, Goto
    <3> QED BY <1>2, <3>1
  <2> QED BY <2>1, <2>2
<1>5. ASSUME NEW v \in Workers, TakeJob(v) \/ Crash(v) PROVE FALSE
  <2>1. /\ pc'[w] = pc[w] /\ task'[w] = task[w]
        \/ pc'[w] \in {"load", "procLoad", "idle"}
    BY <1>0, <1>5
       DEF TakeJob, Take, Crash, Rest, Goto, TypeInv, TypeOK
  <2> QED BY <1>3, <2>1
<1>6. CASE QueueStep \/ UNCHANGED vars
  BY <1>3, <1>6 DEF QueueStep, Backoff, Stall, LockLoss, others, local, vars
<1>7. CASE AdminStep
  BY <1>3, <1>7, AdminKeeps DEF LockInv
<1> QED BY <1>4, <1>5, <1>6, <1>7 DEF Step

\* ProcessorHonoursSuccess: while locks hold, the processor's check for
\* SUCCESS is still true when its POST goes out, although other workers and
\* administrators write rows in between. A SUCCESS that was overwritten before
\* the check does not keep the processor from sending.
THEOREM ProcessorHonours ==
    ASSUME LocksHold
    PROVE  ProcessorSpec => ProcessorHonoursSuccess
<1>1. Init => HonourInv
  BY DEF Init, HonourInv, Actors
<1>2. LockInv /\ HonourInv /\ [Step]_vars => HonourInv'
  BY HonourInvStep
<1>3. HonourInv /\ [ProcessorNext]_vars =>
        [\A w \in Processors :
           ProcessorPost(w) => delivery[task[w]].status # "success"]_vars
  BY ProcessorsAssumption DEF HonourInv, ProcessorPost
<1> QED
  BY <1>1, <1>2, <1>3, LockInvHolds, BothStep, PTL
     DEF ProcessorSpec, ProcessorHonoursSuccess

-----------------------------------------------------------------------------
(* Without faults: the row's life, and the job beside it.                  *)

NoFaults == Env = {} /\ Administered = {}

\* Where a worker is tells what row and job say: the POST follows
\* markInProgress, and the failure is counted in the row before the job.
InStep(w) ==
    LET row == delivery[task[w]]
        made == job[task[w]].attemptsMade
    IN  /\ pc[w] \in {"load", "mark"} => row.status \in {"pending", "retrying"}
        /\ pc[w] \in Counting \ {"mark"} => row.status \in {"in_progress", "retrying"}
        /\ pc[w] \in Counting \cup {"load"} => row.attemptCount = made
        /\ pc[w] \in {"record", "nack"} =>
             /\ row.attemptCount = made + 1
             /\ row.status = IF row.attemptCount >= MaxRetries[task[w]]
                             THEN "dead_letter" ELSE "retrying"

\* Nobody who holds d abandoned it, and while it waits the row can be tried.
AtRest(d) ==
    /\ job[d].state = "active" =>
         \E w \in Workers : job[d].owner = w /\ pc[w] # "idle" /\ task[w] = d
    /\ job[d].state \in {"waiting", "delayed"} =>
         delivery[d].status \in {"pending", "retrying"}

\* RowMirrorsJob of one delivery.
Mirrors(d) ==
    /\ job[d].state \in {"waiting", "delayed", "failed"}
         => delivery[d].attemptCount = job[d].attemptsMade
    /\ job[d].state = "delayed" => delivery[d].status = "retrying"
    /\ job[d].state = "failed" <=>
          delivery[d].status = "dead_letter" /\ job[d].state # "active"
    /\ job[d].state = "completed" => delivery[d].status = "success"

StepInv ==
    /\ \A w \in Workers : pc[w] # "idle" => InStep(w)
    /\ \A d \in Deliveries : AtRest(d)
    /\ \A d \in Deliveries : Mirrors(d)

\* What the step of a worker makes of its row, seen as a life.
Lived(d) ==
    \/ delivery'[d] = delivery[d]
    \/ /\ delivery[d].status = "pending"
       /\ delivery'[d] = [delivery[d] EXCEPT !.status = "in_progress"]
    \/ /\ delivery[d].status \in {"in_progress", "retrying"}
       /\ \/ delivery'[d] = Succeeded(delivery[d])
          \/ delivery'[d] = Failed(delivery[d], MaxRetries[d])

Facts == LockInv /\ StepInv

\* The steps of process() that do not end it leave the job, and stay in step.
LEMMA RunsInStep ==
    ASSUME NoFaults, Facts, NEW w \in Workers, Process(w), ~Ack(w), ~Nack(w)
    PROVE  /\ InStep(w)' /\ Lived(task[w]) /\ UNCHANGED <<job, task>>
           /\ pc'[w] # "idle"
           /\ \A d \in Deliveries \ {task[w]} : delivery'[d] = delivery[d]
<1> DEFINE d == task[w]
<1>0. pc[w] # "idle"
  BY DEF Process, Load, MarkInProgress, Post, MarkSuccessRead, MarkSuccessSave,
         MarkFailureRead, MarkFailureSave, RecordFailure, Ack, Nack
<1>1. /\ w \in Actors /\ d \in Deliveries /\ MaxRetries[d] \in Nat
      /\ pc \in [Actors -> Location] /\ delivery \in [Deliveries -> Row]
      /\ copy \in [Actors -> Row] /\ job[d].attemptsMade \in Nat
      /\ InStep(w) /\ KnownBy(w) /\ Env = {}
  BY <1>0, BusyHasTask, RetriesAssumption
     DEF Facts, LockInv, StepInv, TypeInv, TypeOK, Actors, KnownInv, NoFaults,
         Unattended, Job
<1>2. delivery[d] \in Row /\ delivery[d].attemptCount \in Nat
  BY <1>1 DEF Row
<1> USE DEF Goto, Counting, Saving
<1> HIDE DEF d
<1>3. CASE Load(w) \/ Post(w) \/ MarkSuccessRead(w) \/ MarkFailureRead(w) \/ RecordFailure(w)
  <2>1. /\ UNCHANGED <<delivery, job, task>>
        /\ \/ pc[w] = "load" /\ pc'[w] = "mark"
           \/ pc[w] = "post" /\ pc'[w] \in {"succRead", "failRead"}
           \/ pc[w] = "succRead" /\ pc'[w] = "succSave"
           \/ pc[w] = "failRead" /\ pc'[w] = "failSave"
           \/ pc[w] = "record" /\ pc'[w] = "nack"
    BY <1>1, <1>3
       DEF Load, Post, MarkSuccessRead, MarkFailureRead, RecordFailure, ReadRow
  <2> QED BY <1>1, <2>1 DEF InStep, Lived, d
<1>4. CASE MarkInProgress(w)
  <2>1. /\ UNCHANGED <<job, task>> /\ pc[w] = "mark" /\ pc'[w] = "post"
        /\ delivery' = [delivery EXCEPT ![d] = InProgress(delivery[d])]
    BY <1>1, <1>4 DEF MarkInProgress, WriteRow, d
  <2>2. /\ delivery[d].status \in {"pending", "retrying"}
        /\ delivery[d].attemptCount = job[d].attemptsMade
    BY <1>1, <2>1 DEF InStep, d
  <2>3. /\ delivery'[d] = InProgress(delivery[d])
        /\ \A e \in Deliveries \ {d} : delivery'[e] = delivery[e]
    BY <1>1, <2>1
  <2>4. /\ delivery'[d].status \in {"in_progress", "retrying"}
        /\ delivery'[d].attemptCount = delivery[d].attemptCount
        /\ Lived(d)
    BY <1>2, <2>2, <2>3 DEF InProgress, Row, Lived
  <2> QED BY <2>1, <2>2, <2>3, <2>4 DEF InStep, d
<1>5. CASE MarkSuccessSave(w)
  <2>1. /\ UNCHANGED <<job, task>> /\ pc[w] = "succSave" /\ pc'[w] = "ack"
        /\ delivery' = [delivery EXCEPT ![d] = Succeeded(copy[w])]
    BY <1>1, <1>5 DEF MarkSuccessSave, WriteRow, d
  <2>2. copy[w] = delivery[d] /\ delivery[d].status \in {"in_progress", "retrying"}
    BY <1>1, <2>1 DEF InStep, KnownBy, d
  <2>3. /\ delivery'[d] = Succeeded(delivery[d])
        /\ \A e \in Deliveries \ {d} : delivery'[e] = delivery[e]
    BY <1>1, <2>1, <2>2
  <2> QED BY <2>1, <2>2, <2>3 DEF InStep, Lived, d
<1>6. CASE MarkFailureSave(w)
  <2>1. /\ UNCHANGED <<job, task>> /\ pc[w] = "failSave" /\ pc'[w] \in {"record", "nack"}
        /\ delivery' = [delivery EXCEPT ![d] = Failed(copy[w], MaxRetries[d])]
    BY <1>1, <1>6 DEF MarkFailureSave, WriteRow, d
  <2>2. /\ copy[w] = delivery[d] /\ delivery[d].status \in {"in_progress", "retrying"}
        /\ delivery[d].attemptCount = job[d].attemptsMade
    BY <1>1, <2>1 DEF InStep, KnownBy, d
  <2>3. /\ delivery'[d] = Failed(delivery[d], MaxRetries[d])
        /\ \A e \in Deliveries \ {d} : delivery'[e] = delivery[e]
    BY <1>1, <2>1, <2>2
  <2>4. /\ delivery'[d].attemptCount = job[d].attemptsMade + 1
        /\ delivery'[d].status = IF delivery'[d].attemptCount >= MaxRetries[d]
                                 THEN "dead_letter" ELSE "retrying"
    BY <2>2, <2>3 DEF Failed
  <2> QED BY <2>1, <2>2, <2>3, <2>4 DEF InStep, Lived, d
<1> QED BY <1>3, <1>4, <1>5, <1>6 DEF Process, d

\* The end of process(): the job's own verdict agrees with the row's.
LEMMA EndsInStep ==
    ASSUME NoFaults, Facts, NEW w \in Workers, Ack(w) \/ Nack(w)
    PROVE  LET d == task[w]
           IN  /\ d \in Deliveries /\ UNCHANGED delivery
               /\ \A e \in Deliveries \ {d} : job'[e] = job[e]
               /\ \/ /\ job'[d].state = "completed"
                     /\ delivery[d].status = "success"
                  \/ /\ job'[d].state = "failed"
                     /\ job'[d].attemptsMade = delivery[d].attemptCount
                     /\ delivery[d].status = "dead_letter"
                  \/ /\ job'[d].state = "delayed"
                     /\ job'[d].attemptsMade = delivery[d].attemptCount
                     /\ delivery[d].status = "retrying"
<1> DEFINE d == task[w]
<1>1. /\ d \in Deliveries /\ job \in [Deliveries -> Job] /\ job[d].owner = w
      /\ InStep(w) /\ KnownBy(w) /\ MaxRetries[d] \in Nat /\ job[d] \in Job
  BY BusyHasTask, RetriesAssumption
     DEF Ack, Nack, Facts, LockInv, StepInv, TypeInv, TypeOK, Actors, KnownInv,
         HeldInv, NoFaults, Unattended
<1>2. UNCHANGED delivery
  BY DEF Ack, Nack
<1> HIDE DEF d
<1>3. CASE Ack(w)
  <2>1. pc[w] = "ack" /\ JobCompleted(w, d)
    BY <1>3 DEF Ack, d
  <2>2. /\ \A e \in Deliveries \ {d} : job'[e] = job[e]
        /\ job'[d].state = "completed"
    BY <1>1, <2>1 DEF JobCompleted, Job
  <2> QED BY <1>1, <1>2, <2>1, <2>2 DEF KnownBy, d
<1>4. CASE Nack(w)
  <2> DEFINE s == IF job[d].attemptsMade + 1 < Attempts(d) THEN "delayed" ELSE "failed"
             row == [job[d] EXCEPT !.state = s, !.owner = None, !.attemptsMade = @ + 1]
  <2>1. pc[w] = "nack" /\ job' = [job EXCEPT ![d] = row]
    BY <1>1, <1>4 DEF Nack, JobFailed, d
  <2>2. /\ job'[d] = row
        /\ \A e \in Deliveries \ {d} : job'[e] = job[e]
    BY <1>1, <2>1
  <2>3. row.state = s /\ row.attemptsMade = job[d].attemptsMade + 1
    BY <1>1 DEF Job
  <2>4. /\ delivery[d].attemptCount = job[d].attemptsMade + 1
        /\ delivery[d].status = IF delivery[d].attemptCount >= MaxRetries[d]
                                THEN "dead_letter" ELSE "retrying"
    BY <1>1, <2>1 DEF InStep, d
  <2>5. job[d].attemptsMade \in Nat
    BY <1>1 DEF Job
  <2>6. IF delivery[d].attemptCount >= MaxRetries[d] THEN s = "failed" ELSE s = "delayed"
    BY <1>1, <2>4, <2>5 DEF Attempts
  <2> HIDE DEF row
  <2>7. /\ job'[d].attemptsMade = delivery[d].attemptCount
        /\ \/ job'[d].state = "failed" /\ delivery[d].status = "dead_letter"
           \/ job'[d].state = "delayed" /\ delivery[d].status = "retrying"
    BY <2>2, <2>3, <2>4, <2>6
  <2> QED BY <1>1, <1>2, <2>2, <2>7 DEF d
<1> QED BY <1>3, <1>4

\* The other deliveries and their workers notice nothing of a step that leaves
\* their job and row alone.
LEMMA OthersInStep ==
    ASSUME Facts, NEW v \in Workers, NEW d \in Deliveries,
           NEW w \in Workers \ {v}, pc'[w] # "idle",
           pc'[w] = pc[w] /\ task'[w] = task[w], task[w] # d,
           \A e \in Deliveries \ {d} : job'[e] = job[e] /\ delivery'[e] = delivery[e]
    PROVE  InStep(w)'
<1>1. task[w] \in Deliveries
  BY BusyHasTask DEF Facts, LockInv, TypeInv, Actors
<1> QED BY <1>1 DEF InStep, Facts, StepInv

LEMMA OthersAtRest ==
    ASSUME Facts, NEW v \in Workers, NEW d \in Deliveries, NEW e \in Deliveries, e # d,
           OnlyMoves(v), pc[v] # "idle" => task[v] = d,
           job'[e] = job[e], delivery'[e] = delivery[e]
    PROVE  AtRest(e)' /\ Mirrors(e)'
<1>1. AtRest(e) /\ Mirrors(e)
  BY DEF Facts, StepInv
<1>2. Mirrors(e)'
  BY <1>1 DEF Mirrors
<1>3. AtRest(e)'
  BY <1>1 DEF AtRest, OnlyMoves
<1> QED BY <1>2, <1>3

LEMMA FetchInStep ==
    ASSUME Facts, NEW v \in Workers, Fetch(v)
    PROVE  StepInv'
<1>1. PICK d \in Deliveries : Take(v, d, "load")
  BY DEF Fetch
<1>2. /\ pc[v] = "idle" /\ v \in Actors /\ UNCHANGED delivery
      /\ pc' = [pc EXCEPT ![v] = "load"] /\ task' = [task EXCEPT ![v] = d]
      /\ job[d].state = "waiting"
      /\ job' = [job EXCEPT ![d] = [job[d] EXCEPT !.state = "active", !.owner = v]]
      /\ job \in [Deliveries -> Job] /\ pc \in [Actors -> Location]
      /\ task \in [Actors -> Deliveries \cup {None}] /\ job[d] \in Job
  BY <1>1 DEF Take, Goto, JobFetched, Actors, Facts, LockInv, TypeInv, TypeOK
<1>3. /\ job'[d].state = "active" /\ job'[d].owner = v
      /\ job'[d].attemptsMade = job[d].attemptsMade
      /\ \A e \in Deliveries \ {d} : job'[e] = job[e]
      /\ pc'[v] = "load" /\ task'[v] = d /\ OnlyMoves(v)
  BY <1>2 DEF Job, OnlyMoves, Actors
<1>4. AtRest(d) /\ Mirrors(d)
  BY DEF Facts, StepInv
<1>5. InStep(v)'
  BY <1>2, <1>3, <1>4 DEF InStep, AtRest, Mirrors, Counting
<1>6. ASSUME NEW w \in Workers, w # v, pc'[w] # "idle" PROVE InStep(w)'
  <2>1. pc'[w] = pc[w] /\ task'[w] = task[w]
    BY <1>3, <1>6 DEF OnlyMoves
  <2>2. task[w] # d
    BY <1>2, <1>6, <2>1, NobodyHolds DEF Facts, LockInv
  <2> QED BY <1>2, <1>3, <1>6, <2>1, <2>2, OthersInStep
<1>7. AtRest(d)' /\ Mirrors(d)'
  BY <1>2, <1>3, <1>4 DEF AtRest, Mirrors
<1>8. \A e \in Deliveries \ {d} : AtRest(e)' /\ Mirrors(e)'
  BY <1>2, <1>3, OthersAtRest
<1> QED BY <1>5, <1>6, <1>7, <1>8 DEF StepInv

LEMMA ProcessInStep ==
    ASSUME NoFaults, Facts, NEW v \in Workers, Process(v)
    PROVE  StepInv'
<1>0. pc[v] # "idle"
  BY DEF Process, Load, MarkInProgress, Post, MarkSuccessRead, MarkSuccessSave,
         MarkFailureRead, MarkFailureSave, RecordFailure, Ack, Nack
<1>d. PICK d \in Deliveries : d = task[v]
  BY <1>0, BusyHasTask DEF Facts, LockInv, TypeInv, Actors
<1>1. OnlyMoves(v) /\ job[d].state = "active" /\ job[d].owner = v
  BY <1>0, <1>d, HandleMoves DEF Handle, Facts, LockInv, HeldInv
<1>2. ASSUME NEW w \in Workers \ {v}, pc'[w] # "idle"
      PROVE  pc'[w] = pc[w] /\ task'[w] = task[w] /\ task[w] # d
  BY <1>1, <1>2, <1>d, HandledAlone DEF OnlyMoves, Handle, Facts, LockInv
<1>3. CASE ~Ack(v) /\ ~Nack(v)
  <2>1. /\ InStep(v)' /\ UNCHANGED <<job, task>> /\ pc'[v] # "idle"
        /\ \A e \in Deliveries \ {d} : delivery'[e] = delivery[e]
    BY <1>3, <1>d, RunsInStep
  <2>2. \A w \in Workers \ {v} : pc'[w] # "idle" => InStep(w)'
    BY <1>1, <1>2, <2>1, OthersInStep
  <2>3. \A e \in Deliveries \ {d} : AtRest(e)' /\ Mirrors(e)'
    BY <1>1, <1>d, <2>1, OthersAtRest
  <2>4. AtRest(d)' /\ Mirrors(d)'
    BY <1>1, <1>d, <2>1 DEF AtRest, Mirrors
  <2> QED BY <2>1, <2>2, <2>3, <2>4 DEF StepInv
<1>4. CASE Ack(v) \/ Nack(v)
  <2>1. /\ UNCHANGED delivery
        /\ \A e \in Deliveries \ {d} : job'[e] = job[e]
        /\ \/ /\ job'[d].state = "completed"
              /\ delivery[d].status = "success"
           \/ /\ job'[d].state = "failed"
              /\ job'[d].attemptsMade = delivery[d].attemptCount
              /\ delivery[d].status = "dead_letter"
           \/ /\ job'[d].state = "delayed"
              /\ job'[d].attemptsMade = delivery[d].attemptCount
              /\ delivery[d].status = "retrying"
    BY <1>4, <1>d, EndsInStep
  <2>2. pc'[v] = "idle"
    BY <1>4, RestMoves DEF Ack, Nack, Facts, LockInv, Actors
  <2>3. \A w \in Workers \ {v} : pc'[w] # "idle" => InStep(w)'
    BY <1>1, <1>2, <2>1, OthersInStep
  <2>4. \A e \in Deliveries \ {d} : AtRest(e)' /\ Mirrors(e)'
    BY <1>1, <1>d, <2>1, OthersAtRest
  <2>5. AtRest(d)' /\ Mirrors(d)'
    BY <2>1 DEF AtRest, Mirrors
  <2> QED BY <2>2, <2>3, <2>4, <2>5 DEF StepInv
<1> QED BY <1>3, <1>4

\* Without faults the only other steps are backoffs that end: a job that is
\* active has its owner, so none is stalled.
LEMMA QuietSteps ==
    ASSUME NoFaults, Facts, [Next]_vars,
           ~\E w \in Workers : Fetch(w) \/ Process(w)
    PROVE  /\ UNCHANGED <<delivery, pc, task>>
           /\ UNCHANGED job \/ \E d \in Deliveries : JobBackoffOver(d)
<1>1. CASE QueueStep
  <2>1. PICK d \in Deliveries : Backoff(d) \/ Stall(d)
    BY <1>1 DEF QueueStep, LockLoss, NoFaults
  <2>2. ~Stall(d)
    <3>1. AtRest(d)
      BY DEF Facts, StepInv
    <3> QED BY <3>1, NoneAssumption DEF Stall, JobStalled, AtRest
  <2> QED BY <2>1, <2>2 DEF Backoff, others, local
<1>2. CASE AdminStep
  BY <1>2 DEF AdminStep, MarkDeadLetterRead, MarkDeadLetterSave, NoFaults, Facts,
              LockInv, AdminInv
<1>3. CASE UNCHANGED vars
  BY <1>3 DEF vars, local
<1> QED BY <1>1, <1>2, <1>3 DEF Next, Crash, NoFaults

LEMMA StepInvStep ==
    ASSUME NoFaults, Facts, [Next]_vars
    PROVE  StepInv'
<1>1. CASE \E w \in Workers : Fetch(w) \/ Process(w)
  BY <1>1, FetchInStep, ProcessInStep
<1>2. ASSUME UNCHANGED <<delivery, job, pc, task>> PROVE StepInv'
  BY <1>2 DEF Facts, StepInv, InStep, AtRest, Mirrors
<1>3. ASSUME UNCHANGED <<delivery, pc, task>>, NEW d \in Deliveries, JobBackoffOver(d)
      PROVE  StepInv'
  <2>1. /\ job \in [Deliveries -> Job] /\ job[d] \in Job
        /\ AtRest(d) /\ Mirrors(d)
        /\ \A w \in Workers : pc[w] # "idle" => task[w] \in Deliveries /\ InStep(w)
        /\ \A e \in Deliveries : AtRest(e) /\ Mirrors(e)
    BY BusyHasTask DEF Facts, LockInv, StepInv, TypeInv, TypeOK, Actors
  <2>2. /\ job[d].state = "delayed" /\ job'[d].state = "waiting"
        /\ job'[d].attemptsMade = job[d].attemptsMade
        /\ \A e \in Deliveries \ {d} : job'[e] = job[e]
    BY <1>3, <2>1 DEF JobBackoffOver, Job
  <2>3. \A w \in Workers : pc'[w] # "idle" => InStep(w)'
    BY <1>3, <2>1, <2>2, NobodyHolds DEF InStep, Facts, LockInv
  <2>4. AtRest(d)' /\ Mirrors(d)'
    BY <1>3, <2>1, <2>2 DEF AtRest, Mirrors
  <2>5. \A e \in Deliveries \ {d} : AtRest(e)' /\ Mirrors(e)'
    BY <1>3, <2>1, <2>2 DEF AtRest, Mirrors
  <2> QED BY <2>3, <2>4, <2>5 DEF StepInv
<1> QED BY <1>1, <1>2, <1>3, QuietSteps

LEMMA FactsHold == ASSUME NoFaults PROVE Spec => []Facts
<1>1. LocksHold
  BY DEF NoFaults, LocksHold
<1>2. Init => StepInv
  BY DEF Init, StepInv, AtRest, Mirrors, InStep, Created, Added, Actors
<1>3. LockInv /\ StepInv /\ [Next]_vars => StepInv'
  BY StepInvStep DEF Facts
<1>4. Spec => []LockInv
  BY <1>1, LockInvHolds
<1>5. LockInv /\ StepInv => Facts
  BY DEF Facts
<1> QED BY <1>2, <1>3, <1>4, <1>5, PTL DEF Spec

\* Without faults, and with no administrator at work, row and job agree
\* whenever no worker holds the delivery.
THEOREM RowsMirrorJobs == ASSUME NoFaults PROVE Spec => []RowMirrorsJob
<1>1. Facts => RowMirrorsJob
  BY DEF Facts, StepInv, Mirrors, RowMirrorsJob
<1> QED BY <1>1, FactsHold, PTL

\* Then every row lives the life that DeliveryLifecycle promises: each read,
\* stale copy and save of process() is one of its steps, or none.
THEOREM WorkerImplementsLifecycle == ASSUME NoFaults PROVE Spec => Lifecycle!Spec
<1>1. Init => Lifecycle!Init
  BY DEF Init, Created, Lifecycle!Init
<1>2. Facts /\ [Next]_vars => [Lifecycle!Next]_(Lifecycle!rows)
  <2> SUFFICES ASSUME Facts, [Next]_vars PROVE [Lifecycle!Next]_(Lifecycle!rows)
    OBVIOUS
  <2>1. delivery \in [Deliveries -> Row] /\ delivery' \in [Deliveries -> Row]
    BY TypeInvStep, WorkerSteps DEF Facts, LockInv, TypeInv, TypeOK
  <2>2. CASE UNCHANGED delivery
    BY <2>2 DEF Lifecycle!rows
  <2>3. CASE delivery' # delivery
    <3>1. PICK w \in Workers : Process(w) /\ ~Ack(w) /\ ~Nack(w)
      BY <2>3, QuietSteps DEF Fetch, Take, Ack, Nack
    <3>2. PICK d \in Deliveries :
            Lived(d) /\ \A e \in Deliveries \ {d} : delivery'[e] = delivery[e]
      <4>1. pc[w] # "idle"
        BY <3>1 DEF Process, Load, MarkInProgress, Post, MarkSuccessRead,
                    MarkSuccessSave, MarkFailureRead, MarkFailureSave, RecordFailure
      <4>2. PICK d \in Deliveries : d = task[w]
        BY <4>1, BusyHasTask DEF Facts, LockInv, TypeInv, Actors
      <4> QED BY <3>1, <4>2, RunsInStep DEF Lived
    <3>3. delivery'[d] # delivery[d]
      BY <2>1, <2>3, <3>2
    <3>4. delivery[d] \in Row /\ MaxRetries[d] \in Nat
      BY <2>1, <3>2, RetriesAssumption
    <3>5. Lifecycle!Advance(d)
      <4> USE DEF Lifecycle!Advance, Lifecycle!Settled, Row
      <4>1. CASE delivery[d].status = "pending"
                 /\ delivery'[d] = [delivery[d] EXCEPT !.status = "in_progress"]
        BY <2>1, <3>2, <3>4, <4>1 DEF Lifecycle!Begin
      <4>2. CASE /\ delivery[d].status \in {"in_progress", "retrying"}
                 /\ delivery'[d] = Succeeded(delivery[d])
        BY <2>1, <3>2, <3>4, <4>2 DEF Lifecycle!Succeed, Succeeded
      <4>3. CASE /\ delivery[d].status \in {"in_progress", "retrying"}
                 /\ delivery'[d] = Failed(delivery[d], MaxRetries[d])
        <5> DEFINE status == [x \in Deliveries |-> delivery[x].status]
                   failures == [x \in Deliveries |-> delivery[x].attemptCount]
        <5>1. /\ delivery'[d].attemptCount = delivery[d].attemptCount + 1
              /\ delivery'[d].status = IF delivery[d].attemptCount + 1 >= MaxRetries[d]
                                       THEN "dead_letter" ELSE "retrying"
              /\ delivery[d].attemptCount \in Nat
          BY <3>4, <4>3 DEF Failed
        <5>2. /\ status' = [status EXCEPT ![d] = delivery'[d].status]
              /\ failures' = [failures EXCEPT ![d] = failures[d] + 1]
          BY <2>1, <3>2, <5>1
        <5>3. CASE delivery[d].attemptCount + 1 >= MaxRetries[d]
          <6>1. delivery'[d].status = "dead_letter"
            BY <5>1, <5>3
          <6> QED BY <4>3, <5>2, <5>3, <6>1 DEF Lifecycle!GiveUp
        <5>4. CASE delivery[d].attemptCount + 1 < MaxRetries[d]
          <6>1. delivery'[d].status = "retrying"
            BY <3>4, <5>1, <5>4
          <6> QED BY <4>3, <5>2, <5>4, <6>1 DEF Lifecycle!Retry
        <5> QED BY <3>4, <5>1, <5>3, <5>4
      <4> QED BY <3>2, <3>3, <4>1, <4>2, <4>3 DEF Lived
    <3> QED BY <3>2, <3>5 DEF Lifecycle!Next
  <2> QED BY <2>2, <2>3
<1> QED BY <1>1, <1>2, FactsHold, PTL DEF Spec, Lifecycle!Spec
=============================================================================
