--------------------------- MODULE PipelineProofs --------------------------
(***************************************************************************)
(* Proofs about Pipeline, for any requests, destinations, slots, retry     *)
(* limits, workers and batches.                                            *)
(*                                                                         *)
(* Each half is proved about on its own, and its invariants are used here: *)
(* the workers of Pipeline take only steps of DeliveryWorker, those of     *)
(* fan-out and replay only steps of EventReplay.                           *)
(***************************************************************************)
EXTENDS Pipeline, EventFanoutProofs, FiniteSetTheorems

\* The theorems about DeliveryWorker, of the instance Pipeline calls Worker.
Proved == INSTANCE DeliveryProofs WITH
    Deliveries <- Slots,
    MaxRetries <- RetriesOf,
    MaxStalledCount <- 1,
    Admins <- {},
    Administered <- {},
    Processors <- {},
    Env <- {},
    delivery <- work,
    job <- jobs,
    pc <- wpc,
    task <- wtask,
    seen <- wseen,
    copy <- wcopy,
    eventFailures <- recorded

PipeSafe == PipeInit /\ [][PipeNext]_pipeVars

-----------------------------------------------------------------------------
(* The two halves.                                                         *)

LEMMA WorkersTake ==
  ASSUME NEW w \in Workers, FetchJob(w) PROVE Proved!Fetch(w)
BY DEF FetchJob, Worker!Take, Worker!JobFetched, Worker!Goto,
       Proved!Fetch, Proved!Take, Proved!JobFetched, Proved!Goto

LEMMA WorkersProcess ==
  ASSUME NEW w \in Workers, Worker!Process(w) PROVE Proved!Process(w)
<1> USE DEF Worker!Goto, Proved!Goto, Worker!Rest, Proved!Rest, Worker!Created,
            Proved!Created, Worker!ReadRow, Proved!ReadRow, Worker!WriteRow, Proved!WriteRow
<1>1. Worker!Load(w) => Proved!Load(w)
  BY DEF Worker!Load, Proved!Load
<1>2. Worker!MarkInProgress(w) => Proved!MarkInProgress(w)
  BY DEF Worker!MarkInProgress, Proved!MarkInProgress, Worker!InProgress, Proved!InProgress
<1>3. Worker!Post(w) => Proved!Post(w)
  BY DEF Worker!Post, Proved!Post
<1>4. Worker!MarkSuccessRead(w) => Proved!MarkSuccessRead(w)
  BY DEF Worker!MarkSuccessRead, Proved!MarkSuccessRead
<1>5. Worker!MarkSuccessSave(w) => Proved!MarkSuccessSave(w)
  BY DEF Worker!MarkSuccessSave, Proved!MarkSuccessSave, Worker!Succeeded, Proved!Succeeded
<1>6. Worker!MarkFailureRead(w) => Proved!MarkFailureRead(w)
  BY DEF Worker!MarkFailureRead, Proved!MarkFailureRead
<1>7. Worker!MarkFailureSave(w) => Proved!MarkFailureSave(w)
  BY DEF Worker!MarkFailureSave, Proved!MarkFailureSave, Worker!Failed, Proved!Failed
<1>8. Worker!RecordFailure(w) => Proved!RecordFailure(w)
  BY DEF Worker!RecordFailure, Proved!RecordFailure
<1>9. Worker!Ack(w) => Proved!Ack(w)
  BY DEF Worker!Ack, Proved!Ack, Worker!JobCompleted, Proved!JobCompleted
<1>10. Worker!Nack(w) => Proved!Nack(w)
  BY DEF Worker!Nack, Proved!Nack, Worker!JobFailed, Proved!JobFailed,
         Worker!Attempts, Proved!Attempts
<1> QED
  BY <1>1, <1>2, <1>3, <1>4, <1>5, <1>6, <1>7, <1>8, <1>9, <1>10
     DEF Worker!Process, Proved!Process

LEMMA WorkersProcessToo ==
  ASSUME NEW w \in Workers, RunJob(w) PROVE Proved!Process(w)
BY WorkersProcess DEF RunJob, RecordEventFailure, Worker!Process

LEMMA WorkersWait ==
  ASSUME RetryJob PROVE Proved!QueueStep
<1>1. PICK i \in queue \cap Slots : Worker!Backoff(i)
  BY DEF RetryJob
<1>2. Proved!Backoff(i)
  BY <1>1 DEF Worker!Backoff, Worker!JobBackoffOver, Worker!others, Worker!local,
              Proved!Backoff, Proved!JobBackoffOver, Proved!others, Proved!local
<1> QED
  BY <1>2 DEF Proved!QueueStep

LEMMA WorkerHalf == [PipeNext]_pipeVars => [Proved!Next]_(Proved!vars)
<1> SUFFICES ASSUME [PipeNext]_pipeVars PROVE [Proved!Next]_(Proved!vars)
  OBVIOUS
<1>1. UNCHANGED workVars => UNCHANGED Proved!vars
  BY DEF workVars, Proved!vars, Proved!local
<1> QED
  BY <1>1, WorkersTake, WorkersProcessToo, WorkersWait
     DEF PipeNext, FanOutStep, pipeVars, Proved!Next

LEMMA WorkerInit == Worker!Init => Proved!Init
BY DEF Worker!Init, Proved!Init, Worker!Created, Proved!Created, Worker!Added,
       Proved!Added, Worker!Actors, Proved!Actors

\* What DeliveryWorker assumes of its constants, and the proofs of faults.
LEMMA InstanceAssumptions ==
  /\ Proved!NoFaults
  /\ RetriesOf \in [Slots -> Nat]
  /\ None \notin Workers /\ None \notin Slots /\ Proved!IsFiniteSet(Workers)
BY PipeWorkersAssumption, RetriesOfAssumption
   DEF IsFiniteSet, Proved!IsFiniteSet, Proved!NoFaults

\* What is known of the workers without faults.
LEMMA WorkerFacts == PipeSafe => []Proved!Facts
<1>1. Proved!Spec => []Proved!Facts
  BY InstanceAssumptions, Proved!FactsHold
<1> QED
  BY <1>1, WorkerInit, WorkerHalf, PTL DEF PipeSafe, PipeInit, Proved!Spec

-----------------------------------------------------------------------------
(* Who gave up, and what was recorded.                                     *)

\* Nobody works on a slot before its job is queued. A worker records a failure
\* only of a delivery without retries, and lets the job of such a delivery fail
\* only after it has.
GivenUpInv ==
    /\ \A i \in Slots \ queue : jobs[i] = Worker!Added
    /\ \A w \in Workers : wpc[w] # "idle" => wtask[w] \in queue
    /\ \A w \in Workers : wpc[w] = "record" => RetriesOf[wtask[w]] = 0
    /\ \A w \in Workers : wpc[w] = "nack" /\ RetriesOf[wtask[w]] = 0
         => failedEvent[wtask[w]] = deliveries[wtask[w]].event
    /\ RecordedIfUnretried

Known == Proved!Facts /\ ReplayInv /\ GivenUpInv

\* The types the proofs below need.
LEMMA WorkTypes ==
  ASSUME Proved!Facts
  PROVE  /\ work \in [Slots -> Proved!Row] /\ jobs \in [Slots -> Proved!Job]
         /\ wpc \in [Workers -> Proved!Location]
         /\ wtask \in [Workers -> Slots \cup {None}]
         /\ wseen \in [Workers -> Nat]
         /\ \A w \in Workers : wpc[w] # "idle" => wtask[w] \in Slots
<1>1. Workers \cup {} = Workers
  OBVIOUS
<1>2. Proved!TypeOK
  BY DEF Proved!Facts, Proved!LockInv, Proved!TypeInv
<1> QED
  BY <1>1, <1>2, PipeWorkersAssumption DEF Proved!TypeOK, Proved!Actors

\* What the workers do to the failures is a step of EventReplay.
LEMMA ReplayHalf ==
  ASSUME Known, [PipeNext]_pipeVars PROVE [ReplayNext]_allVars
<1>1. CASE FanOutStep
  BY <1>1 DEF FanOutStep, ReplayNext
<1>2. ASSUME NEW w \in Workers, RecordEventFailure(w) PROVE ReplayNext
  <2>1. wtask[w] \in queue /\ wtask[w] \in Failures
    BY <1>2, SlotsAssumption, WorkTypes
       DEF RecordEventFailure, Worker!RecordFailure, Known, GivenUpInv
  <2> QED
    BY <1>2, <2>1 DEF RecordEventFailure, RecordFailure, ReplayNext
<1> QED
  BY <1>1, <1>2 DEF PipeNext, FetchJob, RunJob, RetryJob, pipeVars

\* Fan-outs and replays only add rows and jobs.
Grown ==
    /\ queue \subseteq queue'
    /\ \A i \in Rows : i \in Rows' /\ deliveries'[i] = deliveries[i]
    /\ UNCHANGED failedEvent

LEMMA FanOutGrows ==
  ASSUME ReplayTyped, FanOutStep PROVE Grown
<1>1. CASE UNCHANGED <<deliveries, queue, failedEvent>>
  BY <1>1 DEF Grown, Rows
<1>2. ASSUME NEW b \in branches, CreateDelivery(b), UNCHANGED failedEvent PROVE Grown
  <2>1. CASE UNCHANGED deliveries
    BY <1>2, <2>1 DEF CreateDelivery, Grown, Rows
  <2>2. CASE deliveries' = Append(deliveries, RowOf(b))
    <3>1. deliveries \in Seq(Row) /\ RowOf(b) \in Row
      BY DEF ReplayTyped, RowOf, Row
    <3> QED
      BY <1>2, <2>2, <3>1 DEF CreateDelivery, Grown, Rows
  <2> QED
    BY <1>2, <2>1, <2>2 DEF CreateDelivery, RowOf
<1>3. ASSUME NEW b \in branches, AddJob(b), UNCHANGED failedEvent PROVE Grown
  BY <1>3 DEF AddJob, Grown, Rows
<1>4. CASE Next /\ UNCHANGED replayVars
  <2>1. UNCHANGED failedEvent
    BY <1>4 DEF replayVars
  <2>2. ASSUME NEW r \in Requests, LogEventStep(r) \/ Crash(r, "crashed")
        PROVE  UNCHANGED <<deliveries, queue>>
    BY <2>2 DEF LogEventStep, LogEvent, FindExisting, InsertEvent, FindDestinations,
           Await, CompleteFanout, SwallowRejection, Crash, storeVars
  <2>3. CASE DestinationStep
    BY <1>1, <2>1, <2>3 DEF DestinationStep, CreateDestination, DisableDestination, storeVars
  <2>4. CASE BranchStep
    BY <1>2, <1>3, <2>1, <2>4 DEF BranchStep
  <2> QED
    BY <1>1, <1>4, <2>1, <2>2, <2>3, <2>4 DEF Next
<1>5. ASSUME NEW b \in Batches, BatchStep(b) PROVE Grown
  BY <1>1, <1>5 DEF BatchStep, FindFailures, EnqueueFailure, FinishBatch, vars, storeVars
<1>6. ASSUME NEW j \in ReplayJobs, ReplayStep(j) PROVE Grown
  BY <1>1, <1>6 DEF ReplayStep, TakeReplayJob, LoadFailure, LoadEvent, FindDestinations,
                    Await, MarkReplayed, ReplayRejected, storeVars, replayVars
<1> QED
  BY <1>4, <1>5, <1>6 DEF FanOutStep

LEMMA FanOutKeepsGivenUp ==
  ASSUME Known, Grown, UNCHANGED workVars PROVE GivenUpInv'
<1>1. queue \subseteq Rows
  BY DEF Known, ReplayInv, ReplayTyped
<1>2. \A i \in Slots : jobs[i].state = "failed" => i \in queue
  BY DEF Known, GivenUpInv, Worker!Added
<1>3. UNCHANGED <<work, jobs, wpc, wtask>>
  BY DEF workVars
<1> QED
  BY <1>1, <1>2, <1>3 DEF Known, GivenUpInv, RecordedIfUnretried, Grown

LEMMA FetchKeepsGivenUp ==
  ASSUME Known, NEW w \in Workers, FetchJob(w) PROVE GivenUpInv'
<1>1. PICK i \in queue \cap Slots : Worker!Take(w, i, "load")
  BY DEF FetchJob
<1>2. UNCHANGED <<queue, deliveries, failedEvent, work>>
  BY <1>1 DEF FetchJob, allVars, vars, storeVars, replayVars, Worker!Take
<1>3. /\ jobs' = [jobs EXCEPT ![i] = [jobs[i] EXCEPT !.state = "active", !.owner = w]]
      /\ wpc' = [wpc EXCEPT ![w] = "load"] /\ wtask' = [wtask EXCEPT ![w] = i]
  BY <1>1 DEF Worker!Take, Worker!JobFetched, Worker!Goto
<1>4. /\ jobs'[i].state = "active" /\ \A k \in Slots \ {i} : jobs'[k] = jobs[k]
      /\ wpc'[w] = "load" /\ wtask'[w] = i
      /\ \A v \in Workers \ {w} : wpc'[v] = wpc[v] /\ wtask'[v] = wtask[v]
  BY <1>3, WorkTypes DEF Known, Proved!Job
<1> QED
  BY <1>1, <1>2, <1>4 DEF Known, GivenUpInv, RecordedIfUnretried

LEMMA RetryKeepsGivenUp ==
  ASSUME Known, RetryJob PROVE GivenUpInv'
<1>1. PICK i \in queue \cap Slots : Worker!Backoff(i)
  BY DEF RetryJob
<1>2. /\ UNCHANGED <<queue, deliveries, failedEvent, work, wpc, wtask>>
      /\ jobs' = [jobs EXCEPT ![i] = [jobs[i] EXCEPT !.state = "waiting"]]
  BY <1>1 DEF RetryJob, allVars, vars, storeVars, replayVars, Worker!Backoff,
              Worker!JobBackoffOver, Worker!others, Worker!local
<1>3. jobs'[i].state = "waiting" /\ \A k \in Slots \ {i} : jobs'[k] = jobs[k]
  BY <1>2, WorkTypes DEF Known, Proved!Job
<1> QED
  BY <1>1, <1>2, <1>3 DEF Known, GivenUpInv, RecordedIfUnretried

LEMMA RecordKeepsGivenUp ==
  ASSUME Known, NEW w \in Workers, RecordEventFailure(w) PROVE GivenUpInv'
<1> DEFINE i == wtask[w]
<1>1. /\ wpc[w] = "record" /\ wpc' = [wpc EXCEPT ![w] = "nack"]
      /\ failedEvent' = [failedEvent EXCEPT ![i] = deliveries[i].event]
      /\ UNCHANGED <<work, jobs, wtask, deliveries, queue>>
  BY DEF RecordEventFailure, Worker!RecordFailure, Worker!Goto, RecordFailureOf, vars, storeVars
<1>2. /\ i \in Slots /\ failedEvent \in [Slots -> Requests \cup {NoEvent}]
      /\ wpc \in [Workers -> Proved!Location] /\ work[i] \in Proved!Row
  BY <1>1, WorkTypes, SlotsAssumption DEF Known, ReplayInv, ReplayTyped
<1>3. RetriesOf[i] = 0
  BY <1>1 DEF Known, GivenUpInv
<1>4. work[i].status = "dead_letter"
  <2>1. Proved!InStep(w)
    BY <1>1 DEF Known, Proved!Facts, Proved!StepInv
  <2> QED
    BY <1>1, <1>2, <1>3, <2>1 DEF Proved!InStep, Proved!Row
<1>5. /\ failedEvent'[i] = deliveries[i].event
      /\ \A k \in Slots \ {i} : failedEvent'[k] = failedEvent[k]
      /\ wpc'[w] = "nack" /\ \A v \in Workers \ {w} : wpc'[v] = wpc[v]
  BY <1>1, <1>2
<1>6. \A v \in Workers : wpc'[v] = "nack" => wtask[v] \in Slots
  BY <1>1, <1>5, WorkTypes DEF Known
<1> QED
  BY <1>1, <1>2, <1>3, <1>4, <1>5, <1>6 DEF Known, GivenUpInv, RecordedIfUnretried

\* Without faults a worker that counts a failure has loaded fewer failures than
\* its delivery has attempts.
LEMMA LoadedIsBelowAttempts ==
  ASSUME Proved!Facts, NEW w \in Workers, wpc[w] = "failSave", RetriesOf[wtask[w]] # 0
  PROVE  wseen[w] < RetriesOf[wtask[w]]
<1> DEFINE i == wtask[w]
<1>1. /\ i \in Slots /\ wseen[w] \in Nat /\ RetriesOf[i] \in Nat
      /\ work[i].attemptCount \in Nat /\ jobs[i].attemptsMade \in Nat
  <2>1. i \in Slots /\ work[i] \in Proved!Row /\ jobs[i] \in Proved!Job /\ wseen[w] \in Nat
    BY WorkTypes
  <2> QED
    BY <2>1, RetriesOfAssumption DEF Proved!Row, Proved!Job
<1>2. jobs[i].state = "active" /\ Proved!InStep(w) /\ Proved!KnownBy(w)
  BY <1>1 DEF Proved!Facts, Proved!LockInv, Proved!HeldInv, Proved!StepInv,
              Proved!KnownInv, Proved!Unattended
<1>3. wseen[w] <= work[i].attemptCount /\ work[i].attemptCount = jobs[i].attemptsMade
  BY <1>2 DEF Proved!KnownBy, Proved!InStep, Proved!Counting
<1>4. jobs[i].attemptsMade < RetriesOf[i]
  BY <1>1, <1>2 DEF Proved!Facts, Proved!LockInv, Proved!TypeInv, Proved!QueueInv,
                    Proved!Finished, Proved!Attempts
<1> QED
  BY <1>1, <1>3, <1>4

\* So without faults the failure of a delivery with retries is not recorded, and
\* for one without, only the record leads to the end that fails the job.
LEMMA WhatIsRecorded ==
  ASSUME Proved!Facts, NEW w \in Workers, Proved!Process(w), wpc[w] # "record"
  PROVE  /\ wpc'[w] = "record" => RetriesOf[wtask[w]] = 0
         /\ wpc'[w] = "nack" => RetriesOf[wtask[w]] # 0
<1>1. wpc \in [Workers -> Proved!Location] /\ wseen[w] \in Nat
  BY WorkTypes
<1>2. CASE Proved!MarkFailureSave(w)
  <2>1. /\ wpc[w] = "failSave"
        /\ wpc' = [wpc EXCEPT ![w] = IF wseen[w] >= RetriesOf[wtask[w]]
                                      THEN "record" ELSE "nack"]
    BY <1>2 DEF Proved!MarkFailureSave, Proved!WriteRow, Proved!Goto
  <2>2. wtask[w] \in Slots /\ RetriesOf[wtask[w]] \in Nat
    BY <2>1, WorkTypes, RetriesOfAssumption
  <2>3. RetriesOf[wtask[w]] # 0 => wseen[w] < RetriesOf[wtask[w]]
    BY <2>1, LoadedIsBelowAttempts
  <2>4. wpc'[w] = IF RetriesOf[wtask[w]] = 0 THEN "record" ELSE "nack"
    BY <1>1, <2>1, <2>2, <2>3
  <2> QED
    BY <2>4
<1>3. CASE ~Proved!MarkFailureSave(w)
  <2>1. \E location \in {"mark", "post", "succRead", "succSave", "failRead", "failSave",
                         "ack", "idle"} : wpc' = [wpc EXCEPT ![w] = location]
    BY <1>3 DEF Proved!Process, Proved!Load, Proved!MarkInProgress, Proved!Post,
       Proved!MarkSuccessRead, Proved!MarkSuccessSave, Proved!MarkFailureRead,
       Proved!RecordFailure, Proved!Ack, Proved!Nack, Proved!Rest, Proved!ReadRow,
       Proved!WriteRow, Proved!Goto
  <2> QED
    BY <1>1, <2>1
<1> QED
  BY <1>2, <1>3

\* A row that is settled stays as it is.
LEMMA SettledStays ==
  ASSUME Proved!Facts, NEW w \in Workers, Proved!Process(w), NEW i \in Slots,
         work[i].status \in {"success", "dead_letter"}
  PROVE  work'[i] = work[i]
<1>1. CASE Proved!Ack(w) \/ Proved!Nack(w)
  BY <1>1 DEF Proved!Ack, Proved!Nack
<1>2. CASE ~Proved!Ack(w) /\ ~Proved!Nack(w)
  <2>1. /\ Proved!Lived(wtask[w])
        /\ \A k \in Slots \ {wtask[w]} : work'[k] = work[k]
    BY <1>2, InstanceAssumptions, Proved!RunsInStep
  <2> QED
    BY <2>1 DEF Proved!Lived
<1> QED
  BY <1>1, <1>2

LEMMA ProcessKeepsGivenUp ==
  ASSUME Known, NEW w \in Workers, wpc[w] # "record", Proved!Process(w), UNCHANGED allVars
  PROVE  GivenUpInv'
<1> DEFINE i == wtask[w]
<1>1. /\ wpc[w] # "idle" /\ i \in Slots /\ i \in queue
      /\ UNCHANGED <<queue, deliveries, failedEvent>>
  <2>1. wpc[w] # "idle"
    BY DEF Proved!Process, Proved!Load, Proved!MarkInProgress, Proved!Post,
       Proved!MarkSuccessRead, Proved!MarkSuccessSave, Proved!MarkFailureRead,
       Proved!MarkFailureSave, Proved!RecordFailure, Proved!Ack, Proved!Nack
  <2> QED
    BY <2>1, WorkTypes DEF Known, GivenUpInv, allVars, vars, storeVars, replayVars
<1>2. /\ wpc'[w] = "record" => RetriesOf[i] = 0
      /\ wpc'[w] = "nack" => RetriesOf[i] # 0
  BY WhatIsRecorded DEF Known
<1>3. \A v \in Workers \ {w} : wpc'[v] = wpc[v] /\ wtask'[v] = wtask[v]
  BY InstanceAssumptions, Proved!HandleMoves
     DEF Known, Proved!Facts, Proved!LockInv, Proved!Handle, Proved!OnlyMoves, Proved!Actors
<1>4. \A k \in Slots : work[k].status = "dead_letter" => work'[k] = work[k]
  BY SettledStays DEF Known
<1>5. CASE ~Proved!Ack(w) /\ ~Proved!Nack(w)
  <2>1. UNCHANGED <<jobs, wtask>>
    BY <1>5, InstanceAssumptions, Proved!RunsInStep DEF Known
  <2> QED
    BY <1>1, <1>2, <1>3, <1>4, <2>1 DEF Known, GivenUpInv, RecordedIfUnretried
<1>6. CASE Proved!Ack(w) \/ Proved!Nack(w)
  <2>1. wpc'[w] = "idle"
    BY <1>6, WorkTypes DEF Known, Proved!Ack, Proved!Nack, Proved!Rest, Proved!Goto
  <2>2. /\ \A k \in Slots \ {i} : jobs'[k] = jobs[k]
        /\ jobs'[i].state = "failed" => work[i].status = "dead_letter"
    BY <1>6, InstanceAssumptions, Proved!EndsInStep DEF Known
  <2>3. jobs'[i].state = "failed" =>
          failedEvent[i] = IF RetriesOf[i] = 0 THEN deliveries[i].event ELSE NoEvent
    <3>1. CASE Proved!Nack(w)
      BY <1>1, <3>1 DEF Known, GivenUpInv, RecordedIfUnretried, Proved!Nack
    <3>2. CASE Proved!Ack(w)
      <4>1. wpc[w] = "ack" /\ Proved!KnownBy(w)
        BY <1>1, <3>2 DEF Known, Proved!Facts, Proved!LockInv, Proved!KnownInv, Proved!Unattended, Proved!Ack
      <4> QED
        BY <2>2, <4>1 DEF Proved!KnownBy
    <3> QED
      BY <1>6, <3>1, <3>2
  <2> QED
    BY <1>1, <1>3, <1>4, <2>1, <2>2, <2>3 DEF Known, GivenUpInv, RecordedIfUnretried
<1> QED
  BY <1>5, <1>6

LEMMA KnownStep == Known /\ [PipeNext]_pipeVars => ReplayInv' /\ GivenUpInv'
<1> SUFFICES ASSUME Known, [PipeNext]_pipeVars PROVE ReplayInv' /\ GivenUpInv'
  OBVIOUS
<1>1. ReplayInv'
  BY ReplayHalf, ReplayStepInv DEF Known
<1>2. CASE FanOutStep
  BY <1>1, <1>2, FanOutGrows, FanOutKeepsGivenUp DEF Known, ReplayInv, FanOutStep
<1>3. ASSUME NEW w \in Workers, RunJob(w) PROVE GivenUpInv'
  BY <1>3, RecordKeepsGivenUp, ProcessKeepsGivenUp, WorkersProcess DEF RunJob
<1>4. CASE UNCHANGED pipeVars
  BY <1>1, <1>4, FanOutKeepsGivenUp
     DEF Grown, Rows, pipeVars, allVars, vars, storeVars, replayVars
<1> QED
  BY <1>1, <1>2, <1>3, <1>4, FetchKeepsGivenUp, RetryKeepsGivenUp DEF PipeNext

LEMMA AlwaysKnown == PipeSafe => []Known
<1>1. PipeInit => ReplayInv
  BY ReplayInitInv DEF PipeInit
<1>2. PipeInit => GivenUpInv
  BY SlotsAssumption
     DEF PipeInit, ReplayInit, Init, GivenUpInv, RecordedIfUnretried, Worker!Init,
         Worker!Added, Worker!Actors
<1> QED
  BY <1>1, <1>2, KnownStep, WorkerFacts, PTL DEF PipeSafe, Known

\* Whatever the limits, a delivery that was given up is a failure that a replay
\* batch can find, of the event it carried, if its destination has no retries;
\* after retries the failure is not recorded; and nothing else is recorded,
\* whatever fan-outs and replays run, fail or die meanwhile.
THEOREM UnretriedRecorded == PipeSpec => []RecordedIfUnretried
<1>1. Known => RecordedIfUnretried
  BY DEF Known, GivenUpInv
<1> QED
  BY <1>1, AlwaysKnown, PTL DEF PipeSpec, PipeSafe

LEMMA AlwaysShares == PipeSafe => []SharedInv
<1>1. PipeInit => SharedInv
  BY SharedInitInv DEF PipeInit
<1>2. Known /\ SharedInv /\ [PipeNext]_pipeVars => SharedInv'
  BY ReplayHalf, SharedStepInv DEF Known
<1> QED
  BY <1>1, <1>2, AlwaysKnown, PTL DEF PipeSafe

\* Every delivery a worker takes carries a stored event that goes out as a
\* webhook, to a destination of its tenant and type, whether logEvent or the
\* replay of a failure a worker recorded made it.
THEOREM PipeJobsLoad == PipeSpec => []JobsAreLoadable
<1>1. Known /\ SharedInv => JobsAreLoadable
  BY SharedMeans DEF Known
<1> QED
  BY <1>1, AlwaysKnown, AlwaysShares, PTL DEF PipeSpec, PipeSafe

\* A failure of a worker is marked replayed only when some job of it queued a
\* new delivery of the event that failed for each destination it found active.
THEOREM PipeReplayedIsRequeued == PipeSpec => []ReplayedMeansRequeued
<1>1. Known => ReplayedMeansRequeued
  BY GotThrough DEF Known
<1> QED
  BY <1>1, AlwaysKnown, PTL DEF PipeSpec, PipeSafe

-----------------------------------------------------------------------------
(* What is owed. No replay worker dies here, so a fan-out looks for its    *)
(* destinations once, and every branch and row is for one of them.         *)

NotYet == {"idle", "lookup", "insert", "find", "waiting", "loadFailure", "loadEvent"}

DebtInv ==
    /\ \A f \in Fanouts : pc[f] \in NotYet => targets[f] = {}
    /\ \A b \in branches : b.destination \in targets[b.fanout]
    /\ \A i \in Rows : deliveries[i].destination \in targets[deliveries[i].fanout]
    /\ OneDeliveryPerDestination
    /\ \A b, c \in branches :
         b.fanout = c.fanout /\ b.destination = c.destination => b = c
    /\ \A b \in branches, i \in Rows :
         b.row = 0 /\ deliveries[i].fanout = b.fanout
           => deliveries[i].destination # b.destination

\* A step that takes on nothing and makes no row.
Elsewhere ==
    /\ UNCHANGED <<targets, deliveries>>
    /\ branches' \subseteq branches
    /\ \A f \in Fanouts : pc'[f] \in NotYet => pc[f] \in NotYet

Finds(f, chosen) ==
    /\ pc[f] = "find"
    /\ pc' = [pc EXCEPT ![f] = "await"]
    /\ targets' = [targets EXCEPT ![f] = chosen]
    /\ UNCHANGED <<deliveries, replayed, rejected>>
    /\ \E e : branches' = branches \cup
         {[fanout |-> f, event |-> e, destination |-> d, row |-> 0] : d \in chosen}

Creates(b) ==
    /\ b.row = 0
    /\ deliveries' = Append(deliveries, RowOf(b))
    /\ branches' = (branches \ {b}) \cup {[b EXCEPT !.row = Len(deliveries) + 1]}
    /\ UNCHANGED <<pc, targets, replayed, rejected>>

FanOutMoves ==
    \/ Elsewhere
    \/ \E f \in Fanouts, chosen \in SUBSET Destinations : Finds(f, chosen)
    \/ \E b \in branches : Creates(b)

LEMMA FindMoves ==
  ASSUME NEW f \in Fanouts, NEW e, FindDestinations(f, e), UNCHANGED replayed,
         pc \in [Fanouts -> ReplayLocation]
  PROVE  FanOutMoves
<1>1. ActiveFor(e) \in SUBSET Destinations
  BY DEF ActiveFor
<1>2. CASE Goto(f, "rejected") /\ UNCHANGED <<targets, branches>>
  <2>1. UNCHANGED deliveries
    BY DEF FindDestinations, storeVars
  <2> QED
    BY <1>2, <2>1 DEF FanOutMoves, Elsewhere, Goto, NotYet
<1>3. CASE ~(Goto(f, "rejected") /\ UNCHANGED <<targets, branches>>)
  <2>1. /\ pc[f] = "find" /\ pc' = [pc EXCEPT ![f] = "await"]
        /\ targets' = [targets EXCEPT ![f] = ActiveFor(e)]
        /\ UNCHANGED <<deliveries, replayed, rejected>>
        /\ branches' = branches \cup
             {[fanout |-> f, event |-> e, destination |-> d, row |-> 0] : d \in ActiveFor(e)}
    BY <1>3 DEF FindDestinations, Goto, storeVars
  <2>2. Finds(f, ActiveFor(e))
    BY <2>1 DEF Finds
  <2> QED
    BY <1>1, <2>2 DEF FanOutMoves
<1> QED
  BY <1>2, <1>3

LEMMA EventMoves ==
  ASSUME ReplayInv, Next, UNCHANGED replayVars PROVE FanOutMoves
<1>1. pc \in [Fanouts -> ReplayLocation] /\ UNCHANGED replayed
  BY DEF ReplayInv, ReplayTyped, replayVars
<1>2. ASSUME NEW r \in Requests, LogEventStep(r) \/ Crash(r, "crashed") PROVE FanOutMoves
  <2>1. r \in Fanouts
    BY FanoutsAssumption
  <2>2. CASE FindDestinations(r, r)
    BY <1>1, <2>1, <2>2, FindMoves
  <2>3. CASE ~FindDestinations(r, r)
    <3>1. \E location \in ReplayLocation : Goto(r, location) /\ (location \in NotYet => pc[r] \in NotYet)
      BY <1>2, <2>3 DEF LogEventStep, LogEvent, FindExisting, InsertEvent, Await,
         CompleteFanout, SwallowRejection, Crash, Goto, NotYet, ReplayLocation, Location, Early
    <3>2. UNCHANGED <<targets, deliveries>> /\ branches' \subseteq branches
      BY <1>2, <2>3 DEF LogEventStep, LogEvent, FindExisting, InsertEvent, Await,
         CompleteFanout, SwallowRejection, Crash, storeVars, fanoutVars
    <3> QED
      BY <1>1, <2>1, <3>1, <3>2 DEF FanOutMoves, Elsewhere, Goto
  <2> QED
    BY <2>2, <2>3
<1>3. ASSUME NEW b \in branches, CreateDelivery(b) PROVE FanOutMoves
  <2>1. CASE Reject(b) /\ UNCHANGED deliveries
    BY <1>3, <2>1 DEF CreateDelivery, Reject, FanOutMoves, Elsewhere
  <2>2. CASE ~(Reject(b) /\ UNCHANGED deliveries)
    <3>1. Creates(b)
      BY <1>1, <1>3, <2>2 DEF CreateDelivery, Creates, RowOf
    <3> QED
      BY <3>1 DEF FanOutMoves
  <2> QED
    BY <2>1, <2>2
<1>4. ASSUME NEW b \in branches, AddJob(b) PROVE FanOutMoves
  BY <1>4 DEF AddJob, Reject, FanOutMoves, Elsewhere
<1>5. CASE DestinationStep
  BY <1>5 DEF DestinationStep, CreateDestination, DisableDestination, storeVars,
              fanoutVars, FanOutMoves, Elsewhere
<1> QED
  BY <1>2, <1>3, <1>4, <1>5 DEF Next, BranchStep

LEMMA ReplayMoves ==
  ASSUME ReplayInv, (\E b \in Batches : BatchStep(b)) \/ (\E j \in ReplayJobs : ReplayStep(j))
  PROVE  FanOutMoves
<1>1. pc \in [Fanouts -> ReplayLocation] /\ todo \in [Batches -> SUBSET Failures]
  BY DEF ReplayInv, ReplayTyped
<1>2. ASSUME NEW b \in Batches, BatchStep(b) PROVE FanOutMoves
  <2>1. CASE EnqueueFailure(b)
    <3>1. PICK f \in todo[b] : UNCHANGED pc \/ Goto(<<b, f>>, "waiting")
      BY <2>1 DEF EnqueueFailure
    <3>2. f \in Failures /\ pc[<<b, f>>] = "idle"
      BY <1>1 DEF ReplayInv, AddedInv
    <3>3. UNCHANGED <<targets, deliveries, branches>>
      BY <2>1 DEF EnqueueFailure, storeVars, fanoutVars
    <3> QED
      BY <1>1, <3>1, <3>2, <3>3, ReplayJobsAreFanouts DEF FanOutMoves, Elsewhere, Goto, NotYet
  <2>2. CASE ~EnqueueFailure(b)
    BY <1>2, <2>2 DEF BatchStep, FindFailures, FinishBatch, vars, storeVars, fanoutVars,
                      FanOutMoves, Elsewhere
  <2> QED
    BY <2>1, <2>2
<1>3. ASSUME NEW j \in ReplayJobs, ReplayStep(j) PROVE FanOutMoves
  <2>1. j \in Fanouts
    BY ReplayJobsAreFanouts
  <2>2. CASE FindDestinations(j, failedEvent[FailureOf(j)]) /\ UNCHANGED replayVars
    BY <1>1, <2>1, <2>2, FindMoves DEF replayVars
  <2>3. CASE ~(FindDestinations(j, failedEvent[FailureOf(j)]) /\ UNCHANGED replayVars)
    <3>1. \E location \in ReplayLocation : Goto(j, location) /\ (location \in NotYet => pc[j] \in NotYet)
      BY <1>3, <2>3 DEF ReplayStep, TakeReplayJob, LoadFailure, LoadEvent, Await,
         MarkReplayed, ReplayRejected, Goto, NotYet, ReplayLocation, Location, Early
    <3>2. UNCHANGED <<targets, deliveries, branches>>
      BY <1>3, <2>3 DEF ReplayStep, TakeReplayJob, LoadFailure, LoadEvent, Await,
         MarkReplayed, ReplayRejected, storeVars, fanoutVars
    <3> QED
      BY <1>1, <2>1, <3>1, <3>2 DEF FanOutMoves, Elsewhere, Goto
  <2> QED
    BY <2>2, <2>3
<1> QED
  BY <1>2, <1>3

LEMMA PipeMoves ==
  ASSUME ReplayInv, [PipeNext]_pipeVars PROVE FanOutMoves
<1>1. UNCHANGED vars => FanOutMoves
  BY DEF vars, storeVars, fanoutVars, FanOutMoves, Elsewhere
<1>2. CASE FanOutStep
  BY <1>2, EventMoves, ReplayMoves DEF FanOutStep
<1> QED
  BY <1>1, <1>2 DEF PipeNext, FetchJob, RunJob, RetryJob, RecordEventFailure, RecordFailureOf,
                    pipeVars, allVars

LEMMA DebtsAreTyped ==
  ASSUME ReplayTyped
  PROVE  /\ \A b \in branches : b.fanout \in Fanouts /\ b.destination \in Destinations
         /\ \A i \in Rows : deliveries[i].fanout \in Fanouts
BY ReplayRowsTyped DEF ReplayTyped, Row

LEMMA FindKeepsDebts ==
  ASSUME ReplayTyped, DebtInv, NEW f \in Fanouts, NEW chosen, Finds(f, chosen)
  PROVE  DebtInv'
<1>1. /\ pc \in [Fanouts -> ReplayLocation] /\ targets \in [Fanouts -> SUBSET Destinations]
      /\ pc[f] = "find" /\ pc' = [pc EXCEPT ![f] = "await"]
      /\ targets' = [targets EXCEPT ![f] = chosen] /\ UNCHANGED deliveries /\ Rows' = Rows
  BY DEF ReplayTyped, Finds, Rows
<1>2. targets[f] = {}
  BY <1>1 DEF DebtInv, NotYet
<1>3. /\ targets'[f] = chosen /\ pc'[f] = "await"
      /\ \A g \in Fanouts \ {f} : targets'[g] = targets[g] /\ pc'[g] = pc[g]
  BY <1>1
<1>4. /\ \A b \in branches : b.fanout # f
      /\ \A i \in Rows : deliveries[i].fanout # f
  BY <1>2 DEF DebtInv
<1>5. PICK e : branches' = branches \cup
        {[fanout |-> f, event |-> e, destination |-> d, row |-> 0] : d \in chosen}
  BY DEF Finds
<1>6. /\ \A b \in branches' \ branches :
           b.fanout = f /\ b.destination \in chosen /\ b.event = e /\ b.row = 0
      /\ \A b \in branches' \ branches : \E d \in chosen :
           b = [fanout |-> f, event |-> e, destination |-> d, row |-> 0]
  BY <1>5
<1>7. \A g \in Fanouts : pc'[g] \in NotYet => targets'[g] = {}
  BY <1>3 DEF DebtInv, NotYet
<1>8. \A b \in branches' : b.destination \in targets'[b.fanout]
  BY <1>3, <1>4, <1>6, DebtsAreTyped DEF DebtInv
<1>9. \A i \in Rows' : deliveries'[i].destination \in targets'[deliveries'[i].fanout]
  BY <1>1, <1>3, <1>4, DebtsAreTyped DEF DebtInv
<1>10. \A b, c \in branches' :
         b.fanout = c.fanout /\ b.destination = c.destination => b = c
  BY <1>4, <1>6 DEF DebtInv
<1>11. \A b \in branches', i \in Rows' :
         b.row = 0 /\ deliveries'[i].fanout = b.fanout
           => deliveries'[i].destination # b.destination
  BY <1>1, <1>4, <1>6 DEF DebtInv
<1>12. OneDeliveryPerDestination'
  BY <1>1 DEF DebtInv, OneDeliveryPerDestination
<1> QED
  BY <1>7, <1>8, <1>9, <1>10, <1>11, <1>12 DEF DebtInv

LEMMA CreateKeepsDebts ==
  ASSUME ReplayTyped, DebtInv, NEW b \in branches, Creates(b)
  PROVE  DebtInv'
<1> DEFINE n == Len(deliveries) + 1
<1>1. /\ deliveries \in Seq(Row) /\ RowOf(b) \in Row /\ b.row \in Nat
      /\ b \in [fanout : Fanouts, event : Requests, destination : Destinations,
                row : 0 .. Len(deliveries)]
  BY DEF ReplayTyped, RowOf, Row
<1>2. PICK next : next = [b EXCEPT !.row = n]
  OBVIOUS
<1>3. /\ branches' = (branches \ {b}) \cup {next} /\ UNCHANGED <<pc, targets>>
      /\ b.row = 0 /\ deliveries' = Append(deliveries, RowOf(b))
  BY <1>2 DEF Creates
<1>4. /\ next.fanout = b.fanout /\ next.destination = b.destination /\ next.row = n
      /\ n \in Nat /\ n # 0
  BY <1>1, <1>2
<1>5. /\ Rows' = Rows \cup {n} /\ n \notin Rows
      /\ \A i \in Rows : deliveries'[i] = deliveries[i]
      /\ deliveries'[n].fanout = b.fanout /\ deliveries'[n].destination = b.destination
  BY <1>1, <1>3 DEF Rows, RowOf
<1>6. \A i \in Rows : deliveries[i].fanout = b.fanout
        => deliveries[i].destination # b.destination
  BY <1>3 DEF DebtInv
<1>7. OneDeliveryPerDestination'
  BY <1>5, <1>6 DEF DebtInv, OneDeliveryPerDestination
<1>8. \A c \in branches' : c.destination \in targets'[c.fanout]
  BY <1>3, <1>4 DEF DebtInv
<1>9. \A i \in Rows' : deliveries'[i].destination \in targets'[deliveries'[i].fanout]
  <2>1. deliveries'[n].destination \in targets'[deliveries'[n].fanout]
    BY <1>3, <1>5 DEF DebtInv
  <2>2. \A i \in Rows : deliveries'[i].destination \in targets'[deliveries'[i].fanout]
    BY <1>3, <1>5 DEF DebtInv
  <2> QED
    BY <1>5, <2>1, <2>2
<1>10. \A c, d \in branches' :
         c.fanout = d.fanout /\ c.destination = d.destination => c = d
  BY <1>3, <1>4 DEF DebtInv
<1>11. \A c \in branches', i \in Rows' :
         c.row = 0 /\ deliveries'[i].fanout = c.fanout
           => deliveries'[i].destination # c.destination
  <2>1. \A c \in branches' : c.row = 0 => c \in branches /\ c # b
    BY <1>3, <1>4
  <2>2. \A c \in branches \ {b} : ~(c.fanout = b.fanout /\ c.destination = b.destination)
    BY DEF DebtInv
  <2>3. \A c \in branches, i \in Rows :
          c.row = 0 /\ deliveries[i].fanout = c.fanout => deliveries[i].destination # c.destination
    BY DEF DebtInv
  <2> QED
    BY <1>5, <2>1, <2>2, <2>3
<1> QED
  BY <1>3, <1>7, <1>8, <1>9, <1>10, <1>11 DEF DebtInv

LEMMA DebtStep ==
  ASSUME ReplayInv, DebtInv, [PipeNext]_pipeVars PROVE DebtInv'
<1>1. CASE Elsewhere
  BY <1>1 DEF Elsewhere, DebtInv, OneDeliveryPerDestination, Rows
<1> QED
  BY <1>1, PipeMoves, FindKeepsDebts, CreateKeepsDebts DEF FanOutMoves, ReplayInv

LEMMA AlwaysOwed == PipeSafe => []DebtInv
<1>1. PipeInit => DebtInv
  <2> SUFFICES ASSUME PipeInit PROVE DebtInv
    OBVIOUS
  <2>1. Rows = {} /\ branches = {} /\ \A f \in Fanouts : targets[f] = {}
    BY DEF PipeInit, ReplayInit, Init, Rows
  <2> QED
    BY <2>1 DEF DebtInv, OneDeliveryPerDestination
<1>2. ReplayInv /\ DebtInv /\ [PipeNext]_pipeVars => DebtInv'
  BY DebtStep
<1>3. Known => ReplayInv
  BY DEF Known
<1> QED
  BY <1>1, <1>2, <1>3, AlwaysKnown, PTL DEF PipeSafe

\* No fan-out, of a logged event or of a replay, makes two deliveries for a
\* destination, whatever statement fails.
THEOREM PipeDeliveriesAreSingle == PipeSpec => []OneDeliveryPerDestination
<1>1. DebtInv => OneDeliveryPerDestination
  BY DEF DebtInv
<1> QED
  BY <1>1, AlwaysOwed, PTL DEF PipeSpec, PipeSafe
-----------------------------------------------------------------------------
(* A failure is replayed once: without faults, and with one replay job at  *)
(* a time, nobody fans an event out between the check of `replayed` and    *)
(* the update that sets it.                                                *)

OneAtATime == Env = {} /\ ReplayWorkers = 1

OnceInv ==
    /\ rejected = {}
    /\ \A j \in ReplayJobs : pc[j] # "rejected"
    /\ \A j, k \in ReplayJobs : pc[j] \notin InQueue /\ pc[k] \notin InQueue => j = k
    /\ \A j \in ReplayJobs : pc[j] \in {"loadEvent", "find"} => FailureOf(j) \notin replayed
    /\ \A j \in ReplayJobs : targets[j] # {} /\ pc[j] \in InQueue => FailureOf(j) \in replayed

\* A step of others than the replay worker.
LEMMA OthersKeepOnce ==
  ASSUME OnceInv, UNCHANGED <<rejected, replayed>>,
         \A j \in ReplayJobs : pc'[j] = pc[j] /\ targets'[j] = targets[j]
  PROVE  OnceInv'
BY DEF OnceInv

LEMMA EventsKeepOnce ==
  ASSUME OneAtATime, ReplayInv, OnceInv, Next, UNCHANGED replayVars PROVE OnceInv'
<1>1. /\ Env = {} /\ UNCHANGED replayed
      /\ pc \in [Fanouts -> ReplayLocation] /\ targets \in [Fanouts -> SUBSET Destinations]
  BY DEF OneAtATime, replayVars, ReplayInv, ReplayTyped
<1>2. ASSUME NEW r \in Requests, LogEventStep(r) PROVE OnceInv'
  <2>1. \A j \in ReplayJobs : j \in Fanouts /\ j # r
    BY ReplayJobsAreFanouts
  <2>2. \E location : Goto(r, location)
    BY <1>2 DEF LogEventStep, LogEvent, FindExisting, InsertEvent, FindDestinations,
                Await, CompleteFanout, SwallowRejection
  <2>3. UNCHANGED targets \/ targets' = [targets EXCEPT ![r] = ActiveFor(r)]
    BY <1>2 DEF LogEventStep, LogEvent, FindExisting, InsertEvent, FindDestinations,
                Await, CompleteFanout, SwallowRejection, fanoutVars
  <2>4. UNCHANGED rejected
    BY <1>2 DEF LogEventStep, LogEvent, FindExisting, InsertEvent, FindDestinations,
                Await, CompleteFanout, SwallowRejection, fanoutVars
  <2>5. \A j \in ReplayJobs : pc'[j] = pc[j] /\ targets'[j] = targets[j]
    BY <1>1, <2>1, <2>2, <2>3 DEF Goto
  <2> QED
    BY <1>1, <2>4, <2>5, OthersKeepOnce
<1>3. ASSUME NEW r \in Requests, Crash(r, "crashed") PROVE FALSE
  BY <1>1, <1>3 DEF Crash, Fault
<1>4. CASE BranchStep
  <2>1. UNCHANGED <<rejected, pc, targets>>
    BY <1>1, <1>4 DEF BranchStep, CreateDelivery, AddJob, Fault
  <2> QED
    BY <1>1, <2>1, OthersKeepOnce
<1>5. CASE DestinationStep
  <2>1. UNCHANGED <<rejected, pc, targets>>
    BY <1>5 DEF DestinationStep, CreateDestination, DisableDestination, fanoutVars
  <2> QED
    BY <1>1, <2>1, OthersKeepOnce
<1> QED
  BY <1>2, <1>3, <1>4, <1>5 DEF Next

LEMMA BatchKeepsOnce ==
  ASSUME OneAtATime, ReplayInv, OnceInv, NEW b \in Batches, BatchStep(b) PROVE OnceInv'
<1>1. UNCHANGED <<rejected, replayed, targets>>
  BY DEF BatchStep, FindFailures, EnqueueFailure, FinishBatch, vars, fanoutVars
<1>2. CASE UNCHANGED pc
  BY <1>1, <1>2, OthersKeepOnce
<1>3. CASE ~UNCHANGED pc
  <2>1. PICK f \in todo[b] : batch[b] = "adding" /\ pc' = [pc EXCEPT ![<<b, f>>] = "waiting"]
    BY <1>3 DEF BatchStep, FindFailures, EnqueueFailure, FinishBatch, vars, Goto
  <2>2. pc \in [Fanouts -> ReplayLocation] /\ f \in Failures /\ pc[<<b, f>>] = "idle"
    BY DEF ReplayInv, ReplayTyped, AddedInv
  <2>3. /\ <<b, f>> \in ReplayJobs /\ pc'[<<b, f>>] = "waiting"
        /\ \A j \in ReplayJobs : j # <<b, f>> => pc'[j] = pc[j]
    BY <2>1, <2>2, ReplayJobsAreFanouts
  <2> QED
    BY <1>1, <2>2, <2>3 DEF OnceInv, InQueue
<1> QED
  BY <1>2, <1>3

LEMMA JobKeepsOnce ==
  ASSUME OneAtATime, ReplayInv, DebtInv, OnceInv, NEW j \in ReplayJobs, ReplayStep(j)
  PROVE  OnceInv'
<1>1. /\ Env = {} /\ ReplayWorkers = 1 /\ j \in Fanouts
      /\ pc \in [Fanouts -> ReplayLocation] /\ targets \in [Fanouts -> SUBSET Destinations]
      /\ \A k \in ReplayJobs : k \in Fanouts
  BY ReplayJobsAreFanouts DEF OneAtATime, ReplayInv, ReplayTyped
<1>2. UNCHANGED rejected
  BY DEF ReplayStep, TakeReplayJob, LoadFailure, LoadEvent, FindDestinations, Await,
         MarkReplayed, ReplayRejected, fanoutVars
<1> USE DEF Goto
<1>3. CASE TakeReplayJob(j)
  <2>1. \A k \in ReplayJobs : pc[k] \in InQueue
    <3> SUFFICES ASSUME NEW k \in ReplayJobs, pc[k] \notin InQueue PROVE FALSE
      OBVIOUS
    <3>1. Running = {k}
      BY DEF OnceInv, Running
    <3>2. Cardinality(Running) = 1
      BY <3>1, FS_Singleton
    <3> QED
      BY <1>1, <1>3, <3>2 DEF TakeReplayJob
  <2>2. /\ UNCHANGED <<replayed, targets>> /\ pc[j] = "waiting" /\ pc'[j] = "loadFailure"
        /\ \A k \in ReplayJobs : k # j => pc'[k] = pc[k]
    BY <1>1, <1>3 DEF TakeReplayJob, fanoutVars, replayVars
  <2> QED
    BY <1>2, <2>1, <2>2 DEF OnceInv, InQueue
<1>4. CASE LoadFailure(j)
  <2>1. /\ UNCHANGED <<replayed, targets>> /\ pc[j] = "loadFailure"
        /\ \/ pc'[j] = "done" /\ FailureOf(j) \in replayed
           \/ pc'[j] = "loadEvent" /\ FailureOf(j) \notin replayed
        /\ \A k \in ReplayJobs : k # j => pc'[k] = pc[k]
    BY <1>1, <1>4 DEF LoadFailure, fanoutVars, replayVars, Fault
  <2> QED
    BY <1>2, <2>1 DEF OnceInv, InQueue
<1>5. CASE LoadEvent(j)
  <2>1. /\ UNCHANGED <<replayed, targets>> /\ pc[j] = "loadEvent" /\ pc'[j] = "find"
        /\ \A k \in ReplayJobs : k # j => pc'[k] = pc[k]
    BY <1>1, <1>5 DEF LoadEvent, fanoutVars, replayVars, Fault
  <2> QED
    BY <1>2, <2>1 DEF OnceInv, InQueue
<1>6. CASE FindDestinations(j, failedEvent[FailureOf(j)]) /\ UNCHANGED replayVars
  <2>1. /\ UNCHANGED replayed /\ pc[j] = "find" /\ pc'[j] = "await"
        /\ \A k \in ReplayJobs : k # j => pc'[k] = pc[k] /\ targets'[k] = targets[k]
    BY <1>1, <1>6 DEF FindDestinations, replayVars, Fault
  <2> QED
    BY <1>2, <2>1 DEF OnceInv, InQueue
<1>7. CASE Await(j) /\ UNCHANGED replayVars
  <2>1. j \notin rejected
    BY DEF OnceInv
  <2>2. /\ UNCHANGED <<replayed, targets>> /\ pc[j] = "await" /\ pc'[j] = "complete"
        /\ \A k \in ReplayJobs : k # j => pc'[k] = pc[k]
    BY <1>1, <1>7, <2>1 DEF Await, fanoutVars, replayVars
  <2> QED
    BY <1>2, <2>2 DEF OnceInv, InQueue
<1>8. CASE MarkReplayed(j)
  <2>1. /\ replayed' = replayed \cup {FailureOf(j)} /\ UNCHANGED targets
        /\ pc[j] = "complete" /\ pc'[j] = "done"
        /\ \A k \in ReplayJobs : k # j => pc'[k] = pc[k]
    BY <1>1, <1>8 DEF MarkReplayed, fanoutVars, Fault
  <2>2. \A k \in ReplayJobs : k # j => pc[k] \in InQueue
    BY <2>1 DEF OnceInv, InQueue
  <2> QED
    BY <1>2, <2>1, <2>2 DEF OnceInv, InQueue
<1>9. CASE ReplayRejected(j)
  BY <1>9 DEF ReplayRejected, OnceInv
<1> QED
  BY <1>3, <1>4, <1>5, <1>6, <1>7, <1>8, <1>9 DEF ReplayStep

LEMMA OnceStep ==
  ASSUME OneAtATime, ReplayInv, DebtInv, OnceInv, [PipeNext]_pipeVars PROVE OnceInv'
<1>1. UNCHANGED vars /\ UNCHANGED replayed => OnceInv'
  BY OthersKeepOnce DEF vars, fanoutVars
<1>2. CASE FanOutStep
  BY <1>2, EventsKeepOnce, BatchKeepsOnce, JobKeepsOnce DEF FanOutStep
<1>3. CASE \/ UNCHANGED pipeVars
           \/ \E w \in Workers : FetchJob(w) \/ RunJob(w)
           \/ RetryJob
  BY <1>1, <1>3 DEF FetchJob, RunJob, RetryJob, RecordEventFailure, RecordFailureOf,
                    pipeVars, allVars, replayVars
<1> QED
  BY <1>2, <1>3 DEF PipeNext

LEMMA AlwaysOnce == ASSUME OneAtATime PROVE PipeSafe => []OnceInv
<1>1. PipeInit => OnceInv
  <2> SUFFICES ASSUME PipeInit PROVE OnceInv
    OBVIOUS
  <2>1. rejected = {} /\ \A j \in ReplayJobs : pc[j] = "idle" /\ targets[j] = {}
    BY ReplayJobsAreFanouts DEF PipeInit, ReplayInit, Init
  <2> QED
    BY <2>1 DEF OnceInv, InQueue
<1>2. ReplayInv /\ DebtInv /\ OnceInv /\ [PipeNext]_pipeVars => OnceInv'
  BY OnceStep
<1>3. Known => ReplayInv
  BY DEF Known
<1> QED
  BY <1>1, <1>2, <1>3, AlwaysKnown, AlwaysOwed, PTL DEF PipeSafe
-----------------------------------------------------------------------------
(* The promise about events, step by step.                                 *)

Owed == UNION {{f} \X targets[f] : f \in Fanouts}
Replays == {j \in ReplayJobs : targets[j] # {}}
ReplayedDebts == {DebtOf(FailureOf(j)) : j \in Replays}

Settled(i) == work[i].status \in {"success", "dead_letter"}

Promised == Known /\ DebtInv /\ OnceInv

\* Nothing is settled, recorded or replayed before its job is queued.
LEMMA SettledIsQueued ==
  ASSUME Known
  PROVE  /\ \A i \in Slots : Settled(i) => i \in queue
         /\ \A i \in Slots : failedEvent[i] # NoEvent => i \in queue
<1>1. ASSUME NEW i \in Slots, Settled(i), i \notin queue PROVE FALSE
  <2>1. jobs[i].state = "waiting"
    BY <1>1 DEF Known, GivenUpInv, Worker!Added
  <2>2. Proved!AtRest(i)
    BY DEF Known, Proved!Facts, Proved!StepInv
  <2> QED
    BY <1>1, <2>1, <2>2 DEF Proved!AtRest, Settled
<1>2. \A i \in Slots : failedEvent[i] # NoEvent => Settled(i)
  BY DEF Known, GivenUpInv, RecordedIfUnretried, Settled
<1> QED
  BY <1>1, <1>2

\* A failure that was replayed is one that was given up.
LEMMA ReplaysGivenUp ==
  ASSUME Known, NEW j \in ReplayJobs, pc[j] # "idle"
  PROVE  /\ FailureOf(j) \in Slots /\ FailureOf(j) \in queue
         /\ work[FailureOf(j)].status = "dead_letter"
<1>1. PICK b \in Batches : j = <<b, FailureOf(j)>> /\ FailureOf(j) \in Failures
  BY ReplayJobsAreFanouts
<1>2. failedEvent[FailureOf(j)] # NoEvent
  BY <1>1 DEF Known, ReplayInv, AddedInv
<1> QED
  BY <1>1, <1>2, SlotsAssumption, SettledIsQueued DEF Known, GivenUpInv, RecordedIfUnretried

LEMMA ReplaysStarted ==
  ASSUME DebtInv, NEW j \in Replays PROVE j \in ReplayJobs /\ pc[j] \notin NotYet
BY ReplayJobsAreFanouts DEF Replays, DebtInv

\* A debt has one row.
LEMMA DebtsAreSingle ==
  ASSUME Promised, NEW i \in queue, NEW k \in queue, DebtOf(i) = DebtOf(k)
  PROVE  i = k
BY DEF Promised, Known, ReplayInv, ReplayTyped, DebtInv, OneDeliveryPerDestination, DebtOf

LEMMA QueuedIsOwed ==
  ASSUME Promised, NEW i \in queue
  PROVE  DebtOf(i) \in Owed /\ DebtOf(i) \in Promise!Debts
<1>1. /\ deliveries[i].fanout \in Fanouts /\ deliveries[i].destination \in Destinations
      /\ deliveries[i].destination \in targets[deliveries[i].fanout]
  BY ReplayRowsTyped DEF Promised, Known, ReplayInv, ReplayTyped, DebtInv, Row
<1> QED
  BY <1>1, ReplayFanoutsAssumption DEF DebtOf, Owed, Promise!Debts

\* While rows and failures only grow, nothing settled or replayed is lost.
LEMMA DebtsStay ==
  ASSUME Promised, Grown, UNCHANGED work
  PROVE  DebtsOf("success")' = DebtsOf("success") /\ DebtsOf("dead_letter")' = DebtsOf("dead_letter")
<1>1. \A i \in queue : i \in queue' /\ DebtOf(i)' = DebtOf(i)
  BY DEF Grown, DebtOf, Promised, Known, ReplayInv, ReplayTyped
<1>2. \A i \in Slots : Settled(i) => i \in queue
  BY SettledIsQueued DEF Promised
<1>3. ASSUME NEW s \in {"success", "dead_letter"} PROVE DebtsOf(s)' = DebtsOf(s)
  <2>1. {k \in queue' \cap Slots : work'[k].status = s} = {k \in queue \cap Slots : work[k].status = s}
    BY <1>1, <1>2 DEF Settled
  <2>2. \A k \in {k \in queue \cap Slots : work[k].status = s} : DebtOf(k)' = DebtOf(k)
    BY <1>1
  <2> QED
    BY <2>1, <2>2 DEF DebtsOf
<1> QED
  BY <1>3

LEMMA ReplayedStay ==
  ASSUME Promised, Grown
  PROVE  \A j \in Replays : DebtOf(FailureOf(j))' = DebtOf(FailureOf(j))
<1> SUFFICES ASSUME NEW j \in Replays PROVE DebtOf(FailureOf(j))' = DebtOf(FailureOf(j))
  OBVIOUS
<1>1. FailureOf(j) \in queue
  BY ReplaysStarted, ReplaysGivenUp DEF NotYet, Promised
<1> QED
  BY <1>1 DEF Grown, DebtOf, FailureOf, Promised, Known, ReplayInv, ReplayTyped

Stutter ==
    /\ Owed' = Owed /\ ReplayedDebts' = ReplayedDebts
    /\ DebtsOf("success")' = DebtsOf("success")
    /\ DebtsOf("dead_letter")' = DebtsOf("dead_letter")

LEMMA StutterMaps == Stutter => UNCHANGED Promise!vars
BY DEF Stutter, Promise!vars, Owed, ReplayedDebts, Replays

LEMMA SameTargets ==
  ASSUME Promised, Grown, UNCHANGED targets
  PROVE  Owed' = Owed /\ ReplayedDebts' = ReplayedDebts
<1>1. Replays' = Replays
  BY DEF Replays
<1> QED
  BY <1>1, ReplayedStay DEF Owed, ReplayedDebts

\* A job that looks for destinations replays a failure nobody has replayed.
LEMMA ReplayIsFirst ==
  ASSUME Promised, NEW j \in ReplayJobs, pc[j] = "find"
  PROVE  DebtOf(FailureOf(j)) \in DebtsOf("dead_letter") \ ReplayedDebts
<1>1. /\ FailureOf(j) \in Slots /\ FailureOf(j) \in queue
      /\ work[FailureOf(j)].status = "dead_letter"
  BY ReplaysGivenUp DEF Promised
<1>2. ASSUME NEW k \in Replays, DebtOf(FailureOf(k)) = DebtOf(FailureOf(j)) PROVE FALSE
  <2>1. k \in ReplayJobs /\ pc[k] \notin NotYet /\ targets[k] # {}
    BY ReplaysStarted DEF Promised, Replays
  <2>2. FailureOf(k) \in queue
    BY <2>1, ReplaysGivenUp DEF NotYet, Promised
  <2>3. FailureOf(k) = FailureOf(j)
    BY <1>1, <1>2, <2>2, DebtsAreSingle
  <2>4. pc[k] \notin InQueue
    BY <2>1, <2>3 DEF Promised, OnceInv
  <2>5. k = j
    BY <2>1, <2>4 DEF Promised, OnceInv, InQueue
  <2> QED
    BY <2>1, <2>5 DEF NotYet
<1> QED
  BY <1>1, <1>2 DEF DebtsOf, ReplayedDebts

LEMMA FindMaps ==
  ASSUME Promised, Grown, UNCHANGED work,
         NEW f \in Fanouts, NEW chosen \in SUBSET Destinations, Finds(f, chosen)
  PROVE  [Promise!Next]_(Promise!vars)
<1>1. /\ targets \in [Fanouts -> SUBSET Destinations] /\ pc[f] = "find"
      /\ targets' = [targets EXCEPT ![f] = chosen]
  BY DEF Finds, Promised, Known, ReplayInv, ReplayTyped
<1>2. targets[f] = {}
  BY <1>1 DEF Promised, DebtInv, NotYet
<1>3. CASE chosen = {}
  <2>1. UNCHANGED targets
    BY <1>1, <1>2, <1>3
  <2> QED
    BY <2>1, DebtsStay, SameTargets, StutterMaps DEF Stutter
<1>4. CASE chosen # {}
  <2>1. /\ targets'[f] = chosen
        /\ \A g \in Fanouts \ {f} : targets'[g] = targets[g]
    BY <1>1
  <2>2. Owed' = Owed \cup ({f} \X chosen)
    BY <1>2, <2>1 DEF Owed
  <2>3. Owed \cap ({f} \X Destinations) = {}
    BY <1>2 DEF Owed
  <2>4. Promise!Owe(f, chosen)
    BY <1>4, <2>2, <2>3, DebtsStay DEF Promise!Owe, Owed
  <2>5. CASE f \in Requests
    <3>1. f \notin ReplayJobs
      BY <2>5, ReplayJobsAreFanouts
    <3>2. Replays' = Replays
      BY <2>1, <3>1, ReplayJobsAreFanouts DEF Replays
    <3>3. ReplayedDebts' = ReplayedDebts
      BY <3>2, ReplayedStay DEF ReplayedDebts
    <3>4. Promise!FanOut(f)
      BY <2>4, <3>3 DEF Promise!FanOut, ReplayedDebts, Replays
    <3> QED
      BY <2>5, <3>4 DEF Promise!Next
  <2>6. CASE f \in ReplayJobs
    <3>1. Replays' = Replays \cup {f}
      BY <1>4, <2>1, <2>6, ReplayJobsAreFanouts DEF Replays
    <3>2. FailureOf(f) \in queue
      BY <1>1, <2>6, ReplaysGivenUp DEF Promised
    <3>3. DebtOf(FailureOf(f))' = DebtOf(FailureOf(f))
      BY <3>2 DEF Grown, DebtOf, FailureOf, Promised, Known, ReplayInv, ReplayTyped
    <3>4. ReplayedDebts' = ReplayedDebts \cup {DebtOf(FailureOf(f))}
      BY <3>1, <3>3, ReplayedStay DEF ReplayedDebts
    <3>5. DebtOf(FailureOf(f)) \in DebtsOf("dead_letter") \ ReplayedDebts
      BY <1>1, <2>6, ReplayIsFirst
    <3>6. Promise!Replay(f)
      BY <2>4, <3>4, <3>5 DEF Promise!Replay, ReplayedDebts, Replays
    <3> QED
      BY <2>6, <3>6 DEF Promise!Next
  <2> QED
    BY <2>5, <2>6, ReplayFanoutsAssumption
<1> QED
  BY <1>3, <1>4

LEMMA FanOutMaps ==
  ASSUME Promised, FanOutStep PROVE [Promise!Next]_(Promise!vars)
<1>1. Grown /\ UNCHANGED work
  BY FanOutGrows DEF Promised, Known, ReplayInv, FanOutStep, workVars
<1>2. FanOutMoves
  BY PipeMoves DEF PipeNext, Promised, Known
<1>3. CASE UNCHANGED targets
  BY <1>1, <1>3, DebtsStay, SameTargets, StutterMaps DEF Stutter
<1> QED
  BY <1>1, <1>2, <1>3, FindMaps DEF FanOutMoves, Elsewhere, Creates

\* A worker settles what the row it saves was not settled before.
LEMMA WorkMaps ==
  ASSUME Promised, NEW w \in Workers, Proved!Process(w), UNCHANGED vars
  PROVE  [Promise!Next]_(Promise!vars)
<1>1. UNCHANGED <<queue, deliveries, targets>> /\ \A i : DebtOf(i)' = DebtOf(i)
  BY DEF vars, storeVars, fanoutVars, DebtOf
<1>2. Owed' = Owed /\ ReplayedDebts' = ReplayedDebts
  BY <1>1 DEF Owed, ReplayedDebts, Replays, FailureOf
<1>3. PICK i \in queue \cap Slots :
        /\ wpc[w] # "idle" /\ i = wtask[w]
  <2>1. wpc[w] # "idle"
    BY DEF Proved!Process, Proved!Load, Proved!MarkInProgress, Proved!Post,
       Proved!MarkSuccessRead, Proved!MarkSuccessSave, Proved!MarkFailureRead,
       Proved!MarkFailureSave, Proved!RecordFailure, Proved!Ack, Proved!Nack
  <2> QED
    BY <2>1, WorkTypes DEF Promised, Known, GivenUpInv
<1>4. \A k \in Slots \ {i} : work'[k] = work[k]
  <2>1. CASE Proved!Ack(w) \/ Proved!Nack(w)
    BY <2>1 DEF Proved!Ack, Proved!Nack
  <2>2. CASE ~Proved!Ack(w) /\ ~Proved!Nack(w)
    BY <1>3, <2>2, InstanceAssumptions, Proved!RunsInStep DEF Promised, Known
  <2> QED
    BY <2>1, <2>2
<1>5. Settled(i) => work'[i] = work[i]
  BY SettledStays DEF Settled, Promised, Known
<1>6. \A s : DebtsOf(s)' = {DebtOf(k) : k \in {k \in queue \cap Slots : work'[k].status = s}}
  BY <1>1 DEF DebtsOf
<1>7. CASE work'[i].status = work[i].status \/ ~Settled(i)'
  <2>1. \A s \in {"success", "dead_letter"} :
          {k \in queue \cap Slots : work'[k].status = s} = {k \in queue \cap Slots : work[k].status = s}
    BY <1>3, <1>4, <1>5, <1>7 DEF Settled
  <2> QED
    BY <1>2, <1>6, <2>1, StutterMaps DEF Stutter, DebtsOf
<1>8. CASE work'[i].status # work[i].status /\ Settled(i)'
  <2>1. ~Settled(i)
    BY <1>5, <1>8
  <2>2. DebtOf(i) \in Owed /\ DebtOf(i) \in Promise!Debts
    BY QueuedIsOwed
  <2>3. DebtOf(i) \notin DebtsOf("success") \cup DebtsOf("dead_letter")
    <3>1. \A k \in queue : DebtOf(k) = DebtOf(i) => k = i
      BY DebtsAreSingle
    <3> QED
      BY <2>1, <3>1 DEF DebtsOf, Settled
  <2>4. ASSUME NEW s \in {"success", "dead_letter"}
        PROVE  DebtsOf(s)' = IF work'[i].status = s THEN DebtsOf(s) \cup {DebtOf(i)} ELSE DebtsOf(s)
    <3>1. PICK old : old = {k \in queue \cap Slots : work[k].status = s}
      OBVIOUS
    <3>2. PICK new : new = {k \in queue \cap Slots : work'[k].status = s}
      OBVIOUS
    <3>3. new = IF work'[i].status = s THEN old \cup {i} ELSE old
      BY <1>3, <1>4, <2>1, <3>1, <3>2 DEF Settled
    <3>4. DebtsOf(s) = {DebtOf(k) : k \in old} /\ DebtsOf(s)' = {DebtOf(k) : k \in new}
      BY <1>6, <3>1, <3>2 DEF DebtsOf
    <3> QED
      BY <3>3, <3>4
  <2>5. CASE work'[i].status = "success"
    <3>1. Promise!Deliver(DebtOf(i))
      BY <1>2, <2>2, <2>3, <2>4, <2>5
         DEF Promise!Deliver, Promise!Settled, Owed, ReplayedDebts, Replays
    <3> QED
      BY <2>2, <3>1 DEF Promise!Next, Promise!Settle
  <2>6. CASE work'[i].status = "dead_letter"
    <3>1. Promise!GiveUp(DebtOf(i))
      BY <1>2, <2>2, <2>3, <2>4, <2>6
         DEF Promise!GiveUp, Promise!Settled, Owed, ReplayedDebts, Replays
    <3> QED
      BY <2>2, <3>1 DEF Promise!Next, Promise!Settle
  <2> QED
    BY <1>8, <2>5, <2>6 DEF Settled
<1> QED
  BY <1>7, <1>8

LEMMA PipeMaps == Promised /\ [PipeNext]_pipeVars => [Promise!Next]_(Promise!vars)
<1> SUFFICES ASSUME Promised, [PipeNext]_pipeVars PROVE [Promise!Next]_(Promise!vars)
  OBVIOUS
<1>1. ASSUME UNCHANGED vars, UNCHANGED work PROVE [Promise!Next]_(Promise!vars)
  BY <1>1 DEF vars, storeVars, fanoutVars, Promise!vars, DebtsOf, DebtOf, FailureOf
<1>2. ASSUME NEW w \in Workers, RunJob(w) PROVE [Promise!Next]_(Promise!vars)
  <2>1. Proved!Process(w)
    BY <1>2, WorkersProcessToo
  <2>2. UNCHANGED vars
    BY <1>2 DEF RunJob, RecordEventFailure, RecordFailureOf, allVars
  <2> QED
    BY <2>1, <2>2, WorkMaps
<1>3. ASSUME NEW w \in Workers, FetchJob(w) PROVE [Promise!Next]_(Promise!vars)
  BY <1>1, <1>3 DEF FetchJob, Worker!Take, allVars
<1>4. CASE RetryJob
  BY <1>1, <1>4 DEF RetryJob, Worker!Backoff, Worker!others, allVars
<1>5. CASE UNCHANGED pipeVars
  BY <1>1, <1>5 DEF pipeVars, allVars, workVars
<1> QED
  BY <1>2, <1>3, <1>4, <1>5, FanOutMaps DEF PipeNext

\* Without faults, and with one replay job at a time, fan-outs, workers and
\* overlapping replay batches keep the promise about events: what a fan-out
\* owes is settled once and for good, and what was given up is fanned out at
\* most once more.
THEOREM PipeImplementsEventPromise == ASSUME OneAtATime PROVE PipeSpec => Promise!Spec
<1>1. PipeInit => Promise!Init
  <2> SUFFICES ASSUME PipeInit PROVE Promise!Init
    OBVIOUS
  <2>1. queue = {} /\ \A f \in Fanouts : targets[f] = {}
    BY DEF PipeInit, ReplayInit, Init
  <2> QED
    BY <2>1, ReplayJobsAreFanouts DEF Promise!Init, DebtsOf
<1>2. PipeSafe => []OnceInv
  BY AlwaysOnce
<1>3. Known /\ DebtInv /\ OnceInv => Promised
  BY DEF Promised
<1> QED
  BY <1>1, <1>2, <1>3, PipeMaps, AlwaysKnown, AlwaysOwed, PTL
     DEF PipeSpec, PipeSafe, Promise!Spec
=============================================================================
