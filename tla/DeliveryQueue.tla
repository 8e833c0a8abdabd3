--------------------------- MODULE DeliveryQueue ---------------------------
(***************************************************************************)
(* The two stores a delivery lives in: its row in the MySQL table          *)
(* `deliveries` (delivery.entity.ts, written by delivery.service.ts) and   *)
(* its job in the BullMQ queue 'webhook-delivery' (added by the fan-out).  *)
(* This module has the state and the operators on it; DeliveryWorker and   *)
(* WebhookProcessor add the processes that call them.                      *)
(*                                                                         *)
(* A row keeps the two columns the program branches on, status and         *)
(* attemptCount; timestamps and response snapshots are abstracted away.    *)
(* The job operators stand for BullMQ 5, which is not in the repository:   *)
(* they follow the options the fan-out passes (attempts, fixed backoff)    *)
(* and the library's documented lock, retry and stalled-job behaviour.     *)
(***************************************************************************)
EXTENDS Integers, FiniteSets

CONSTANTS
    Deliveries,       \* rows of `deliveries`, each with one job
    Workers,          \* BullMQ workers, one job at a time each
    None,             \* "no worker" / "no delivery"
    MaxRetries,       \* destination.maxRetries of each delivery
    MaxStalledCount   \* BullMQ's maxStalledCount, 1 unless configured

ASSUME RetriesAssumption == MaxRetries \in [Deliveries -> Nat]
ASSUME StalledAssumption == MaxStalledCount \in Nat
ASSUME NoneAssumption    == None \notin Workers /\ None \notin Deliveries
ASSUME WorkersAssumption == IsFiniteSet(Workers)

VARIABLES
    delivery,   \* the `deliveries` table
    job         \* the queue: one job per delivery

-----------------------------------------------------------------------------
(* The row. "failed" is declared by the enum and assigned by nobody.       *)

Status == {"pending", "in_progress", "success", "retrying", "failed",
           "dead_letter"}

Row == [status : Status, attemptCount : Nat]

\* DeliveryService.create
Created == [status |-> "pending", attemptCount |-> 0]

\* Seeded fault of InProgress: the UPDATE without its WHERE status = 'pending'.
InProgressAlways(row) == [row EXCEPT !.status = "in_progress"]

\* DeliveryService.markInProgress: UPDATE ... WHERE status = 'pending'
InProgress(row) ==
    IF row.status = "pending" THEN [row EXCEPT !.status = "in_progress"]
                              ELSE row

\* Seeded fault of Succeeded: success also clears the count.
SucceededResets(row) == [status |-> "success", attemptCount |-> 0]

\* DeliveryService.markSuccess
Succeeded(row) == [row EXCEPT !.status = "success"]

\* Seeded faults of Failed: off by one in either direction.
FailedLate(row, maxRetries) ==
    [status       |-> IF row.attemptCount + 1 > maxRetries
                      THEN "dead_letter" ELSE "retrying",
     attemptCount |-> row.attemptCount + 1]
FailedEarly(row, maxRetries) ==
    [status       |-> IF row.attemptCount + 2 >= maxRetries
                      THEN "dead_letter" ELSE "retrying",
     attemptCount |-> row.attemptCount + 1]

\* DeliveryService.markFailure, with the destination's maxRetries
Failed(row, maxRetries) ==
    [status       |-> IF row.attemptCount + 1 >= maxRetries
                      THEN "dead_letter" ELSE "retrying",
     attemptCount |-> row.attemptCount + 1]

\* DeliveryService.markDeadLetter
DeadLettered(row) == [row EXCEPT !.status = "dead_letter"]

-----------------------------------------------------------------------------
(* The job.                                                                *)

JobState == {"waiting", "active", "delayed", "completed", "failed"}

\* owner is the worker that holds the job's lock; an active job without an
\* owner has an expired lock and will be found by the stalled-job checker.
Job == [state : JobState, owner : Workers \cup {None},
        attemptsMade : Nat, stalledCounter : Nat]

\* queue.add('send-webhook', ...): one waiting job
Added == [state |-> "waiting", owner |-> None,
          attemptsMade |-> 0, stalledCounter |-> 0]

\* The fan-out passes attempts: destination.maxRetries; BullMQ retries while
\* attemptsMade + 1 < attempts, so 0 and 1 both mean a single attempt.
Attempts(d) == IF MaxRetries[d] = 0 THEN 1 ELSE MaxRetries[d]

\* How often the job was handed to a worker.
Started(d) == job[d].attemptsMade + job[d].stalledCounter
              + (IF job[d].state = "active" THEN 1 ELSE 0)

Finished(d) == job[d].state \in {"completed", "failed"}

JobFetched(w, d) ==
    /\ job[d].state = "waiting"
    /\ job' = [job EXCEPT ![d].state = "active", ![d].owner = w]

\* The processor returned: only the lock's holder may finish the job.
JobCompleted(w, d) ==
    IF job[d].owner = w
    THEN job' = [job EXCEPT ![d].state = "completed", ![d].owner = None,
                            ![d].attemptsMade = @ + 1]
    ELSE UNCHANGED job

\* The processor threw: back off while attempts remain, else fail for good.
JobFailed(w, d) ==
    IF job[d].owner = w
    THEN job' = [job EXCEPT
                   ![d].state = IF job[d].attemptsMade + 1 < Attempts(d)
                                THEN "delayed" ELSE "failed",
                   ![d].owner = None,
                   ![d].attemptsMade = @ + 1]
    ELSE UNCHANGED job

JobBackoffOver(d) ==
    /\ job[d].state = "delayed"
    /\ job' = [job EXCEPT ![d].state = "waiting"]

\* The lock expired under a worker that is still running (blocked event
\* loop, Redis pause): the worker does not notice.
JobLockLost(d) ==
    /\ job[d].owner # None
    /\ job' = [job EXCEPT ![d].owner = None]

\* The process that held the lock, if it did, died.
JobAbandoned(w, d) ==
    job' = IF job[d].owner = w THEN [job EXCEPT ![d].owner = None] ELSE job

\* The stalled-job checker: an active job nobody holds is queued again,
\* and failed when that happened more than MaxStalledCount times.
JobStalled(d) ==
    /\ job[d].state = "active"
    /\ job[d].owner = None
    /\ job' = [job EXCEPT
                 ![d].state = IF job[d].stalledCounter + 1 > MaxStalledCount
                              THEN "failed" ELSE "waiting",
                 ![d].stalledCounter = @ + 1]
=============================================================================
