--------------------------- MODULE DeliveryWorker --------------------------
(***************************************************************************)
(* DeliveryWorker.process (delivery.worker.ts), run by any number of       *)
(* workers over the rows and jobs of DeliveryQueue, together with          *)
(* administrators that call DeliveryService.markDeadLetter for the         *)
(* deliveries in Administered.                                             *)
(*                                                                         *)
(* Each await of the code is a step: another process may run in between.   *)
(* markSuccess, markFailure and markDeadLetter first read the row and then *)
(* save the copy they read, so they are two steps, and a save writes every *)
(* column of the copy.                                                     *)
(*                                                                         *)
(* Env names the faults a run admits:                                      *)
(*   "dbError"    a statement fails and has no effect                      *)
(*   "dbAckLost"  a statement takes effect, its caller sees an error       *)
(*   "crash"      a worker process dies, and starts again                  *)
(*   "lockLoss"   a job's lock expires while its worker still runs         *)
(*                                                                         *)
(* posts and accepted are observations: how many POSTs were sent for a     *)
(* delivery, and whether a worker saw the destination answer one with 2xx. *)
(***************************************************************************)
EXTENDS DeliveryQueue

CONSTANTS Admins, Administered, Env

Actors == Workers \cup Admins

ASSUME AdminsAssumption == None \notin Admins /\ Workers \cap Admins = {}
ASSUME AdministeredAssumption == Administered \subseteq Deliveries
ASSUME EnvAssumption == Env \subseteq {"dbError", "dbAckLost", "crash", "lockLoss"}

VARIABLES
    pc,             \* where each actor is in its handler
    task,           \* the delivery it handles
    seen,           \* delivery.attemptCount as process() loaded it
    copy,           \* the row a mark... method read and will save
    eventFailures,  \* rows of event_failures recorded for each delivery
    posts,
    accepted

local == <<pc, task, seen, copy>>
vars  == <<delivery, job, local, eventFailures, posts, accepted>>

\* The locations of process() before its POST, those between the POST and
\* the end of markSuccess, and the locations of the processor that shares
\* the queue (WebhookProcessor).
BeforePost   == {"load", "mark", "post", "procLoad", "procPost"}
AfterAccept  == {"succRead", "succSave"}
Location == {"idle", "failRead", "failSave", "record", "ack", "nack",
             "deadSave"} \cup BeforePost \cup AfterAccept

Init ==
    /\ delivery = [d \in Deliveries |-> Created]
    /\ job = [d \in Deliveries |-> Added]
    /\ pc = [a \in Actors |-> "idle"]
    /\ task = [a \in Actors |-> None]
    /\ seen = [a \in Actors |-> 0]
    /\ copy = [a \in Actors |-> Created]
    /\ eventFailures = [d \in Deliveries |-> 0]
    /\ posts = [d \in Deliveries |-> 0]
    /\ accepted = [d \in Deliveries |-> FALSE]

-----------------------------------------------------------------------------
(* Building blocks.                                                        *)

Goto(a, location) == pc' = [pc EXCEPT ![a] = location]

\* Seeded fault of Rest: the actor keeps its delivery.
RestKeepsTask(a) ==
    /\ Goto(a, "idle")
    /\ seen' = [seen EXCEPT ![a] = 0]
    /\ copy' = [copy EXCEPT ![a] = Created]
    /\ UNCHANGED task

\* The handler is over: its locals are gone.
Rest(a) ==
    /\ Goto(a, "idle")
    /\ task' = [task EXCEPT ![a] = None]
    /\ seen' = [seen EXCEPT ![a] = 0]
    /\ copy' = [copy EXCEPT ![a] = Created]

\* A SELECT of the row into the actor's copy.
ReadRow(a, then, otherwise) ==
    \/ copy' = [copy EXCEPT ![a] = delivery[task[a]]] /\ Goto(a, then)
    \/ "dbError" \in Env /\ UNCHANGED copy /\ Goto(a, otherwise)

\* An UPDATE of the row.
WriteRow(a, row, then, otherwise) ==
    \/ /\ delivery' = [delivery EXCEPT ![task[a]] = row]
       /\ Goto(a, then)
    \/ /\ "dbError" \in Env
       /\ UNCHANGED delivery
       /\ Goto(a, otherwise)
    \/ /\ "dbAckLost" \in Env
       /\ delivery' = [delivery EXCEPT ![task[a]] = row]
       /\ Goto(a, otherwise)

-----------------------------------------------------------------------------
(* The worker.                                                             *)

Take(w, d, location) ==
    /\ pc[w] = "idle"
    /\ JobFetched(w, d)
    /\ Goto(w, location)
    /\ task' = [task EXCEPT ![w] = d]
    /\ UNCHANGED <<delivery, seen, copy, eventFailures, posts, accepted>>

Fetch(w) == \E d \in Deliveries : Take(w, d, "load")

\* const delivery = await getById(deliveryId), outside the try. The row's
\* foreign keys are NOT NULL, so the missing event/destination return
\* is unreachable.
Load(w) ==
    /\ pc[w] = "load"
    /\ \/ /\ seen' = [seen EXCEPT ![w] = delivery[task[w]].attemptCount]
          /\ Goto(w, "mark")
       \/ /\ "dbError" \in Env
          /\ UNCHANGED seen
          /\ Goto(w, "nack")
    /\ UNCHANGED <<delivery, job, task, copy, eventFailures, posts, accepted>>

MarkInProgress(w) ==
    /\ pc[w] = "mark"
    /\ WriteRow(w, InProgress(delivery[task[w]]), "post", "failRead")
    /\ UNCHANGED <<job, task, seen, copy, eventFailures, posts, accepted>>

\* Seeded fault of Post: every answer counts as success.
PostAnyStatus(w) ==
    /\ pc[w] = "post"
    /\ posts' = [posts EXCEPT ![task[w]] = @ + 1]
    /\ \/ accepted' = [accepted EXCEPT ![task[w]] = TRUE]
       \/ UNCHANGED accepted
    /\ Goto(w, "succRead")
    /\ UNCHANGED <<delivery, job, task, seen, copy, eventFailures>>

\* Seeded fault of Post: no timeout, so a destination that never answers
\* holds the worker forever.
PostWithoutTimeout(w) ==
    /\ pc[w] = "post"
    /\ posts' = [posts EXCEPT ![task[w]] = @ + 1]
    /\ \/ /\ accepted' = [accepted EXCEPT ![task[w]] = TRUE]
          /\ Goto(w, "succRead")
       \/ /\ UNCHANGED accepted
          /\ Goto(w, "hung")
    /\ UNCHANGED <<delivery, job, task, seen, copy, eventFailures>>

\* axios.post resolves on a 2xx answer and rejects on any other answer, on a
\* network error and after 10 seconds.
Post(w) ==
    /\ pc[w] = "post"
    /\ posts' = [posts EXCEPT ![task[w]] = @ + 1]
    /\ \/ /\ accepted' = [accepted EXCEPT ![task[w]] = TRUE]
          /\ Goto(w, "succRead")
       \/ /\ UNCHANGED accepted
          /\ Goto(w, "failRead")
    /\ UNCHANGED <<delivery, job, task, seen, copy, eventFailures>>

MarkSuccessRead(w) ==
    /\ pc[w] = "succRead"
    /\ ReadRow(w, "succSave", "failRead")
    /\ UNCHANGED <<delivery, job, task, seen, eventFailures, posts, accepted>>

MarkSuccessSave(w) ==
    /\ pc[w] = "succSave"
    /\ WriteRow(w, Succeeded(copy[w]), "ack", "failRead")
    /\ UNCHANGED <<job, task, seen, copy, eventFailures, posts, accepted>>

MarkFailureRead(w) ==
    /\ pc[w] = "failRead"
    /\ ReadRow(w, "failSave", "nack")
    /\ UNCHANGED <<delivery, job, task, seen, eventFailures, posts, accepted>>

\* Seeded fault of MarkFailureSave: every failure is taken for the final one.
MarkFailureSaveRecords(w) ==
    /\ pc[w] = "failSave"
    /\ WriteRow(w, Failed(copy[w], MaxRetries[task[w]]), "record", "nack")
    /\ UNCHANGED <<job, task, seen, copy, eventFailures, posts, accepted>>

\* Whether the failure is final is decided on the count process() loaded
\* before markFailure added one.
MarkFailureSave(w) ==
    /\ pc[w] = "failSave"
    /\ WriteRow(w, Failed(copy[w], MaxRetries[task[w]]),
                IF seen[w] >= MaxRetries[task[w]] THEN "record" ELSE "nack",
                "nack")
    /\ UNCHANGED <<job, task, seen, copy, eventFailures, posts, accepted>>

\* EventFailureService.recordFailure; either way the job's error is thrown.
RecordFailure(w) ==
    /\ pc[w] = "record"
    /\ \/ eventFailures' = [eventFailures EXCEPT ![task[w]] = @ + 1]
       \/ "dbError" \in Env /\ UNCHANGED eventFailures
    /\ Goto(w, "nack")
    /\ UNCHANGED <<delivery, job, task, seen, copy, posts, accepted>>

Ack(w) ==
    /\ pc[w] = "ack"
    /\ JobCompleted(w, task[w])
    /\ Rest(w)
    /\ UNCHANGED <<delivery, eventFailures, posts, accepted>>

\* Seeded fault of Nack: the error is not rethrown, and the job completes.
NackSwallowed(w) ==
    /\ pc[w] = "nack"
    /\ JobCompleted(w, task[w])
    /\ Rest(w)
    /\ UNCHANGED <<delivery, eventFailures, posts, accepted>>

Nack(w) ==
    /\ pc[w] = "nack"
    /\ JobFailed(w, task[w])
    /\ Rest(w)
    /\ UNCHANGED <<delivery, eventFailures, posts, accepted>>

Process(w) ==
    \/ Load(w) \/ MarkInProgress(w) \/ Post(w)
    \/ MarkSuccessRead(w) \/ MarkSuccessSave(w)
    \/ MarkFailureRead(w) \/ MarkFailureSave(w) \/ RecordFailure(w)
    \/ Ack(w) \/ Nack(w)

-----------------------------------------------------------------------------
(* The administrator.                                                      *)

MarkDeadLetterRead(a) ==
    /\ pc[a] = "idle"
    /\ \E d \in Administered :
         /\ task' = [task EXCEPT ![a] = d]
         /\ copy' = [copy EXCEPT ![a] = delivery[d]]
    /\ Goto(a, "deadSave")
    /\ UNCHANGED <<delivery, job, seen, eventFailures, posts, accepted>>

MarkDeadLetterSave(a) ==
    /\ pc[a] = "deadSave"
    /\ \/ delivery' = [delivery EXCEPT ![task[a]] = DeadLettered(copy[a])]
       \/ "dbError" \in Env /\ UNCHANGED delivery
    /\ Rest(a)
    /\ UNCHANGED <<job, eventFailures, posts, accepted>>

-----------------------------------------------------------------------------
(* The queue and the faults.                                               *)

others == <<delivery, local, eventFailures, posts, accepted>>

Backoff(d) == JobBackoffOver(d) /\ UNCHANGED others
Stall(d)   == JobStalled(d) /\ UNCHANGED others

LockLoss(d) ==
    /\ "lockLoss" \in Env
    /\ JobLockLost(d)
    /\ UNCHANGED others

Crash(w) ==
    /\ "crash" \in Env
    /\ pc[w] # "idle"
    /\ JobAbandoned(w, task[w])
    /\ Rest(w)
    /\ UNCHANGED <<delivery, eventFailures, posts, accepted>>

QueueStep == \E d \in Deliveries : Backoff(d) \/ Stall(d) \/ LockLoss(d)
AdminStep == \E a \in Admins : MarkDeadLetterRead(a) \/ MarkDeadLetterSave(a)

Next ==
    \/ \E w \in Workers : Fetch(w) \/ Process(w) \/ Crash(w)
    \/ QueueStep
    \/ AdminStep

Spec == Init /\ [][Next]_vars

\* A running handler goes on (each await settles, the POST after at most 10
\* seconds), idle workers poll the queue, and the delay and stalled-job
\* timers of BullMQ fire. Faults and administrators owe nothing.
Fairness ==
    /\ \A w \in Workers : WF_vars(Process(w)) /\ WF_vars(Fetch(w))
    /\ \A d \in Deliveries : WF_vars(Backoff(d)) /\ WF_vars(Stall(d))

FairSpec == Spec /\ Fairness

-----------------------------------------------------------------------------
(* Properties.                                                             *)

\* Every variable stays in its type, and an actor holds a delivery exactly
\* while it runs a handler.
TypeOK ==
    /\ delivery \in [Deliveries -> Row]
    /\ job \in [Deliveries -> Job]
    /\ pc \in [Actors -> Location]
    /\ task \in [Actors -> Deliveries \cup {None}]
    /\ seen \in [Actors -> Nat]
    /\ copy \in [Actors -> Row]
    /\ eventFailures \in [Deliveries -> Nat]
    /\ posts \in [Deliveries -> Nat]
    /\ accepted \in [Deliveries -> BOOLEAN]
    /\ \A a \in Actors : pc[a] = "idle" <=> task[a] = None

\* A destination is sent a delivery at most once per configured attempt and
\* once more for every time BullMQ re-queues a stalled job, whatever crashes,
\* lock losses and database errors happen in between.
PostBudget ==
    \A d \in Deliveries : posts[d] <= Attempts(d) + MaxStalledCount

\* A row says SUCCESS only when a worker saw the destination accept the POST,
\* although rows are saved from copies other workers may have outdated.
SuccessIsTruthful ==
    \A d \in Deliveries : delivery[d].status = "success" => accepted[d]

\* The deliveries no administrator has a hand in.
Unattended == Deliveries \ Administered

\* Without an administrator's hand, a row is dead-lettered only after the job
\* was started as often as the destination allows attempts: stale copies
\* never make attemptCount overtake the attempts.
DeadLetterEarned ==
    \A d \in Unattended :
      delivery[d].status = "dead_letter" => Started(d) >= Attempts(d)

\* While locks hold, a job that completed belongs to a row that says SUCCESS:
\* no other attempt can overwrite the row between markSuccess and the end.
CompletedMeansDelivered ==
    \A d \in Unattended :
      job[d].state = "completed" => delivery[d].status = "success"

\* Without faults the row and the job tell the same story whenever no worker
\* holds the delivery: equal counts, and matching states. The count of
\* markFailure and the count of BullMQ, and their two comparisons with
\* maxRetries, are kept by different programs.
RowMirrorsJob ==
    \A d \in Deliveries :
      /\ job[d].state \in {"waiting", "delayed", "failed"}
           => delivery[d].attemptCount = job[d].attemptsMade
      /\ job[d].state = "delayed"   => delivery[d].status = "retrying"
      /\ job[d].state = "failed"   <=>
            delivery[d].status = "dead_letter" /\ job[d].state # "active"
      /\ job[d].state = "completed" => delivery[d].status = "success"

\* While locks hold, an event failure is recorded only for a delivery whose
\* failed attempts went past maxRetries, not when they reach it: a record
\* needs one more run of a job whose row was already exhausted.
EventFailureBeyondBudget ==
    \A d \in Unattended :
      eventFailures[d] > 0 => /\ delivery[d].attemptCount > MaxRetries[d]
                              /\ Started(d) > MaxRetries[d]

\* While locks hold, no save rolls a row's attemptCount back to the older
\* count of the copy it was made from.
AttemptCountNeverDrops ==
    [][\A d \in Unattended :
         delivery'[d].attemptCount >= delivery[d].attemptCount]_vars

\* The row's life as DeliveryLifecycle promises it.
Lifecycle == INSTANCE DeliveryLifecycle WITH
    status <- [d \in Deliveries |-> delivery[d].status],
    failures <- [d \in Deliveries |-> delivery[d].attemptCount]

ImplementsFairLifecycle == Lifecycle!FairSpec

\* Every job ends, under every combination of faults.
JobsSettle == \A d \in Deliveries : <>[]Finished(d)

\* delivery.worker.ts:86-90, "record EVENT-level failure ONLY if final failure
\* (i.e. if we've exhausted all retries ... record it in the event_failures
\* table)": a dead-lettered delivery whose job is over has its record.
FinalFailureRecorded ==
    \A d \in Deliveries :
      job[d].state = "failed" /\ delivery[d].status = "dead_letter"
        => eventFailures[d] > 0
=============================================================================
