---------------------------- MODULE EventReplay ----------------------------
(***************************************************************************)
(* The replay of failed events, on top of EventFanout: failures that a     *)
(* delivery worker recorded are put on the queue 'event-replay' by         *)
(* EventService.enqueueReplayBatch, and EventReplayWorker.process fans the *)
(* event of a failure out again and marks the failure replayed.            *)
(*                                                                         *)
(* The job that batch b adds for failure f is <<b, f>>; it is one more     *)
(* member of Fanouts. It is added without attempts, so BullMQ runs it once *)
(* and, when its worker dies, once more after it stalled.                  *)
(***************************************************************************)
EXTENDS EventFanout

CONSTANTS
    Batches,        \* calls of enqueueReplayBatch
    Failures,       \* ids of the rows of `event_failures`
    ReplayLimit,    \* enqueueReplayBatch's limit, 100 unless given
    ReplayWorkers   \* how many jobs of 'event-replay' run at once

ReplayJobs == Batches \X Failures

ASSUME ReplayFanoutsAssumption ==
    Fanouts = Requests \cup ReplayJobs /\ Requests \cap ReplayJobs = {}
ASSUME ReplayLimitAssumption == ReplayLimit \in Nat \ {0}
ASSUME ReplayWorkersAssumption == ReplayWorkers \in Nat \ {0}

VARIABLES
    failedEvent,   \* each failure row's eventId, NoEvent when not recorded
    replayed,      \* the failures whose column replayed is true
    batch,         \* each batch: "idle", "adding", "done" or "threw"
    todo,          \* the failures a batch found and has still to enqueue
    stalled        \* the replay jobs that stalled once

replayVars == <<failedEvent, replayed, batch, todo, stalled>>
allVars == <<vars, replayVars>>

ReplayInit ==
    /\ Init
    /\ failedEvent = [f \in Failures |-> NoEvent]
    /\ replayed = {}
    /\ batch = [b \in Batches |-> "idle"]
    /\ todo = [b \in Batches |-> {}]
    /\ stalled = {}

\* EventFailureService.recordFailure, called by a DeliveryWorker for the
\* delivery i it took from the queue.
RecordFailureOf(f, i) ==
    /\ failedEvent[f] = NoEvent
    /\ failedEvent' = [failedEvent EXCEPT ![f] = deliveries[i].event]
    /\ UNCHANGED <<vars, replayed, batch, todo, stalled>>

RecordFailure(f) == \E i \in queue : RecordFailureOf(f, i)

-----------------------------------------------------------------------------
(* enqueueReplayBatch.                                                     *)

Unreplayed == {f \in Failures : failedEvent[f] # NoEvent /\ f \notin replayed}

AtMost(n, S) == {T \in SUBSET S : \/ T = S /\ Cardinality(S) <= n
                                  \/ Cardinality(T) = n}

\* find({replayed: false}, take: limit), in no declared order. Nothing looks
\* whether a failure already waits on the queue.
FindFailures(b) ==
    /\ batch[b] = "idle"
    /\ \/ /\ \E T \in AtMost(ReplayLimit, Unreplayed) :
               todo' = [todo EXCEPT ![b] = T]
          /\ batch' = [batch EXCEPT ![b] = "adding"]
       \/ /\ Fault("dbError")
          /\ batch' = [batch EXCEPT ![b] = "threw"]
          /\ UNCHANGED todo
    /\ UNCHANGED <<vars, failedEvent, replayed, stalled>>

\* One await replayQueue.add(...) of the loop; a failed add ends the batch.
EnqueueFailure(b) ==
    /\ batch[b] = "adding"
    /\ \E f \in todo[b] :
         \/ /\ Goto(<<b, f>>, "waiting")
            /\ todo' = [todo EXCEPT ![b] = @ \ {f}]
            /\ UNCHANGED batch
         \/ /\ Fault("queueError")
            /\ batch' = [batch EXCEPT ![b] = "threw"]
            /\ todo' = [todo EXCEPT ![b] = {}]
            /\ UNCHANGED pc
    /\ UNCHANGED <<eventVars, destination, storeVars, fanoutVars,
                   failedEvent, replayed, stalled>>

FinishBatch(b) ==
    /\ batch[b] = "adding"
    /\ todo[b] = {}
    /\ batch' = [batch EXCEPT ![b] = "done"]
    /\ UNCHANGED <<vars, failedEvent, replayed, todo, stalled>>

-----------------------------------------------------------------------------
(* EventReplayWorker.process.                                              *)

FailureOf(j) == j[2]

InQueue == {"idle", "waiting", "done", "failed"}
Running == {j \in ReplayJobs : pc[j] \notin InQueue}

TakeReplayJob(j) ==
    /\ pc[j] = "waiting"
    /\ Cardinality(Running) < ReplayWorkers
    /\ Goto(j, "loadFailure")
    /\ UNCHANGED <<eventVars, destination, storeVars, fanoutVars, replayVars>>

\* Seeded fault of LoadFailure: no check of `replayed`.
LoadFailureUnchecked(j) ==
    /\ pc[j] = "loadFailure"
    /\ Goto(j, "loadEvent")
    /\ UNCHANGED <<eventVars, destination, storeVars, fanoutVars, replayVars>>

\* findOne of the failure, and the return when it was replayed meanwhile
LoadFailure(j) ==
    /\ pc[j] = "loadFailure"
    /\ \/ FailureOf(j) \in replayed /\ Goto(j, "done")
       \/ FailureOf(j) \notin replayed /\ Goto(j, "loadEvent")
       \/ Fault("dbError") /\ Goto(j, "failed")
    /\ UNCHANGED <<eventVars, destination, storeVars, fanoutVars, replayVars>>

\* Seeded fault of LoadEvent: the failure is marked before the fan-out.
LoadEventMarks(j) ==
    /\ pc[j] = "loadEvent"
    /\ Goto(j, "find")
    /\ replayed' = replayed \cup {FailureOf(j)}
    /\ UNCHANGED <<eventVars, destination, storeVars, fanoutVars,
                   failedEvent, batch, todo, stalled>>

\* Seeded fault of LoadEvent: an event still being fanned out is skipped.
LoadEventSkips(j) ==
    /\ pc[j] = "loadEvent"
    /\ Goto(j, IF failedEvent[FailureOf(j)] \in fanoutCompleted THEN "find" ELSE "done")
    /\ UNCHANGED <<eventVars, destination, storeVars, fanoutVars, replayVars>>

\* findOne of the event, which nothing deletes
LoadEvent(j) ==
    /\ pc[j] = "loadEvent"
    /\ \/ Goto(j, "find")
       \/ Fault("dbError") /\ Goto(j, "failed")
    /\ UNCHANGED <<eventVars, destination, storeVars, fanoutVars, replayVars>>

\* eventFailureRepo.update(failure.id, {replayed: true})
MarkReplayed(j) ==
    /\ pc[j] = "complete"
    /\ \/ replayed' = replayed \cup {FailureOf(j)} /\ Goto(j, "done")
       \/ Fault("dbError") /\ UNCHANGED replayed /\ Goto(j, "failed")
    /\ UNCHANGED <<eventVars, destination, storeVars, fanoutVars,
                   failedEvent, batch, todo, stalled>>

\* fanout() threw: the job fails and is not tried again.
ReplayRejected(j) ==
    /\ pc[j] = "rejected"
    /\ Goto(j, "failed")
    /\ UNCHANGED <<eventVars, destination, storeVars, fanoutVars, replayVars>>

ReplayStep(j) ==
    \/ TakeReplayJob(j) \/ LoadFailure(j) \/ LoadEvent(j)
    \/ /\ FindDestinations(j, failedEvent[FailureOf(j)]) \/ Await(j)
       /\ UNCHANGED replayVars
    \/ MarkReplayed(j) \/ ReplayRejected(j)

\* The replay worker dies; its job stalls and is queued again, once.
ReplayCrash(j) ==
    /\ pc[j] \notin InQueue
    /\ Crash(j, IF j \in stalled THEN "failed" ELSE "waiting")
    /\ stalled' = stalled \cup {j}
    /\ UNCHANGED <<failedEvent, replayed, batch, todo>>

BatchStep(b) == FindFailures(b) \/ EnqueueFailure(b) \/ FinishBatch(b)

ReplayNext ==
    \/ Next /\ UNCHANGED replayVars
    \/ \E f \in Failures : RecordFailure(f)
    \/ \E b \in Batches : BatchStep(b)
    \/ \E j \in ReplayJobs : ReplayStep(j) \/ ReplayCrash(j)

ReplaySpec == ReplayInit /\ [][ReplayNext]_allVars

\* As EventFanout's fairness; a batch that started goes on, and the worker
\* of 'event-replay' keeps taking jobs.
ReplayFairness ==
    /\ \A r \in Requests : WF_allVars(pc[r] # "idle" /\ LogEventStep(r)
                                        /\ UNCHANGED replayVars)
    /\ WF_allVars(BranchStep /\ UNCHANGED replayVars)
    /\ \A b \in Batches : WF_allVars(batch[b] # "idle" /\ BatchStep(b))
    /\ \A j \in ReplayJobs : WF_allVars(ReplayStep(j))

ReplayFairSpec == ReplaySpec /\ ReplayFairness

-----------------------------------------------------------------------------
(* Properties.                                                             *)

\* A failure is marked replayed only when some job of it queued a new
\* delivery for every destination it found active, whatever failed, crashed
\* or is still running in other jobs of the same failure.
ReplayedMeansRequeued ==
    \A f \in replayed : \E b \in Batches :
      /\ pc[<<b, f>>] = "done"
      /\ \A d \in targets[<<b, f>>] : \E i \in queue :
           /\ deliveries[i].fanout = <<b, f>>
           /\ deliveries[i].destination = d
           /\ deliveries[i].event = failedEvent[f]

\* Without faults, a failure that a batch picked up is eventually replayed.
PickedUpIsReplayed ==
    \A f \in Failures : (\E b \in Batches : f \in todo[b]) ~> f \in replayed
=============================================================================
