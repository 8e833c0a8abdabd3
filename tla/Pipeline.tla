------------------------------ MODULE Pipeline -----------------------------
(***************************************************************************)
(* The platform from logEvent to the replay of what failed: EventReplay    *)
(* fills the queue 'webhook-delivery', DeliveryWorkers run its jobs, and a *)
(* delivery they give up becomes a failure that a replay batch finds.      *)
(*                                                                         *)
(* Slots number the rows of `deliveries` that a run can make. The worker's *)
(* half of row i, and its job, are work[i] and jobs[i]; they mean nothing  *)
(* before i is in the queue. The event failure that a worker records for   *)
(* delivery i has the id i. Slots is a bound: a run of the program makes   *)
(* any number of rows, and a job beyond Slots is never taken here.         *)
(*                                                                         *)
(* RetriesOf is maxRetries of the destination that a slot is for. Any      *)
(* limits are admitted, although a slot's destination is only known when   *)
(* its row is made: whatever the destinations' limits are, some RetriesOf  *)
(* fits the rows of a run.                                                 *)
(*                                                                         *)
(* There are no faults here. process() then records an event failure only  *)
(* for a delivery that has no retries (see RecordedIfUnretried): one that  *)
(* is given up after retries, as with the default limit of 3, is never     *)
(* replayed.                                                               *)
(***************************************************************************)
EXTENDS EventReplay

CONSTANTS
    Slots,     \* the rows whose jobs are taken, 1 .. some number
    RetriesOf, \* destination.maxRetries of each slot
    Workers,   \* workers of 'webhook-delivery'
    None

ASSUME SlotsAssumption == Failures = Slots
ASSUME RetriesOfAssumption == RetriesOf \in [Slots -> Nat]
ASSUME PipeWorkersAssumption ==
    IsFiniteSet(Workers) /\ None \notin Workers /\ None \notin Slots

VARIABLES
    work, jobs, wpc, wtask, wseen, wcopy, recorded, posts, accepted

workVars == <<work, jobs, wpc, wtask, wseen, wcopy, recorded, posts, accepted>>
pipeVars == <<allVars, workVars>>

Worker == INSTANCE DeliveryWorker WITH
    Deliveries <- Slots,
    MaxRetries <- RetriesOf,
    MaxStalledCount <- 1,
    Admins <- {},
    Administered <- {},
    Env <- {},
    delivery <- work,
    job <- jobs,
    pc <- wpc,
    task <- wtask,
    seen <- wseen,
    copy <- wcopy,
    eventFailures <- recorded

PipeInit == ReplayInit /\ Worker!Init

\* A worker gets a job that a fan-out added.
FetchJob(w) ==
    /\ \E i \in queue \cap Slots : Worker!Take(w, i, "load")
    /\ UNCHANGED allVars

\* Seeded fault of RecordEventFailure: the failure is counted, not stored.
RecordEventFailureLost(w) == Worker!RecordFailure(w) /\ UNCHANGED allVars

\* The call of recordFailure and the row it inserts.
RecordEventFailure(w) ==
    /\ Worker!RecordFailure(w)
    /\ RecordFailureOf(wtask[w], wtask[w])

RunJob(w) ==
    \/ RecordEventFailure(w)
    \/ wpc[w] # "record" /\ Worker!Process(w) /\ UNCHANGED allVars

\* A delivery that failed waits for its next attempt no longer.
RetryJob ==
    /\ \E i \in queue \cap Slots : Worker!Backoff(i)
    /\ UNCHANGED allVars

\* What EventReplay does goes on beside the workers, but failures come from
\* them alone.
FanOutStep ==
    /\ \/ Next /\ UNCHANGED replayVars
       \/ \E b \in Batches : BatchStep(b)
       \/ \E j \in ReplayJobs : ReplayStep(j)
    /\ UNCHANGED workVars

PipeNext ==
    \/ FanOutStep
    \/ \E w \in Workers : FetchJob(w) \/ RunJob(w)
    \/ RetryJob

\* The fairness of EventReplay and of DeliveryWorker, or less: calls of
\* logEvent and batches that started go on, some replay job goes on while one
\* can, and so do a running handler, the hand-out of jobs and the delay timer.
PipeFairness ==
    /\ WF_pipeVars(/\ \E r \in Requests : pc[r] # "idle" /\ LogEventStep(r)
                   /\ UNCHANGED <<replayVars, workVars>>)
    /\ WF_pipeVars(BranchStep /\ UNCHANGED <<replayVars, workVars>>)
    /\ WF_pipeVars(/\ \E b \in Batches : batch[b] # "idle" /\ BatchStep(b)
                   /\ UNCHANGED workVars)
    /\ WF_pipeVars((\E j \in ReplayJobs : ReplayStep(j)) /\ UNCHANGED workVars)
    /\ WF_pipeVars(\E w \in Workers : FetchJob(w))
    /\ \A w \in Workers : WF_pipeVars(RunJob(w))
    /\ WF_pipeVars(RetryJob)

PipeSpec == PipeInit /\ [][PipeNext]_pipeVars /\ PipeFairness

-----------------------------------------------------------------------------
(* Properties.                                                             *)

\* A delivery that was given up is a failure that a replay batch can find, of
\* the event it carried, if its destination has no retries. After retries the
\* failure is not recorded, and nothing else is recorded either.
RecordedIfUnretried ==
    \A i \in Slots :
      /\ jobs[i].state = "failed" =>
           failedEvent[i] = IF RetriesOf[i] = 0 THEN deliveries[i].event ELSE NoEvent
      /\ failedEvent[i] # NoEvent => RetriesOf[i] = 0 /\ work[i].status = "dead_letter"

DebtOf(i) == <<deliveries[i].fanout, deliveries[i].destination>>
DebtsOf(status) ==
    {DebtOf(i) : i \in {k \in queue \cap Slots : work[k].status = status}}

\* The promise about events, as the columns of `deliveries` tell it: a row
\* that says success or dead_letter has settled what a fan-out owed, for good,
\* and overlapping batches replay what was given up once. (A replay may start
\* before the job of the dead-lettered row has ended.)
Promise == INSTANCE EventPromise WITH
    Replays <- ReplayJobs,
    owed <- UNION {{f} \X targets[f] : f \in Fanouts},
    delivered <- DebtsOf("success"),
    givenUp <- DebtsOf("dead_letter"),
    replayed <- {DebtOf(FailureOf(j)) : j \in {k \in ReplayJobs : targets[k] # {}}}

ImplementsEventPromise == Promise!FairSpec
=============================================================================
