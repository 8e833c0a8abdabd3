-------------------------- MODULE WebhookProcessor -------------------------
(***************************************************************************)
(* WebhookProcessor.process (webhooks/webhook.worker.ts): the class that   *)
(* carries @Processor('webhook-delivery'). Its actors, Processors, take    *)
(* jobs from the same queue as the DeliveryWorkers of DeliveryWorker; a    *)
(* run with Processors = Workers has only them.                            *)
(*                                                                         *)
(* The class reports each attempt with DeliveryService.recordAttempt, a    *)
(* method DeliveryService does not have. Whatever the destination answers, *)
(* the call throws a TypeError, the catch block calls it again, and the    *)
(* second TypeError leaves process(): every POST ends in a failed attempt  *)
(* and the row is never written.                                           *)
(***************************************************************************)
EXTENDS DeliveryWorker

CONSTANT Processors

ASSUME ProcessorsAssumption == Processors \subseteq Workers

ProcessorFetch(w) == \E d \in Deliveries : Take(w, d, "procLoad")

\* Seeded fault of ProcessorLoad: no check for SUCCESS.
ProcessorLoadUnchecked(w) ==
    /\ pc[w] = "procLoad"
    /\ \/ Goto(w, "procPost")
       \/ "dbError" \in Env /\ Goto(w, "nack")
    /\ UNCHANGED <<delivery, job, task, seen, copy, eventFailures, posts, accepted>>

\* getById, then "Prevent duplicate execution": a row that says SUCCESS ends
\* the job without a POST.
ProcessorLoad(w) ==
    /\ pc[w] = "procLoad"
    /\ \/ delivery[task[w]].status = "success" /\ Goto(w, "ack")
       \/ delivery[task[w]].status # "success" /\ Goto(w, "procPost")
       \/ "dbError" \in Env /\ Goto(w, "nack")
    /\ UNCHANGED <<delivery, job, task, seen, copy, eventFailures, posts, accepted>>

\* Seeded fault of ProcessorPost: the catch block sends the POST again.
ProcessorPostAgain(w) ==
    /\ pc[w] = "procPost"
    /\ posts' = [posts EXCEPT ![task[w]] = @ + 1]
    /\ \/ Goto(w, "nack")
       \/ UNCHANGED pc
    /\ UNCHANGED <<delivery, job, task, seen, copy, eventFailures, accepted>>

\* fetch(destination.url), aborted after 10 seconds, and the recordAttempt
\* call that throws in every branch.
ProcessorPost(w) ==
    /\ pc[w] = "procPost"
    /\ posts' = [posts EXCEPT ![task[w]] = @ + 1]
    /\ \/ accepted' = [accepted EXCEPT ![task[w]] = TRUE]
       \/ UNCHANGED accepted
    /\ Goto(w, "nack")
    /\ UNCHANGED <<delivery, job, task, seen, copy, eventFailures>>

ProcessorProcess(w) == ProcessorLoad(w) \/ ProcessorPost(w) \/ Ack(w) \/ Nack(w)

ProcessorNext ==
    \/ \E w \in Processors : ProcessorFetch(w) \/ ProcessorProcess(w) \/ Crash(w)
    \/ \E w \in Workers \ Processors : Fetch(w) \/ Process(w) \/ Crash(w)
    \/ QueueStep
    \/ AdminStep

ProcessorSpec == Init /\ [][ProcessorNext]_vars

-----------------------------------------------------------------------------
(* Properties.                                                             *)

\* While locks hold, the SUCCESS check of the processor is not stale when the
\* POST goes out: between the two nobody else makes the row say SUCCESS. What
\* the row said earlier is another matter. A DeliveryWorker may have saved
\* SUCCESS and died before the job ended; a rerun by a DeliveryWorker that fails
\* writes RETRYING over it, or an administrator DEAD_LETTER, and the processor
\* then sends the delivery again.
ProcessorHonoursSuccess ==
    [][\A w \in Processors :
         ProcessorPost(w) => delivery[task[w]].status # "success"]_vars
=============================================================================
