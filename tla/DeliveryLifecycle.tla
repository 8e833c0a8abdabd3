------------------------- MODULE DeliveryLifecycle -------------------------
(***************************************************************************)
(* What the row of a delivery promises to whoever reads it: it starts      *)
(* pending, is tried until the destination accepts it or maxRetries        *)
(* attempts failed, and its final status never changes. The transitions    *)
(* are those of markInProgress, markSuccess and markFailure in             *)
(* delivery.service.ts, each as one atomic step; DeliveryWorker implements *)
(* them with reads, stale copies and saves.                                *)
(***************************************************************************)
EXTENDS Integers

CONSTANTS Deliveries, MaxRetries

VARIABLES status, failures

rows == <<status, failures>>

Settled(d) == status[d] \in {"success", "dead_letter"}

Init ==
    /\ status = [d \in Deliveries |-> "pending"]
    /\ failures = [d \in Deliveries |-> 0]

Begin(d) ==
    /\ status[d] = "pending"
    /\ status' = [status EXCEPT ![d] = "in_progress"]
    /\ UNCHANGED failures

Succeed(d) ==
    /\ status[d] \in {"in_progress", "retrying"}
    /\ status' = [status EXCEPT ![d] = "success"]
    /\ UNCHANGED failures

Retry(d) ==
    /\ ~Settled(d)
    /\ failures[d] + 1 < MaxRetries[d]
    /\ status' = [status EXCEPT ![d] = "retrying"]
    /\ failures' = [failures EXCEPT ![d] = @ + 1]

GiveUp(d) ==
    /\ ~Settled(d)
    /\ failures[d] + 1 >= MaxRetries[d]
    /\ status' = [status EXCEPT ![d] = "dead_letter"]
    /\ failures' = [failures EXCEPT ![d] = @ + 1]

Advance(d) == Begin(d) \/ Succeed(d) \/ Retry(d) \/ GiveUp(d)

Next == \E d \in Deliveries : Advance(d)

Spec == Init /\ [][Next]_rows

\* Every delivery is pursued to its end.
FairSpec == Spec /\ \A d \in Deliveries : WF_rows(Advance(d))
=============================================================================
