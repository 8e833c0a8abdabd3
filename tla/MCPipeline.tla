----------------------------- MODULE MCPipeline ----------------------------
(* Instance of Pipeline for TLC: one event, one destination, and two       *)
(* batches, each of which can replay one failure, so that at most three    *)
(* rows are made.                                                          *)
EXTENDS Pipeline

CONSTANTS r1, dA, t1, b1, b2, w1

Calls ==
    [r \in {r1} |-> [tenant |-> t1, type |-> "TENANT.USER_ADDED",
                     payload |-> {<<"userId", "number">>}, key |-> NoKey]]

Subscriptions ==
    [d \in Destinations |-> [tenant |-> t1, type |-> "TENANT.USER_ADDED"]]

AllFanouts == Requests \cup (Batches \X Failures)

\* Rows 1 and 2 have no retries. Row 3 is made only for the failure of row 2,
\* after that was given up; by then the destination has two attempts.
RaisedBeforeThird == [i \in Slots |-> IF i < 3 THEN 0 ELSE 2]
=============================================================================
