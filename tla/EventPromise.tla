---------------------------- MODULE EventPromise ---------------------------
(***************************************************************************)
(* What the platform promises about an event, whoever fans it out: a       *)
(* destination that a fan-out chose is owed the event, the debt is settled *)
(* once, by a delivery or by giving up, and each time the platform gave up *)
(* the event is fanned out at most once more.                              *)
(***************************************************************************)
CONSTANTS
    Requests,      \* fan-outs of logged events
    Replays,       \* fan-outs of replays
    Destinations

Debts == (Requests \cup Replays) \X Destinations

VARIABLES
    owed,        \* the debts somebody took on
    delivered,   \* those a destination accepted
    givenUp,     \* those given up
    replayed     \* given-up debts for which the event was fanned out again

vars == <<owed, delivered, givenUp, replayed>>

Init == owed = {} /\ delivered = {} /\ givenUp = {} /\ replayed = {}

\* Fan-out f takes on its debts, all at once and only once.
Owe(f, chosen) ==
    /\ chosen # {}
    /\ owed \cap ({f} \X Destinations) = {}
    /\ owed' = owed \cup ({f} \X chosen)
    /\ UNCHANGED <<delivered, givenUp>>

FanOut(r) ==
    /\ \E chosen \in SUBSET Destinations : Owe(r, chosen)
    /\ UNCHANGED replayed

Replay(f) ==
    /\ \E chosen \in SUBSET Destinations : Owe(f, chosen)
    /\ \E debt \in givenUp \ replayed : replayed' = replayed \cup {debt}

Settled == delivered \cup givenUp

Deliver(debt) ==
    /\ debt \in owed \ Settled
    /\ delivered' = delivered \cup {debt}
    /\ UNCHANGED <<owed, givenUp, replayed>>

GiveUp(debt) ==
    /\ debt \in owed \ Settled
    /\ givenUp' = givenUp \cup {debt}
    /\ UNCHANGED <<owed, delivered, replayed>>

Settle(debt) == Deliver(debt) \/ GiveUp(debt)

Next ==
    \/ \E r \in Requests : FanOut(r)
    \/ \E f \in Replays : Replay(f)
    \/ \E debt \in Debts : Settle(debt)

Spec == Init /\ [][Next]_vars

\* Every debt that can be settled is.
FairSpec == Spec /\ \A debt \in Debts : WF_vars(Settle(debt))
=============================================================================
