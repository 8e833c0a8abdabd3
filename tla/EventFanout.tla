---------------------------- MODULE EventFanout ----------------------------
(***************************************************************************)
(* EventService.logEvent and EventFanoutService.fanout: an event is stored *)
(* once per idempotency key, then a delivery row and a queue job are made  *)
(* for each active destination of its tenant and type.                     *)
(*                                                                         *)
(* Each element of Requests is one call of logEvent; its event, if it      *)
(* inserts one, has the request for a uuid. fanout() runs its branches     *)
(* under Promise.all: they interleave, and when one of them throws the     *)
(* caller goes on at once while the others keep running. A fan-out is      *)
(* therefore a set of branches apart from its caller. The operators of a   *)
(* fan-out take any member of Fanouts: EventReplay starts more of them.    *)
(*                                                                         *)
(* Env names the faults a run admits: "dbError" (a statement fails and has *)
(* no effect), "queueError" (queue.add fails), "crash" (the process that   *)
(* runs a fan-out dies with all its branches).                             *)
(***************************************************************************)
EXTENDS EventRegistry, Naturals, Sequences, FiniteSets

CONSTANTS
    Requests,       \* calls of logEvent
    RequestOf,      \* their arguments: tenant, type, payload, key
    Fanouts,        \* whoever may run fanout(), Requests among them
    Destinations,   \* ids of `destinations`
    DestinationOf,  \* their columns tenant and type
    NoKey,          \* options.idempotencyKey is undefined
    NoEvent,        \* no event was returned
    Env

ASSUME FanoutsAssumption == Requests \subseteq Fanouts /\ NoEvent \notin Requests
ASSUME FanoutEnvAssumption == Env \subseteq {"dbError", "queueError", "crash"}

VARIABLES
    events,           \* ids of the rows of `events`
    fanoutCompleted,  \* the events whose column fanoutCompleted is true
    destination,      \* each destination: "absent", "active" or "disabled"
    deliveries,       \* rows of `deliveries`; a row's id is its index
    queue,            \* delivery ids with a job in 'webhook-delivery'
    pc,               \* where each caller is
    targets,          \* fanout()'s local `destinations`
    branches,         \* the branches of Promise.all still running
    rejected,         \* fan-outs one of whose branches, or whose find, threw
    returned          \* the event logEvent returned

eventVars == <<events, fanoutCompleted, returned>>
storeVars == <<deliveries, queue>>
fanoutVars == <<targets, branches, rejected>>
vars == <<eventVars, destination, storeVars, pc, fanoutVars>>

Goto(f, location) == pc' = [pc EXCEPT ![f] = location]

Fault(kind) == kind \in Env

Init ==
    /\ events = {}
    /\ fanoutCompleted = {}
    /\ destination \in [Destinations -> {"absent", "active"}]
    /\ deliveries = <<>>
    /\ queue = {}
    /\ pc = [f \in Fanouts |-> "idle"]
    /\ targets = [f \in Fanouts |-> {}]
    /\ branches = {}
    /\ rejected = {}
    /\ returned = [r \in Requests |-> NoEvent]

-----------------------------------------------------------------------------
(* logEvent.                                                               *)

KeyOf(r)  == RequestOf[r].key
TypeOf(r) == RequestOf[r].type

WithKeyOf(r) == {e \in events : KeyOf(r) # NoKey /\ KeyOf(e) = KeyOf(r)}

\* Up to the first await: the registry and payload checks.
LogEvent(r) ==
    /\ pc[r] = "idle"
    /\ \/ /\ ~Loggable(TypeOf(r), RequestOf[r].payload)
          /\ Goto(r, "threw")
       \/ /\ Loggable(TypeOf(r), RequestOf[r].payload)
          /\ Goto(r, IF KeyOf(r) = NoKey THEN "insert" ELSE "lookup")
    /\ UNCHANGED <<eventVars, destination, storeVars, fanoutVars>>

\* findOne by idempotencyKey alone: neither tenant nor type is compared.
FindExisting(r) ==
    /\ pc[r] = "lookup"
    /\ \/ /\ \E e \in WithKeyOf(r) : returned' = [returned EXCEPT ![r] = e]
          /\ Goto(r, "returned")
       \/ /\ WithKeyOf(r) = {}
          /\ Goto(r, "insert")
          /\ UNCHANGED returned
       \/ /\ Fault("dbError")
          /\ Goto(r, "threw")
          /\ UNCHANGED returned
    /\ UNCHANGED <<events, fanoutCompleted, destination, storeVars, fanoutVars>>

\* Seeded faults of InsertEvent: no unique index; its error swallowed.
InsertEventUnindexed(r) ==
    /\ pc[r] = "insert"
    /\ events' = events \cup {r}
    /\ Goto(r, "find")
    /\ UNCHANGED <<fanoutCompleted, returned, destination, storeVars, fanoutVars>>
InsertEventSwallows(r) ==
    /\ pc[r] = "insert"
    /\ IF WithKeyOf(r) = {}
       THEN events' = events \cup {r} /\ Goto(r, "find") /\ UNCHANGED returned
       ELSE /\ Goto(r, "returned")
            /\ returned' = [returned EXCEPT ![r] = r]
            /\ UNCHANGED events
    /\ UNCHANGED <<fanoutCompleted, destination, storeVars, fanoutVars>>

\* The INSERT, refused by the unique index when a racing call came first.
InsertEvent(r) ==
    /\ pc[r] = "insert"
    /\ \/ /\ WithKeyOf(r) = {}
          /\ events' = events \cup {r}
          /\ IF Registry[TypeOf(r)].webhookEnabled
             THEN Goto(r, "find") /\ UNCHANGED returned
             ELSE Goto(r, "returned") /\ returned' = [returned EXCEPT ![r] = r]
       \/ /\ WithKeyOf(r) # {} \/ Fault("dbError")
          /\ Goto(r, "threw")
          /\ UNCHANGED <<events, returned>>
    /\ UNCHANGED <<fanoutCompleted, destination, storeVars, fanoutVars>>

\* Seeded fault of CompleteFanout: the flag is set but the event not saved.
CompleteFanoutUnsaved(r) ==
    /\ pc[r] = "complete"
    /\ Goto(r, "returned")
    /\ returned' = [returned EXCEPT ![r] = r]
    /\ UNCHANGED <<events, fanoutCompleted, destination, storeVars, fanoutVars>>

\* fanout() resolved: fanoutCompleted is saved. When the save throws, the
\* catch logs it; logEvent returns the event either way.
CompleteFanout(r) ==
    /\ pc[r] = "complete"
    /\ \/ fanoutCompleted' = fanoutCompleted \cup {r}
       \/ Fault("dbError") /\ UNCHANGED fanoutCompleted
    /\ Goto(r, "returned")
    /\ returned' = [returned EXCEPT ![r] = r]
    /\ UNCHANGED <<events, destination, storeVars, fanoutVars>>

\* fanout() rejected: the catch logs it and the event is returned.
SwallowRejection(r) ==
    /\ pc[r] = "rejected"
    /\ Goto(r, "returned")
    /\ returned' = [returned EXCEPT ![r] = r]
    /\ UNCHANGED <<events, fanoutCompleted, destination, storeVars, fanoutVars>>

-----------------------------------------------------------------------------
(* fanout(event), run by f.                                                *)

\* Seeded fault of ActiveFor: the query forgets the tenant.
ActiveForAnyTenant(e) ==
    {d \in Destinations : /\ destination[d] = "active"
                          /\ DestinationOf[d].type = TypeOf(e)}

\* findActiveForEvent
ActiveFor(e) ==
    {d \in Destinations : /\ destination[d] = "active"
                          /\ DestinationOf[d].tenant = RequestOf[e].tenant
                          /\ DestinationOf[d].type = TypeOf(e)}

FindDestinations(f, e) ==
    /\ pc[f] = "find"
    /\ \/ /\ targets' = [targets EXCEPT ![f] = ActiveFor(e)]
          /\ branches' = branches \cup
               {[fanout |-> f, event |-> e, destination |-> d, row |-> 0] :
                  d \in ActiveFor(e)}
          /\ Goto(f, "await")
       \/ /\ Fault("dbError")
          /\ Goto(f, "rejected")
          /\ UNCHANGED <<targets, branches>>
    /\ UNCHANGED <<eventVars, destination, storeVars, rejected>>

\* A branch threw: Promise.all rejects.
Reject(b) ==
    /\ branches' = branches \ {b}
    /\ rejected' = rejected \cup {b.fanout}

\* DeliveryService.create, the first await of a branch
CreateDelivery(b) ==
    /\ b.row = 0
    /\ \/ /\ deliveries' = Append(deliveries,
               [event |-> b.event, destination |-> b.destination,
                fanout |-> b.fanout])
          /\ branches' = (branches \ {b})
                           \cup {[b EXCEPT !.row = Len(deliveries) + 1]}
          /\ UNCHANGED rejected
       \/ /\ Fault("dbError")
          /\ Reject(b)
          /\ UNCHANGED deliveries
    /\ UNCHANGED <<eventVars, destination, queue, pc, targets>>

\* Seeded fault of AddJob: a failed add starts the branch again.
AddJobRetries(b) ==
    /\ b.row # 0
    /\ \/ /\ queue' = queue \cup {b.row}
          /\ branches' = branches \ {b}
       \/ /\ Fault("queueError")
          /\ branches' = (branches \ {b}) \cup {[b EXCEPT !.row = 0]}
          /\ UNCHANGED queue
    /\ UNCHANGED <<eventVars, destination, deliveries, pc, targets, rejected>>

\* webhookQueue.add('send-webhook', {deliveryId}), the second
AddJob(b) ==
    /\ b.row # 0
    /\ \/ /\ queue' = queue \cup {b.row}
          /\ branches' = branches \ {b}
          /\ UNCHANGED rejected
       \/ /\ Fault("queueError")
          /\ Reject(b)
          /\ UNCHANGED queue
    /\ UNCHANGED <<eventVars, destination, deliveries, pc, targets>>

BranchesOf(f) == {b \in branches : b.fanout = f}

\* Seeded fault of Await: Promise.allSettled, which never rejects.
AwaitSettled(f) ==
    /\ pc[f] = "await"
    /\ BranchesOf(f) = {}
    /\ Goto(f, "complete")
    /\ UNCHANGED <<eventVars, destination, storeVars, fanoutVars>>

\* await Promise.all(...)
Await(f) ==
    /\ pc[f] = "await"
    /\ \/ f \in rejected /\ Goto(f, "rejected")
       \/ f \notin rejected /\ BranchesOf(f) = {} /\ Goto(f, "complete")
    /\ UNCHANGED <<eventVars, destination, storeVars, fanoutVars>>

-----------------------------------------------------------------------------
(* Destinations and faults.                                                *)

\* DestinationService.create
CreateDestination(d) ==
    /\ destination[d] = "absent"
    /\ destination' = [destination EXCEPT ![d] = "active"]
    /\ UNCHANGED <<eventVars, storeVars, pc, fanoutVars>>

\* DestinationService.disable: nothing already fanned out is recalled.
DisableDestination(d) ==
    /\ destination[d] = "active"
    /\ destination' = [destination EXCEPT ![d] = "disabled"]
    /\ UNCHANGED <<eventVars, storeVars, pc, fanoutVars>>

\* The process that runs f dies, with the branches still in flight.
Crash(f, location) ==
    /\ Fault("crash")
    /\ pc[f] \notin {"idle", "crashed"}
    /\ pc[f] \notin {"returned", "threw"} \/ BranchesOf(f) # {}
    /\ Goto(f, location)
    /\ branches' = branches \ BranchesOf(f)
    /\ rejected' = rejected \ {f}
    /\ UNCHANGED <<eventVars, destination, storeVars, targets>>

LogEventStep(r) ==
    \/ LogEvent(r) \/ FindExisting(r) \/ InsertEvent(r)
    \/ FindDestinations(r, r) \/ Await(r)
    \/ CompleteFanout(r) \/ SwallowRejection(r)

BranchStep == \E b \in branches : CreateDelivery(b) \/ AddJob(b)

DestinationStep ==
    \E d \in Destinations : CreateDestination(d) \/ DisableDestination(d)

Next ==
    \/ \E r \in Requests : LogEventStep(r) \/ Crash(r, "crashed")
    \/ BranchStep
    \/ DestinationStep

Spec == Init /\ [][Next]_vars

\* Every await of a running process settles. Nobody has to call logEvent,
\* but a call that started goes on; destinations owe nothing.
Fairness ==
    /\ \A r \in Requests : WF_vars(pc[r] # "idle" /\ LogEventStep(r))
    /\ WF_vars(BranchStep)

FairSpec == Spec /\ Fairness

-----------------------------------------------------------------------------
(* Properties.                                                             *)

Rows == 1 .. Len(deliveries)

\* Every variable stays in its type; the branches in flight belong to stored
\* events and to rows that exist.
TypeOK ==
    /\ events \subseteq Requests
    /\ fanoutCompleted \subseteq events
    /\ destination \in [Destinations -> {"absent", "active", "disabled"}]
    /\ deliveries \in Seq([event : Requests, destination : Destinations,
                           fanout : Fanouts])
    /\ queue \subseteq Rows
    /\ targets \in [Fanouts -> SUBSET Destinations]
    /\ branches \subseteq [fanout : Fanouts, event : events,
                           destination : Destinations, row : 0 .. Len(deliveries)]
    /\ rejected \subseteq Fanouts
    /\ returned \in [Requests -> events \cup {NoEvent}]

\* event.entity.ts:39-41: however calls with one idempotency key race, one
\* event is stored, and every call that returns, returns that event.
OneEventPerKey ==
    \A r, s \in Requests :
      KeyOf(r) = KeyOf(s) /\ KeyOf(r) # NoKey =>
        /\ {r, s} \subseteq events => r = s
        /\ NoEvent \notin {returned[r], returned[s]} => returned[r] = returned[s]

\* event.entity.ts:47: fanoutCompleted is set only when each destination found
\* active has a row with a job, whatever failed or is still running.
CompletedFanoutQueued ==
    \A e \in fanoutCompleted : \A d \in targets[e] :
      \E i \in queue : /\ deliveries[i].event = e
                       /\ deliveries[i].destination = d

\* "Event persistence before processing" (README.md:70): a job a worker may
\* take refers to a stored row of a stored event that goes out as a webhook,
\* and to a destination of the same tenant and type.
JobsAreLoadable ==
    \A i \in queue :
      /\ i \in Rows
      /\ LET row == deliveries[i] IN
           /\ row.event \in events
           /\ Registry[TypeOf(row.event)].webhookEnabled
           /\ destination[row.destination] # "absent"
           /\ DestinationOf[row.destination].tenant = RequestOf[row.event].tenant
           /\ DestinationOf[row.destination].type = TypeOf(row.event)

\* event.event-fanout.service.ts:37-39, "One delivery per destination": no
\* fan-out makes two rows for a destination.
OneDeliveryPerDestination ==
    \A i, j \in Rows :
      (deliveries[i].fanout = deliveries[j].fanout
         /\ deliveries[i].destination = deliveries[j].destination) => i = j

\* Without faults a call that starts either throws or returns, and an event
\* that goes out as a webhook is fanned out completely.
EventsFanOut ==
    \A r \in Requests :
      /\ pc[r] # "idle" ~> pc[r] \in {"threw", "returned"}
      /\ r \in events /\ Registry[TypeOf(r)].webhookEnabled ~> r \in fanoutCompleted
=============================================================================
