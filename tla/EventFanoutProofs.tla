-------------------------- MODULE EventFanoutProofs -------------------------
(***************************************************************************)
(* What EventFanout promises about events, delivery rows and jobs, for any *)
(* requests and destinations, and any faults; what EventReplay promises    *)
(* about the failures it marks as replayed; and what of the former is kept *)
(* while failures are replayed.                                            *)
(***************************************************************************)
EXTENDS EventReplay, TLAPS

USE FanoutsAssumption

-----------------------------------------------------------------------------
(* The inductive invariant.                                                *)

\* Before fanout() has looked for destinations.
Early == {"idle", "lookup", "insert", "find"}
Location == Early \cup {"await", "complete", "rejected", "returned", "threw", "crashed"}

Row == [event : Requests, destination : Destinations, fanout : Fanouts]

\* A request past its insert has its event; one on its way to fanout() is for
\* a type that goes out as a webhook.
CallerInv ==
    \A r \in Requests :
      /\ pc[r] \in {"find", "await", "complete", "rejected"} => r \in events
      /\ pc[r] = "find" => Registry[TypeOf(r)].webhookEnabled
      /\ r \in fanoutCompleted => pc[r] \notin Early
      /\ returned[r] # NoEvent => KeyOf(returned[r]) = KeyOf(r)

KeyInv ==
    \A r, s \in events : KeyOf(r) = KeyOf(s) /\ KeyOf(r) # NoKey => r = s

\* What a fan-out f may make of event e for destination d.
Meant(f, e, d) ==
    /\ f = e
    /\ pc[f] \notin Early
    /\ e \in events
    /\ Registry[TypeOf(e)].webhookEnabled
    /\ destination[d] # "absent"
    /\ DestinationOf[d].tenant = RequestOf[e].tenant
    /\ DestinationOf[d].type = TypeOf(e)

MeantInv ==
    /\ \A b \in branches : Meant(b.fanout, b.event, b.destination)
    /\ \A i \in Rows :
         Meant(deliveries[i].fanout, deliveries[i].event, deliveries[i].destination)

\* A fan-out has a branch or a row for a destination, and not two of them.
SingleInv ==
    /\ OneDeliveryPerDestination
    /\ \A b, c \in branches :
         b.fanout = c.fanout /\ b.destination = c.destination => b = c
    /\ \A b \in branches : b.row # 0 =>
         deliveries[b.row] = [event |-> b.event, destination |-> b.destination,
                              fanout |-> b.fanout]
    /\ \A b \in branches, i \in Rows :
         b.row = 0 /\ deliveries[i].fanout = b.fanout
           => deliveries[i].destination # b.destination

Queued(e, d) == \E i \in queue : deliveries[i].event = e /\ deliveries[i].destination = d

\* Nothing is lost between the look for destinations and the jobs.
QueuedInv ==
    \A r \in Requests :
      /\ pc[r] = "await" /\ r \notin rejected =>
           \A d \in targets[r] :
             Queued(r, d) \/ \E b \in branches : b.fanout = r /\ b.destination = d
      /\ pc[r] = "complete" \/ r \in fanoutCompleted => \A d \in targets[r] : Queued(r, d)

Typed == TypeOK /\ pc \in [Fanouts -> Location]

\* The types of what the callers, and not the fan-outs, write.
CallerTyped ==
    /\ events \subseteq Requests
    /\ fanoutCompleted \subseteq events
    /\ destination \in [Destinations -> {"absent", "active", "disabled"}]
    /\ rejected \subseteq Fanouts
    /\ returned \in [Requests -> events \cup {NoEvent}]

Inv == Typed /\ CallerInv /\ KeyInv /\ MeantInv /\ SingleInv /\ QueuedInv

LEMMA InitInv == Init => Inv
<1> SUFFICES ASSUME Init PROVE Inv
  OBVIOUS
<1>1. Rows = {}
  BY DEF Init, Rows
<1>2. Typed
  BY DEF Init, Typed, TypeOK, Rows, Location, Early
<1>3. CallerInv /\ KeyInv /\ QueuedInv
  BY DEF Init, CallerInv, KeyInv, QueuedInv
<1>4. MeantInv /\ SingleInv
  BY <1>1 DEF Init, MeantInv, SingleInv, OneDeliveryPerDestination
<1> QED
  BY <1>2, <1>3, <1>4 DEF Inv

LEMMA RowsTyped ==
  ASSUME Typed
  PROVE  /\ \A i \in Rows : deliveries[i] \in Row
         /\ Len(deliveries) \in Nat
<1>1. deliveries \in Seq(Row)
  BY DEF Typed, TypeOK, Row
<1> QED
  BY <1>1 DEF Rows

-----------------------------------------------------------------------------
(* The steps of a caller that leave the fan-out alone.                     *)

\* Only the caller r has moved, along an arrow of logEvent.
CallerMoves(r) ==
    /\ pc' = [pc EXCEPT ![r] = pc'[r]] /\ pc'[r] \in Location
    /\ UNCHANGED <<destination, storeVars, fanoutVars>>
    /\ events \subseteq events' /\ events' \subseteq events \cup {r}
    /\ returned' = [returned EXCEPT ![r] = returned'[r]]
    /\ returned'[r] \in events' \cup {NoEvent}
    /\ returned'[r] # NoEvent => KeyOf(returned'[r]) = KeyOf(r)
    /\ fanoutCompleted \subseteq fanoutCompleted'
    /\ fanoutCompleted' \subseteq fanoutCompleted \cup {r}
    /\ r \in fanoutCompleted' => r \in fanoutCompleted \/ pc[r] = "complete"
    /\ pc'[r] \in Early => pc[r] \in Early
    /\ r \in fanoutCompleted' => pc'[r] \notin Early
    /\ pc'[r] \in {"find", "await", "complete", "rejected"} => r \in events'
    /\ pc'[r] = "find" => Registry[TypeOf(r)].webhookEnabled
    /\ pc'[r] # "await"
    /\ pc'[r] = "complete" =>
         pc[r] = "await" /\ r \notin rejected /\ BranchesOf(r) = {}

LEMMA CallerStep ==
  ASSUME CallerTyped, CallerInv, DOMAIN pc = Fanouts, pc = [f \in Fanouts |-> pc[f]],
         NEW r \in Requests,
         \/ LogEvent(r) \/ FindExisting(r) \/ InsertEvent(r)
         \/ Await(r) \/ CompleteFanout(r) \/ SwallowRejection(r)
  PROVE  CallerMoves(r)
<1> USE DEF CallerTyped, CallerInv, Goto, Location, Early, storeVars, fanoutVars, eventVars
<1>1. CASE LogEvent(r)
  BY <1>1 DEF LogEvent, CallerMoves
<1>2. CASE FindExisting(r)
  BY <1>2 DEF FindExisting, WithKeyOf, CallerMoves
<1>3. CASE InsertEvent(r)
  BY <1>3 DEF InsertEvent, CallerMoves
<1>4. CASE Await(r)
  BY <1>4 DEF Await, CallerMoves
<1>5. CASE CompleteFanout(r)
  BY <1>5 DEF CompleteFanout, CallerMoves
<1>6. CASE SwallowRejection(r)
  BY <1>6 DEF SwallowRejection, CallerMoves
<1> QED
  BY <1>1, <1>2, <1>3, <1>4, <1>5, <1>6

\* The unique index: an event is inserted only under a key of its own.
LEMMA InsertKeepsKeys ==
  ASSUME KeyInv, NEW r \in Requests,
         \/ LogEvent(r) \/ FindExisting(r) \/ InsertEvent(r)
         \/ Await(r) \/ CompleteFanout(r) \/ SwallowRejection(r)
  PROVE  KeyInv'
<1>1. events' = events \/ (WithKeyOf(r) = {} /\ events' = events \cup {r})
  BY DEF LogEvent, FindExisting, InsertEvent, Await, CompleteFanout, SwallowRejection,
         eventVars
<1> QED
  BY <1>1 DEF KeyInv, WithKeyOf

LEMMA CallerKeepsInv ==
  ASSUME Inv, NEW r \in Requests, CallerMoves(r), KeyInv'
  PROVE  Inv'
<1>1. /\ UNCHANGED <<destination, deliveries, queue, targets, branches, rejected>>
      /\ Rows' = Rows
  BY DEF CallerMoves, storeVars, fanoutVars, Rows
<1>2. Typed'
  <2>1. events' \subseteq Requests /\ fanoutCompleted' \subseteq events'
    BY DEF Inv, Typed, TypeOK, CallerInv, CallerMoves
  <2>2. returned' \in [Requests -> events' \cup {NoEvent}] /\ pc' \in [Fanouts -> Location]
    BY DEF Inv, Typed, TypeOK, CallerMoves
  <2>3. branches' \subseteq [fanout : Fanouts, event : events',
                             destination : Destinations, row : 0 .. Len(deliveries')]
    BY <1>1 DEF Inv, Typed, TypeOK, CallerMoves
  <2> QED
    BY <1>1, <2>1, <2>2, <2>3 DEF Inv, Typed, TypeOK
<1>3. CallerInv'
  BY DEF Inv, Typed, TypeOK, CallerInv, CallerMoves
<1>4. \A f, e, d : Meant(f, e, d) /\ f \in Fanouts => Meant(f, e, d)'
  BY <1>1 DEF Inv, Typed, TypeOK, CallerMoves, Meant
<1>5. MeantInv'
  <2>1. \A b \in branches' : Meant(b.fanout, b.event, b.destination)'
    BY <1>1, <1>4 DEF Inv, Typed, TypeOK, MeantInv
  <2>2. \A i \in Rows' :
          Meant(deliveries[i].fanout, deliveries[i].event, deliveries[i].destination)'
    <3>1. \A i \in Rows : deliveries[i].fanout \in Fanouts
      BY RowsTyped DEF Inv, Row
    <3> QED
      BY <1>1, <1>4, <3>1 DEF Inv, MeantInv
  <2> QED
    BY <2>1, <2>2 DEF MeantInv
<1>6. SingleInv'
  BY <1>1 DEF Inv, SingleInv, OneDeliveryPerDestination
<1>7. QueuedInv'
  BY <1>1 DEF Inv, Typed, TypeOK, QueuedInv, Queued, CallerMoves, BranchesOf
<1> QED
  BY <1>2, <1>3, <1>5, <1>6, <1>7 DEF Inv

-----------------------------------------------------------------------------
(* The steps of a fan-out.                                                 *)

NewBranch(f, d) == [fanout |-> f, event |-> f, destination |-> d, row |-> 0]

LEMMA FindDestinationsKeepsInv ==
  ASSUME Inv, NEW r \in Requests, FindDestinations(r, r)
  PROVE  Inv'
<1>1. /\ pc[r] = "find" /\ pc' = [pc EXCEPT ![r] = pc'[r]]
      /\ UNCHANGED <<events, fanoutCompleted, returned, destination, deliveries, queue, rejected>>
      /\ Rows' = Rows
  BY DEF FindDestinations, Goto, eventVars, storeVars, Rows, Inv, Typed
<1>2. \/ /\ pc'[r] = "await" /\ targets' = [targets EXCEPT ![r] = ActiveFor(r)]
         /\ branches' = branches \cup {NewBranch(r, d) : d \in ActiveFor(r)}
      \/ pc'[r] = "rejected" /\ UNCHANGED <<targets, branches>>
  BY DEF FindDestinations, Goto, NewBranch, Inv, Typed
<1>3. r \in events /\ Registry[TypeOf(r)].webhookEnabled /\ r \in Fanouts
      /\ pc \in [Fanouts -> Location] /\ r \notin fanoutCompleted
  BY <1>1 DEF Inv, Typed, CallerInv, Early
<1>4. /\ \A f \in Fanouts : f # r => pc'[f] = pc[f] /\ targets'[f] = targets[f]
      /\ pc'[r] \in {"await", "rejected"}
      /\ branches \subseteq branches'
      /\ \A b \in branches' : b \in branches \/ (pc'[r] = "await" /\ \E d \in ActiveFor(r) : b = NewBranch(r, d))
  BY <1>1, <1>2, <1>3 DEF Inv, Typed, TypeOK
<1>5. ActiveFor(r) \subseteq Destinations
  BY DEF ActiveFor
<1>6. Typed'
  <2>1. targets' \in [Fanouts -> SUBSET Destinations]
    BY <1>2, <1>5 DEF Inv, Typed, TypeOK
  <2>2. pc' \in [Fanouts -> Location]
    BY <1>1, <1>3, <1>4 DEF Location
  <2>3. \A d \in ActiveFor(r) :
          NewBranch(r, d) \in [fanout : Fanouts, event : events,
                               destination : Destinations, row : 0 .. Len(deliveries)]
    BY <1>3, <1>5, RowsTyped DEF Inv, NewBranch
  <2>4. branches' \subseteq [fanout : Fanouts, event : events',
                             destination : Destinations, row : 0 .. Len(deliveries')]
    BY <1>1, <1>4, <2>3 DEF Inv, Typed, TypeOK
  <2> QED
    BY <1>1, <2>1, <2>2, <2>4 DEF Inv, Typed, TypeOK
<1>7. CallerInv'
  BY <1>1, <1>3, <1>4 DEF Inv, CallerInv, Early
<1>8. KeyInv'
  BY <1>1 DEF Inv, KeyInv
<1>9. MeantInv'
  <2>1. \A f \in Fanouts : \A e, d : Meant(f, e, d) => Meant(f, e, d)'
    BY <1>1, <1>4 DEF Meant, Early
  <2>2. ASSUME pc'[r] = "await", NEW d \in ActiveFor(r) PROVE Meant(r, r, d)'
    BY <1>1, <1>3, <2>2 DEF Meant, ActiveFor, Early
  <2>3. ASSUME NEW b \in branches' PROVE Meant(b.fanout, b.event, b.destination)'
    <3>1. CASE b \in branches
      BY <2>1, <3>1 DEF Inv, Typed, TypeOK, MeantInv
    <3>2. CASE pc'[r] = "await" /\ \E d \in ActiveFor(r) : b = NewBranch(r, d)
      BY <2>2, <3>2 DEF NewBranch
    <3> QED
      BY <1>4, <3>1, <3>2
  <2>4. ASSUME NEW i \in Rows
        PROVE  Meant(deliveries[i].fanout, deliveries[i].event, deliveries[i].destination)'
    BY <1>1, <2>1, RowsTyped DEF Inv, MeantInv, Row
  <2> QED
    BY <1>1, <2>3, <2>4 DEF MeantInv
<1>10. SingleInv'
  <2>1. /\ \A b \in branches : b.fanout # r
        /\ \A i \in Rows : deliveries[i].fanout # r
    BY <1>1 DEF Inv, MeantInv, Meant, Early
  <2>2. \A b \in branches' : b \in branches \/ (/\ b.fanout = r /\ b.event = r /\ b.row = 0
                                                /\ b = NewBranch(r, b.destination))
    BY <1>4 DEF NewBranch
  <2>3. \A b, c \in branches' :
          b.fanout = c.fanout /\ b.destination = c.destination => b = c
    BY <2>1, <2>2 DEF Inv, SingleInv
  <2>4. \A b \in branches' : b.row # 0 =>
          deliveries[b.row] = [event |-> b.event, destination |-> b.destination,
                               fanout |-> b.fanout]
    BY <2>2 DEF Inv, SingleInv
  <2>5. \A b \in branches', i \in Rows :
          b.row = 0 /\ deliveries[i].fanout = b.fanout
            => deliveries[i].destination # b.destination
    BY <2>1, <2>2 DEF Inv, SingleInv
  <2> QED
    BY <1>1, <2>3, <2>4, <2>5 DEF Inv, SingleInv, OneDeliveryPerDestination
<1>11. QueuedInv'
  <2>1. \A e, d : Queued(e, d)' <=> Queued(e, d)
    BY <1>1 DEF Queued
  <2>2. ASSUME NEW q \in Requests, q # r
        PROVE  /\ pc'[q] = "await" /\ q \notin rejected' => \A d \in targets'[q] :
                    Queued(q, d)' \/ \E b \in branches' : b.fanout = q /\ b.destination = d
               /\ pc'[q] = "complete" \/ q \in fanoutCompleted' =>
                    \A d \in targets'[q] : Queued(q, d)'
    BY <1>1, <1>4, <2>1, <2>2 DEF Inv, QueuedInv
  <2>3. ASSUME pc'[r] = "await", NEW d \in targets'[r]
        PROVE  \E b \in branches' : b.fanout = r /\ b.destination = d
    <3>1. d \in ActiveFor(r) /\ NewBranch(r, d) \in branches'
      BY <1>2, <1>3, <2>3 DEF Inv, Typed, TypeOK
    <3> QED
      BY <3>1 DEF NewBranch
  <2>4. pc'[r] # "complete" /\ r \notin fanoutCompleted'
    BY <1>1, <1>3, <1>4
  <2> QED
    BY <2>2, <2>3, <2>4 DEF QueuedInv
<1> QED
  BY <1>6, <1>7, <1>8, <1>9, <1>10, <1>11 DEF Inv

\* A branch, or its row, is gone: what its fan-out waits for is not complete.
LEMMA RejectKeepsInv ==
  ASSUME Inv, NEW b \in branches, Reject(b),
         UNCHANGED <<eventVars, destination, storeVars, pc, targets>>
  PROVE  Inv'
<1> USE DEF Inv, eventVars, storeVars, Reject
<1>1. Rows' = Rows /\ b.fanout \in Fanouts
  BY DEF Rows, Typed, TypeOK
<1>2. Typed'
  BY <1>1 DEF Typed, TypeOK, Rows
<1>3. CallerInv' /\ KeyInv'
  BY DEF CallerInv, KeyInv
<1>4. MeantInv'
  BY <1>1 DEF MeantInv, Meant
<1>5. SingleInv'
  BY <1>1 DEF SingleInv, OneDeliveryPerDestination
<1>6. QueuedInv'
  BY DEF QueuedInv, Queued
<1> QED
  BY <1>2, <1>3, <1>4, <1>5, <1>6

LEMMA CreateDeliveryKeepsInv ==
  ASSUME Inv, NEW b \in branches, CreateDelivery(b)
  PROVE  Inv'
<1> DEFINE new == [event |-> b.event, destination |-> b.destination, fanout |-> b.fanout]
           n == Len(deliveries) + 1
           next == [b EXCEPT !.row = n]
<1>1. CASE Reject(b) /\ UNCHANGED deliveries
  BY <1>1, RejectKeepsInv DEF CreateDelivery, eventVars, storeVars
<1>2. CASE ~(Reject(b) /\ UNCHANGED deliveries)
  <2>1. /\ b.row = 0 /\ deliveries' = Append(deliveries, new)
        /\ branches' = (branches \ {b}) \cup {next}
        /\ UNCHANGED <<events, fanoutCompleted, returned, destination, queue, pc, targets, rejected>>
    BY <1>2 DEF CreateDelivery, eventVars
  <2>2. /\ b \in [fanout : Fanouts, event : events,
                  destination : Destinations, row : 0 .. Len(deliveries)]
        /\ b.event \in Requests /\ Len(deliveries) \in Nat
    BY RowsTyped DEF Inv, Typed, TypeOK
  <2>3. new \in Row /\ deliveries \in Seq(Row)
    BY <2>2 DEF Row, Inv, Typed, TypeOK
  <2>4. /\ Len(deliveries') = n /\ deliveries' \in Seq(Row)
        /\ \A i \in Rows : deliveries'[i] = deliveries[i]
        /\ deliveries'[n] = new
        /\ n \notin Rows /\ Rows' = Rows \cup {n} /\ n # 0
    BY <2>1, <2>2, <2>3 DEF Rows
  <2>5. /\ next.fanout = b.fanout /\ next.event = b.event
        /\ next.destination = b.destination /\ next.row = n
        /\ new.fanout = b.fanout /\ new.event = b.event
        /\ new.destination = b.destination
        /\ new = [event |-> next.event, destination |-> next.destination,
                  fanout |-> next.fanout]
    BY <2>2
  <2>6. queue \subseteq Rows /\ \A c \in branches : c.row # 0 => c.row \in Rows
    BY <2>2 DEF Inv, Typed, TypeOK, Rows
  <2>7. Typed'
    <3>1. next \in [fanout : Fanouts, event : events,
                    destination : Destinations, row : 0 .. n]
      BY <2>2
    <3>2. \A c \in branches : c \in [fanout : Fanouts, event : events,
                                     destination : Destinations, row : 0 .. n]
      BY <2>2 DEF Inv, Typed, TypeOK
    <3>3. branches' \subseteq [fanout : Fanouts, event : events',
                               destination : Destinations, row : 0 .. Len(deliveries')]
      BY <2>1, <2>4, <3>1, <3>2
    <3>4. deliveries' \in Seq([event : Requests, destination : Destinations,
                               fanout : Fanouts])
      BY <2>4 DEF Row
    <3>5. queue' \subseteq Rows'
      BY <2>1, <2>4, <2>6
    <3> QED
      BY <2>1, <3>3, <3>4, <3>5 DEF Inv, Typed, TypeOK
  <2> HIDE DEF new, next, n
  <2>8. CallerInv' /\ KeyInv'
    BY <2>1 DEF Inv, CallerInv, KeyInv
  <2>9. MeantInv'
    <3>1. \A f, e, d : Meant(f, e, d)' <=> Meant(f, e, d)
      BY <2>1 DEF Meant
    <3>2. Meant(b.fanout, b.event, b.destination)
      BY DEF Inv, MeantInv
    <3>3. \A c \in branches' : Meant(c.fanout, c.event, c.destination)'
      BY <2>1, <2>5, <3>1, <3>2 DEF Inv, MeantInv
    <3>4. \A i \in Rows' :
            Meant(deliveries[i].fanout, deliveries[i].event, deliveries[i].destination)'
      BY <2>4, <2>5, <3>1, <3>2 DEF Inv, MeantInv
    <3> QED
      BY <3>3, <3>4 DEF MeantInv
  <2>10. SingleInv'
    <3>1. OneDeliveryPerDestination'
      <4>1. \A i \in Rows :
              deliveries[i].fanout = b.fanout => deliveries[i].destination # b.destination
        BY <2>1 DEF Inv, SingleInv
      <4> QED
        BY <2>4, <2>5, <4>1 DEF Inv, SingleInv, OneDeliveryPerDestination
    <3>2. \A c, e \in branches' :
            c.fanout = e.fanout /\ c.destination = e.destination => c = e
      BY <2>1, <2>5 DEF Inv, SingleInv
    <3>3. \A c \in branches' : c.row # 0 =>
            deliveries'[c.row] = [event |-> c.event, destination |-> c.destination,
                                  fanout |-> c.fanout]
      <4> TAKE c \in branches'
      <4>1. CASE c = next
        BY <2>4, <2>5, <4>1
      <4>2. CASE c \in branches
        BY <2>4, <2>6, <4>2 DEF Inv, SingleInv
      <4> QED
        BY <2>1, <4>1, <4>2
    <3>4. \A c \in branches', i \in Rows' :
            c.row = 0 /\ deliveries'[i].fanout = c.fanout
              => deliveries'[i].destination # c.destination
      <4>1. \A c \in branches' : c.row = 0 => c \in branches /\ c # b
        BY <2>1, <2>4, <2>5
      <4>2. \A c \in branches : c # b /\ c.fanout = b.fanout => c.destination # b.destination
        BY DEF Inv, SingleInv
      <4>3. \A c \in branches, i \in Rows :
              c.row = 0 /\ deliveries[i].fanout = c.fanout
                => deliveries[i].destination # c.destination
        BY DEF Inv, SingleInv
      <4> QED
        BY <2>4, <2>5, <4>1, <4>2, <4>3
    <3> QED
      BY <3>1, <3>2, <3>3, <3>4 DEF SingleInv
  <2>11. QueuedInv'
    <3>1. \A e, d : Queued(e, d) => Queued(e, d)'
      BY <2>1, <2>4, <2>6 DEF Queued
    <3>2. \A r, d : (\E c \in branches : c.fanout = r /\ c.destination = d)
                      => \E c \in branches' : c.fanout = r /\ c.destination = d
      BY <2>1, <2>5
    <3> QED
      BY <2>1, <3>1, <3>2 DEF Inv, QueuedInv
  <2> QED
    BY <2>7, <2>8, <2>9, <2>10, <2>11 DEF Inv
<1> QED
  BY <1>1, <1>2

LEMMA AddJobKeepsInv ==
  ASSUME Inv, NEW b \in branches, AddJob(b)
  PROVE  Inv'
<1>1. CASE Reject(b) /\ UNCHANGED queue
  BY <1>1, RejectKeepsInv DEF AddJob, eventVars, storeVars
<1>2. CASE ~(Reject(b) /\ UNCHANGED queue)
  <2>1. /\ b.row # 0 /\ queue' = queue \cup {b.row}
        /\ branches' = branches \ {b} /\ Rows' = Rows
        /\ UNCHANGED <<events, fanoutCompleted, returned, destination, deliveries, pc, targets, rejected>>
    BY <1>2 DEF AddJob, eventVars, Rows
  <2>2. b.row \in Rows
    BY <2>1, RowsTyped DEF Inv, Typed, TypeOK, Rows
  <2>3. /\ deliveries[b.row].event = b.event /\ deliveries[b.row].destination = b.destination
        /\ b.event = b.fanout
    <3>1. deliveries[b.row] = [event |-> b.event, destination |-> b.destination,
                               fanout |-> b.fanout]
      BY <2>1 DEF Inv, SingleInv
    <3> QED
      BY <3>1 DEF Inv, MeantInv, Meant
  <2>4. Typed'
    <3>1. queue' \subseteq Rows'
      BY <2>1, <2>2 DEF Inv, Typed, TypeOK
    <3> QED
      BY <2>1, <3>1 DEF Inv, Typed, TypeOK
  <2>5. CallerInv' /\ KeyInv'
    BY <2>1 DEF Inv, CallerInv, KeyInv
  <2>6. MeantInv'
    BY <2>1 DEF Inv, MeantInv, Meant
  <2>7. SingleInv'
    BY <2>1 DEF Inv, SingleInv, OneDeliveryPerDestination
  <2>8. QueuedInv'
    <3>1. /\ \A e, d : Queued(e, d) => Queued(e, d)'
          /\ Queued(b.fanout, b.destination)'
      BY <2>1, <2>3 DEF Queued
    <3> QED
      BY <2>1, <3>1 DEF Inv, QueuedInv
  <2> QED
    BY <2>4, <2>5, <2>6, <2>7, <2>8 DEF Inv
<1> QED
  BY <1>1, <1>2

-----------------------------------------------------------------------------
(* Destinations and crashes.                                               *)

LEMMA DestinationKeepsInv ==
  ASSUME Inv, NEW d \in Destinations, CreateDestination(d) \/ DisableDestination(d)
  PROVE  Inv'
<1>1. /\ destination' \in [Destinations -> {"absent", "active", "disabled"}]
      /\ \A x \in Destinations : destination[x] # "absent" => destination'[x] # "absent"
  BY DEF Inv, Typed, TypeOK, CreateDestination, DisableDestination
<1>2. /\ UNCHANGED <<events, fanoutCompleted, returned, deliveries, queue, pc,
                     targets, branches, rejected>>
      /\ Rows' = Rows
  BY DEF CreateDestination, DisableDestination, eventVars, storeVars, fanoutVars, Rows
<1>3. Typed' /\ CallerInv' /\ KeyInv'
  BY <1>1, <1>2 DEF Inv, Typed, TypeOK, CallerInv, KeyInv
<1>4. MeantInv'
  <2>1. \A f, e : \A x \in Destinations : Meant(f, e, x) => Meant(f, e, x)'
    BY <1>1, <1>2 DEF Meant
  <2> QED
    BY <1>2, <2>1, RowsTyped DEF Inv, Typed, TypeOK, MeantInv, Row
<1>5. SingleInv' /\ QueuedInv'
  BY <1>2 DEF Inv, SingleInv, OneDeliveryPerDestination, QueuedInv, Queued
<1> QED
  BY <1>3, <1>4, <1>5 DEF Inv

LEMMA CrashKeepsInv ==
  ASSUME Inv, NEW r \in Requests, Crash(r, "crashed")
  PROVE  Inv'
<1>1. /\ pc' = [pc EXCEPT ![r] = "crashed"]
      /\ branches' \subseteq branches
      /\ \A b \in branches : b.fanout # r => b \in branches'
      /\ rejected' = rejected \ {r}
      /\ UNCHANGED <<events, fanoutCompleted, returned, destination, deliveries, queue, targets>>
      /\ Rows' = Rows /\ pc \in [Fanouts -> Location] /\ r \in Fanouts
  BY DEF Crash, Goto, eventVars, storeVars, BranchesOf, Rows, Inv, Typed
<1>2. Typed'
  BY <1>1 DEF Inv, Typed, TypeOK, Location
<1>3. CallerInv' /\ KeyInv'
  BY <1>1 DEF Inv, CallerInv, KeyInv, Early
<1>4. MeantInv'
  <2>1. \A f \in Fanouts : \A e, d : Meant(f, e, d) => Meant(f, e, d)'
    BY <1>1 DEF Meant, Early
  <2> QED
    BY <1>1, <2>1, RowsTyped DEF Inv, Typed, TypeOK, MeantInv, Row
<1>5. SingleInv'
  BY <1>1 DEF Inv, SingleInv, OneDeliveryPerDestination
<1>6. QueuedInv'
  BY <1>1 DEF Inv, QueuedInv, Queued
<1> QED
  BY <1>2, <1>3, <1>4, <1>5, <1>6 DEF Inv

LEMMA StepInv == Inv /\ [Next]_vars => Inv'
<1> SUFFICES ASSUME Inv, [Next]_vars PROVE Inv'
  OBVIOUS
<1>1. ASSUME NEW r \in Requests, LogEventStep(r) PROVE Inv'
  <2>1. CASE FindDestinations(r, r)
    BY <2>1, FindDestinationsKeepsInv
  <2>2. CASE \/ LogEvent(r) \/ FindExisting(r) \/ InsertEvent(r)
             \/ Await(r) \/ CompleteFanout(r) \/ SwallowRejection(r)
    <3>1. CallerTyped /\ DOMAIN pc = Fanouts /\ pc = [f \in Fanouts |-> pc[f]]
      BY DEF Inv, Typed, TypeOK, CallerTyped
    <3>2. CallerMoves(r) /\ KeyInv'
      BY <2>2, <3>1, CallerStep, InsertKeepsKeys DEF Inv
    <3> QED
      BY <3>2, CallerKeepsInv
  <2> QED
    BY <1>1, <2>1, <2>2 DEF LogEventStep
<1>2. CASE UNCHANGED vars
  <2>1. /\ UNCHANGED <<events, fanoutCompleted, returned, destination, deliveries, queue, pc,
                       targets, branches, rejected>>
        /\ Rows' = Rows
    BY <1>2 DEF vars, eventVars, storeVars, fanoutVars, Rows
  <2>2. Typed' /\ CallerInv' /\ KeyInv' /\ MeantInv'
    BY <2>1 DEF Inv, Typed, TypeOK, CallerInv, KeyInv, MeantInv, Meant
  <2>3. SingleInv' /\ QueuedInv'
    BY <2>1 DEF Inv, SingleInv, OneDeliveryPerDestination, QueuedInv, Queued
  <2> QED
    BY <2>2, <2>3 DEF Inv
<1> QED
  BY <1>1, <1>2, CrashKeepsInv, CreateDeliveryKeepsInv, AddJobKeepsInv, DestinationKeepsInv
     DEF Next, BranchStep, DestinationStep

LEMMA AlwaysInv == Spec => []Inv
  BY InitInv, StepInv, PTL DEF Spec

-----------------------------------------------------------------------------
(* What it comes to.                                                       *)

LEMMA KeysAreUnique ==
  ASSUME CallerTyped, CallerInv, KeyInv PROVE OneEventPerKey
<1> SUFFICES ASSUME NEW r \in Requests, NEW s \in Requests,
                    KeyOf(r) = KeyOf(s), KeyOf(r) # NoKey
             PROVE  /\ {r, s} \subseteq events => r = s
                    /\ NoEvent \notin {returned[r], returned[s]} => returned[r] = returned[s]
  BY DEF OneEventPerKey
<1>1. \A q \in Requests : returned[q] # NoEvent =>
        returned[q] \in events /\ KeyOf(returned[q]) = KeyOf(q)
  BY DEF CallerTyped, CallerInv
<1> QED
  BY <1>1 DEF KeyInv

\* Every variable of EventFanout keeps its type, and the branches in flight
\* belong to stored events and to rows that exist.
THEOREM TypeCorrect == Spec => []TypeOK
<1>1. Inv => TypeOK
  BY DEF Inv, Typed
<1> QED
  BY <1>1, AlwaysInv, PTL

\* However calls with one idempotency key race, one event is stored, and every
\* call that returns, returns that event.
THEOREM EventsAreUnique == Spec => []OneEventPerKey
<1>1. Inv => OneEventPerKey
  BY KeysAreUnique DEF Inv, Typed, TypeOK, CallerTyped
<1> QED
  BY <1>1, AlwaysInv, PTL

\* fanoutCompleted is set only when each destination found active has a row
\* with a job, whatever failed or is still running.
THEOREM CompletedIsQueued == Spec => []CompletedFanoutQueued
<1>1. Inv => CompletedFanoutQueued
  BY DEF Inv, Typed, TypeOK, QueuedInv, Queued, CompletedFanoutQueued
<1> QED
  BY <1>1, AlwaysInv, PTL

\* A job a worker may take refers to a stored row of a stored event that goes
\* out as a webhook, and to a destination of the same tenant and type.
THEOREM JobsLoad == Spec => []JobsAreLoadable
<1>1. Inv => JobsAreLoadable
  BY DEF Inv, Typed, TypeOK, MeantInv, Meant, JobsAreLoadable
<1> QED
  BY <1>1, AlwaysInv, PTL

\* No fan-out makes two rows for a destination.
THEOREM DeliveriesAreSingle == Spec => []OneDeliveryPerDestination
<1>1. Inv => OneDeliveryPerDestination
  BY DEF Inv, SingleInv
<1> QED
  BY <1>1, AlwaysInv, PTL

-----------------------------------------------------------------------------
(* Replay. A replay job runs fanout() again after a crash, so it may have  *)
(* two rows for a destination and OneDeliveryPerDestination is lost; what  *)
(* a job that got through has queued is kept.                              *)

ReplayLocation == Location \cup {"waiting", "loadFailure", "loadEvent", "done", "failed"}

RowOf(b) == [event |-> b.event, destination |-> b.destination, fanout |-> b.fanout]

ReplayTyped ==
    /\ deliveries \in Seq(Row)
    /\ queue \subseteq Rows
    /\ pc \in [Fanouts -> ReplayLocation]
    /\ targets \in [Fanouts -> SUBSET Destinations]
    /\ branches \subseteq [fanout : Fanouts, event : Requests,
                           destination : Destinations, row : 0 .. Len(deliveries)]
    /\ \A b \in branches : b.row # 0 => deliveries[b.row] = RowOf(b)
    /\ failedEvent \in [Failures -> Requests \cup {NoEvent}]
    /\ batch \in [Batches -> {"idle", "adding", "done", "threw"}]
    /\ todo \in [Batches -> SUBSET Failures]
    /\ replayed \subseteq Failures

EventOf(j) == failedEvent[FailureOf(j)]

\* Job j has put a delivery of its event for destination d on the queue.
Requeued(j, d) ==
    \E i \in queue :
      deliveries[i] = [event |-> EventOf(j), destination |-> d, fanout |-> j]

\* A job is added for a failure that has its event, and once.
AddedInv ==
    \A b \in Batches, f \in Failures :
      /\ batch[b] = "idle" \/ f \in todo[b] => pc[<<b, f>>] = "idle"
      /\ f \in todo[b] \/ pc[<<b, f>>] # "idle" => failedEvent[f] # NoEvent

\* What a job waits for becomes a queued delivery, unless its fan-out rejected.
JobInv ==
    \A j \in ReplayJobs :
      /\ \A b \in branches : b.fanout = j => b.event = EventOf(j) /\ pc[j] # "idle"
      /\ pc[j] = "await" /\ j \notin rejected => \A d \in targets[j] :
           Requeued(j, d) \/ \E b \in branches : b.fanout = j /\ b.destination = d
      /\ pc[j] = "complete" => \A d \in targets[j] : Requeued(j, d)

\* Some job of a replayed failure got through, and stays where it is.
ReplayedInv ==
    \A f \in replayed : \E b \in Batches :
      /\ pc[<<b, f>>] = "done"
      /\ \A d \in targets[<<b, f>>] : Requeued(<<b, f>>, d)

ReplayInv == ReplayTyped /\ AddedInv /\ JobInv /\ ReplayedInv

LEMMA ReplayJobsAreFanouts ==
  /\ ReplayJobs \subseteq Fanouts
  /\ \A r \in Requests : r \notin ReplayJobs
  /\ \A j \in ReplayJobs : /\ FailureOf(j) \in Failures
                           /\ \E b \in Batches : j = <<b, FailureOf(j)>>
  /\ \A b \in Batches, f \in Failures : <<b, f>> \in ReplayJobs /\ FailureOf(<<b, f>>) = f
BY ReplayFanoutsAssumption DEF ReplayJobs, FailureOf

LEMMA ReplayRowsTyped ==
  ASSUME ReplayTyped
  PROVE  /\ \A i \in Rows : deliveries[i] \in Row
         /\ \A i \in Rows : deliveries[i].event \in Requests
         /\ Len(deliveries) \in Nat
<1>1. deliveries \in Seq(Row)
  BY DEF ReplayTyped
<1>2. \A i \in Rows : deliveries[i] \in Row
  BY <1>1 DEF Rows
<1> QED
  BY <1>1, <1>2 DEF Row

\* Rows, jobs and the events of failures only come to be.
Kept ==
    /\ \A i \in queue : i \in queue' /\ deliveries'[i] = deliveries[i]
    /\ \A f \in Failures : failedEvent[f] # NoEvent => failedEvent'[f] = failedEvent[f]

LEMMA RequeuedIsKept ==
  ASSUME ReplayTyped, Kept, NEW j \in ReplayJobs, NEW d, Requeued(j, d)
  PROVE  Requeued(j, d)'
<1>1. PICK i \in queue :
        deliveries[i] = [event |-> EventOf(j), destination |-> d, fanout |-> j]
  BY DEF Requeued
<1>2. deliveries[i].event \in Requests /\ deliveries[i].event = EventOf(j)
  BY <1>1, ReplayRowsTyped DEF ReplayTyped
<1>3. EventOf(j)' = EventOf(j)
  BY <1>2, FanoutsAssumption, ReplayJobsAreFanouts DEF Kept, EventOf
<1>4. i \in queue' /\ deliveries'[i] = deliveries[i]
  BY DEF Kept
<1>5. deliveries'[i] = [event |-> EventOf(j)', destination |-> d, fanout |-> j]
  BY <1>1, <1>3, <1>4
<1> QED
  BY <1>4, <1>5 DEF Requeued

LEMMA ReplayedIsKept ==
  ASSUME ReplayTyped, ReplayedInv, Kept, replayed' = replayed,
         \A j \in ReplayJobs : pc[j] = "done" => pc'[j] = "done" /\ targets'[j] = targets[j]
  PROVE  ReplayedInv'
<1> SUFFICES ASSUME NEW f \in replayed
             PROVE  \E b \in Batches :
                      /\ pc'[<<b, f>>] = "done"
                      /\ \A d \in targets'[<<b, f>>] : Requeued(<<b, f>>, d)'
  BY DEF ReplayedInv
<1>1. PICK b \in Batches : /\ pc[<<b, f>>] = "done"
                           /\ \A d \in targets[<<b, f>>] : Requeued(<<b, f>>, d)
  BY DEF ReplayedInv
<1>2. <<b, f>> \in ReplayJobs
  BY ReplayJobsAreFanouts DEF ReplayTyped
<1>3. pc'[<<b, f>>] = "done" /\ targets'[<<b, f>>] = targets[<<b, f>>]
  BY <1>1, <1>2
<1>4. \A d \in targets[<<b, f>>] : Requeued(<<b, f>>, d)'
  BY <1>1, <1>2, RequeuedIsKept
<1> QED
  BY <1>3, <1>4

LEMMA ReplayInitInv == ReplayInit => ReplayInv
<1> SUFFICES ASSUME ReplayInit PROVE ReplayInv
  OBVIOUS
<1>1. Rows = {} /\ deliveries = <<>> /\ Len(deliveries) = 0
  BY DEF ReplayInit, Init, Rows
<1>2. ReplayTyped
  BY <1>1 DEF ReplayInit, Init, ReplayTyped, ReplayLocation, Location, Early
<1>3. \A j \in ReplayJobs : pc[j] = "idle"
  BY FanoutsAssumption, ReplayJobsAreFanouts DEF ReplayInit, Init
<1>4. AddedInv
  BY <1>3, ReplayJobsAreFanouts DEF ReplayInit, AddedInv
<1>5. JobInv /\ ReplayedInv
  BY <1>3 DEF ReplayInit, Init, JobInv, ReplayedInv
<1> QED
  BY <1>2, <1>4, <1>5 DEF ReplayInv

\* A step that leaves the rows and the fan-outs of replay jobs alone.
LEMMA ElsewhereKeepsReplay ==
  ASSUME ReplayInv, ReplayTyped', UNCHANGED <<deliveries, queue, replayVars>>,
         \A j \in ReplayJobs :
           /\ pc'[j] = pc[j] /\ targets'[j] = targets[j]
           /\ j \in rejected <=> j \in rejected'
           /\ \A b : b.fanout = j => (b \in branches <=> b \in branches')
  PROVE  ReplayInv'
<1>1. Kept /\ \A j \in ReplayJobs : EventOf(j)' = EventOf(j)
  BY DEF Kept, EventOf, replayVars
<1>2. AddedInv'
  BY ReplayJobsAreFanouts DEF ReplayInv, AddedInv, replayVars
<1>3. JobInv'
  <2> SUFFICES ASSUME NEW j \in ReplayJobs
        PROVE  /\ \A b \in branches' : b.fanout = j => b.event = EventOf(j)' /\ pc'[j] # "idle"
               /\ pc'[j] = "await" /\ j \notin rejected' => \A d \in targets'[j] :
                    Requeued(j, d)' \/ \E b \in branches' : b.fanout = j /\ b.destination = d
               /\ pc'[j] = "complete" => \A d \in targets'[j] : Requeued(j, d)'
    BY DEF JobInv
  <2>1. \A d : Requeued(j, d) => Requeued(j, d)'
    BY <1>1, RequeuedIsKept DEF ReplayInv
  <2>2. \A b \in branches' : b.fanout = j => b.event = EventOf(j)' /\ pc'[j] # "idle"
    BY <1>1 DEF ReplayInv, JobInv
  <2>3. ASSUME pc'[j] = "await", j \notin rejected', NEW d \in targets'[j]
        PROVE  Requeued(j, d)' \/ \E b \in branches' : b.fanout = j /\ b.destination = d
    <3>1. Requeued(j, d) \/ \E b \in branches : b.fanout = j /\ b.destination = d
      BY <2>3 DEF ReplayInv, JobInv
    <3> QED
      BY <2>1, <3>1
  <2>4. pc'[j] = "complete" => \A d \in targets'[j] : Requeued(j, d)'
    BY <2>1 DEF ReplayInv, JobInv
  <2> QED
    BY <2>2, <2>3, <2>4
<1>4. ReplayedInv'
  BY <1>1, ReplayedIsKept DEF ReplayInv, replayVars
<1> QED
  BY <1>2, <1>3, <1>4 DEF ReplayInv

LEMMA RequestKeepsReplay ==
  ASSUME ReplayInv, UNCHANGED replayVars, NEW r \in Requests,
         LogEventStep(r) \/ Crash(r, "crashed")
  PROVE  ReplayInv'
<1>1. /\ r \in Fanouts /\ r \notin ReplayJobs
      /\ UNCHANGED <<deliveries, queue, failedEvent, batch, todo, replayed>> /\ Rows' = Rows
  BY ReplayJobsAreFanouts DEF LogEventStep, LogEvent, FindExisting, InsertEvent,
     FindDestinations, Await, CompleteFanout, SwallowRejection, Crash, storeVars,
     replayVars, Rows
<1>2. /\ pc' \in [Fanouts -> ReplayLocation]
      /\ \A j \in ReplayJobs : pc'[j] = pc[j]
  <2>1. PICK l \in ReplayLocation : pc' = [pc EXCEPT ![r] = l]
    BY DEF LogEventStep, LogEvent, FindExisting, InsertEvent, FindDestinations, Await,
       CompleteFanout, SwallowRejection, Crash, Goto, ReplayLocation, Location, Early
  <2> QED
    BY <1>1, <2>1, ReplayJobsAreFanouts DEF ReplayInv, ReplayTyped
<1>3. CASE FindDestinations(r, r) /\ ~UNCHANGED <<targets, branches>>
  <2>1. /\ targets' = [targets EXCEPT ![r] = ActiveFor(r)]
        /\ branches' = branches \cup {NewBranch(r, d) : d \in ActiveFor(r)}
        /\ rejected' = rejected
    BY <1>3 DEF FindDestinations, NewBranch
  <2>2. ActiveFor(r) \subseteq Destinations
    BY DEF ActiveFor
  <2>3. \A d \in ActiveFor(r) :
          /\ NewBranch(r, d) \in [fanout : Fanouts, event : Requests,
                                  destination : Destinations, row : 0 .. Len(deliveries)]
          /\ NewBranch(r, d).fanout = r /\ NewBranch(r, d).row = 0
    BY <1>1, <2>2, ReplayRowsTyped DEF NewBranch, ReplayInv
  <2>4. ReplayTyped'
    BY <1>1, <1>2, <2>1, <2>2, <2>3 DEF ReplayInv, ReplayTyped, RowOf
  <2>5. \A j \in ReplayJobs : targets'[j] = targets[j]
    BY <1>1, <2>1, ReplayJobsAreFanouts DEF ReplayInv, ReplayTyped
  <2> QED
    BY <1>1, <1>2, <2>1, <2>3, <2>4, <2>5, ElsewhereKeepsReplay
<1>4. CASE ~(FindDestinations(r, r) /\ ~UNCHANGED <<targets, branches>>)
  <2>1. /\ targets' = targets /\ branches' \subseteq branches
        /\ \A b \in branches : b.fanout # r => b \in branches'
        /\ rejected' = rejected \/ rejected' = rejected \ {r}
    BY <1>4 DEF LogEventStep, LogEvent, FindExisting, InsertEvent, FindDestinations, Await,
       CompleteFanout, SwallowRejection, Crash, fanoutVars, BranchesOf
  <2>2. ReplayTyped'
    BY <1>1, <1>2, <2>1 DEF ReplayInv, ReplayTyped, RowOf
  <2> QED
    BY <1>1, <1>2, <2>1, <2>2, ElsewhereKeepsReplay
<1> QED
  BY <1>3, <1>4

LEMMA DestinationKeepsReplay ==
  ASSUME ReplayInv, UNCHANGED replayVars, DestinationStep \/ UNCHANGED vars
  PROVE  ReplayInv'
<1>1. /\ UNCHANGED <<deliveries, queue, pc, targets, branches, rejected, failedEvent,
                     batch, todo, replayed>>
      /\ Rows' = Rows
  BY DEF DestinationStep, CreateDestination, DisableDestination, vars, storeVars,
     fanoutVars, replayVars, Rows
<1>2. ReplayTyped'
  BY <1>1 DEF ReplayInv, ReplayTyped, RowOf
<1> QED
  BY <1>1, <1>2, ElsewhereKeepsReplay

\* A step of a branch: its rows stay, its row or its job comes, or it is gone
\* and its fan-out has rejected.
LEMMA BranchKeepsReplay ==
  ASSUME ReplayInv, ReplayTyped', Kept, NEW b \in branches,
         UNCHANGED <<pc, targets, replayVars>>, branches \ {b} \subseteq branches',
         \A c \in branches' \ branches : c.fanout = b.fanout /\ c.event = b.event,
         \/ rejected' = rejected \cup {b.fanout}
         \/ \E i \in queue' : deliveries'[i] = RowOf(b)
         \/ \E c \in branches' : c.fanout = b.fanout /\ c.destination = b.destination,
         rejected \subseteq rejected'
  PROVE  ReplayInv'
<1>1. \A j \in ReplayJobs : EventOf(j)' = EventOf(j)
  BY DEF EventOf, replayVars
<1>2. AddedInv'
  BY DEF ReplayInv, AddedInv, replayVars
<1>3. JobInv'
  <2> SUFFICES ASSUME NEW j \in ReplayJobs
        PROVE  /\ \A c \in branches' : c.fanout = j => c.event = EventOf(j)' /\ pc'[j] # "idle"
               /\ pc'[j] = "await" /\ j \notin rejected' => \A d \in targets'[j] :
                    Requeued(j, d)' \/ \E c \in branches' : c.fanout = j /\ c.destination = d
               /\ pc'[j] = "complete" => \A d \in targets'[j] : Requeued(j, d)'
    BY DEF JobInv
  <2>1. \A d : Requeued(j, d) => Requeued(j, d)'
    BY RequeuedIsKept DEF ReplayInv
  <2>2. \A c \in branches : c.fanout = j => c.event = EventOf(j)' /\ pc'[j] # "idle"
    BY <1>1 DEF ReplayInv, JobInv
  <2>3. \A c \in branches' : c.fanout = j => c.event = EventOf(j)' /\ pc'[j] # "idle"
    BY <2>2
  <2>4. ASSUME pc'[j] = "await", j \notin rejected', NEW d \in targets'[j]
        PROVE  Requeued(j, d)' \/ \E c \in branches' : c.fanout = j /\ c.destination = d
    <3>1. Requeued(j, d) \/ \E c \in branches : c.fanout = j /\ c.destination = d
      BY <2>4 DEF ReplayInv, JobInv
    <3>2. ASSUME NEW c \in branches, c.fanout = j, c.destination = d, c \notin branches'
          PROVE  Requeued(j, d)' \/ \E e \in branches' : e.fanout = j /\ e.destination = d
      <4>1. c = b
        BY <3>2
      <4>2. rejected' # rejected \cup {b.fanout}
        BY <2>4, <3>2, <4>1
      <4>3. CASE \E i \in queue' : deliveries'[i] = RowOf(b)
        <5>1. RowOf(b) = [event |-> EventOf(j)', destination |-> d, fanout |-> j]
          BY <2>2, <3>2, <4>1 DEF RowOf
        <5> QED
          BY <4>3, <5>1 DEF Requeued
      <4> QED
        BY <3>2, <4>1, <4>2, <4>3
    <3> QED
      BY <2>1, <3>1, <3>2
  <2>5. pc'[j] = "complete" => \A d \in targets'[j] : Requeued(j, d)'
    BY <2>1 DEF ReplayInv, JobInv
  <2> QED
    BY <2>3, <2>4, <2>5
<1>4. ReplayedInv'
  BY ReplayedIsKept DEF ReplayInv, replayVars
<1> QED
  BY <1>2, <1>3, <1>4 DEF ReplayInv

LEMMA ReplayRejectKeeps ==
  ASSUME ReplayInv, NEW b \in branches, Reject(b),
         UNCHANGED <<deliveries, queue, pc, targets, replayVars>>
  PROVE  ReplayInv'
<1>1. /\ branches' = branches \ {b} /\ rejected' = rejected \cup {b.fanout}
      /\ UNCHANGED <<failedEvent, batch, todo, replayed>> /\ Rows' = Rows
  BY DEF Reject, replayVars, Rows
<1>2. ReplayTyped'
  BY <1>1 DEF ReplayInv, ReplayTyped, RowOf
<1>3. Kept
  BY <1>1 DEF Kept
<1>4. \A c \in branches' \ branches : c.fanout = b.fanout /\ c.event = b.event
  BY <1>1
<1>5. branches \ {b} \subseteq branches' /\ rejected \subseteq rejected'
  BY <1>1
<1> QED
  BY <1>1, <1>2, <1>3, <1>4, <1>5, BranchKeepsReplay

LEMMA CreateDeliveryKeepsReplay ==
  ASSUME ReplayInv, NEW b \in branches, CreateDelivery(b), UNCHANGED replayVars
  PROVE  ReplayInv'
<1>1. CASE Reject(b) /\ UNCHANGED deliveries
  BY <1>1, ReplayRejectKeeps DEF CreateDelivery
<1>2. CASE ~(Reject(b) /\ UNCHANGED deliveries)
  <2>1. PICK next : next = [b EXCEPT !.row = Len(deliveries) + 1]
    OBVIOUS
  <2>2. /\ b.row = 0 /\ deliveries' = Append(deliveries, RowOf(b))
        /\ branches' = (branches \ {b}) \cup {next}
        /\ UNCHANGED <<queue, pc, targets, rejected, failedEvent, batch, todo, replayed>>
    BY <1>2, <2>1 DEF CreateDelivery, RowOf, replayVars
  <2>3. /\ b \in [fanout : Fanouts, event : Requests,
                  destination : Destinations, row : 0 .. Len(deliveries)]
        /\ Len(deliveries) \in Nat /\ deliveries \in Seq(Row)
    BY ReplayRowsTyped DEF ReplayInv, ReplayTyped
  <2>4. RowOf(b) \in Row
    BY <2>3 DEF RowOf, Row
  <2>5. /\ deliveries' \in Seq(Row) /\ Len(deliveries') = Len(deliveries) + 1
        /\ \A i \in Rows : i \in Rows' /\ deliveries'[i] = deliveries[i]
        /\ deliveries'[Len(deliveries) + 1] = RowOf(b)
    BY <2>2, <2>3, <2>4 DEF Rows
  <2>6. /\ next.fanout = b.fanout /\ next.event = b.event
        /\ next.destination = b.destination /\ next.row = Len(deliveries) + 1
        /\ RowOf(next) = RowOf(b)
        /\ next \in [fanout : Fanouts, event : Requests,
                     destination : Destinations, row : 0 .. Len(deliveries')]
    BY <2>1, <2>3, <2>5 DEF RowOf
  <2>7. \A c \in branches :
          /\ c \in [fanout : Fanouts, event : Requests,
                    destination : Destinations, row : 0 .. Len(deliveries')]
          /\ c.row # 0 => c.row \in Rows /\ deliveries[c.row] = RowOf(c)
    BY <2>3, <2>5 DEF ReplayInv, ReplayTyped, Rows
  <2>8. ReplayTyped'
    <3>1. queue' \subseteq Rows'
      BY <2>2, <2>5 DEF ReplayInv, ReplayTyped
    <3>2. branches' \subseteq [fanout : Fanouts, event : Requests,
                               destination : Destinations, row : 0 .. Len(deliveries')]
      BY <2>2, <2>6, <2>7
    <3>3. \A c \in branches' : c.row # 0 => deliveries'[c.row] = RowOf(c)
      BY <2>2, <2>5, <2>6, <2>7
    <3> QED
      BY <2>2, <2>5, <3>1, <3>2, <3>3 DEF ReplayInv, ReplayTyped, RowOf
  <2>9. Kept
    BY <2>2, <2>5 DEF Kept, ReplayInv, ReplayTyped
  <2>10. \A c \in branches' \ branches : c.fanout = b.fanout /\ c.event = b.event
    BY <2>2, <2>6
  <2>11. \E c \in branches' : c.fanout = b.fanout /\ c.destination = b.destination
    BY <2>2, <2>6
  <2>12. branches \ {b} \subseteq branches' /\ rejected \subseteq rejected'
    BY <2>2
  <2> QED
    BY <2>2, <2>8, <2>9, <2>10, <2>11, <2>12, BranchKeepsReplay
<1> QED
  BY <1>1, <1>2

LEMMA AddJobKeepsReplay ==
  ASSUME ReplayInv, NEW b \in branches, AddJob(b), UNCHANGED replayVars
  PROVE  ReplayInv'
<1>1. CASE Reject(b) /\ UNCHANGED queue
  BY <1>1, ReplayRejectKeeps DEF AddJob
<1>2. CASE ~(Reject(b) /\ UNCHANGED queue)
  <2>1. /\ b.row # 0 /\ queue' = queue \cup {b.row} /\ branches' = branches \ {b}
        /\ UNCHANGED <<deliveries, pc, targets, rejected, failedEvent, batch, todo, replayed>>
        /\ Rows' = Rows
    BY <1>2 DEF AddJob, replayVars, Rows
  <2>2. b.row \in Rows /\ deliveries'[b.row] = RowOf(b) /\ b.row \in queue'
    BY <2>1, ReplayRowsTyped DEF ReplayInv, ReplayTyped, Rows
  <2>3. ReplayTyped'
    BY <2>1, <2>2 DEF ReplayInv, ReplayTyped, RowOf
  <2>4. Kept
    BY <2>1 DEF Kept
  <2>5. branches \ {b} \subseteq branches' /\ rejected \subseteq rejected'
    BY <2>1
  <2>6. \A c \in branches' \ branches : c.fanout = b.fanout /\ c.event = b.event
    BY <2>1
  <2> QED
    BY <2>1, <2>2, <2>3, <2>4, <2>5, <2>6, BranchKeepsReplay
<1> QED
  BY <1>1, <1>2

LEMMA RecordFailureKeepsReplay ==
  ASSUME ReplayInv, NEW f \in Failures, RecordFailure(f)
  PROVE  ReplayInv'
<1>1. PICK i \in queue : RecordFailureOf(f, i)
  BY DEF RecordFailure
<1>2. /\ failedEvent[f] = NoEvent
      /\ failedEvent' = [failedEvent EXCEPT ![f] = deliveries[i].event]
      /\ UNCHANGED <<deliveries, queue, pc, targets, branches, rejected, batch, todo, replayed>>
      /\ Rows' = Rows
  BY <1>1 DEF RecordFailureOf, vars, storeVars, fanoutVars, Rows
<1>3. deliveries[i].event \in Requests
  BY ReplayRowsTyped DEF ReplayInv, ReplayTyped
<1>4. ReplayTyped'
  BY <1>2, <1>3 DEF ReplayInv, ReplayTyped, RowOf
<1>5. Kept
  BY <1>2 DEF Kept, ReplayInv, ReplayTyped
<1>6. AddedInv'
  <2>1. \A g \in Failures : failedEvent[g] # NoEvent => failedEvent'[g] # NoEvent
    BY <1>5 DEF Kept
  <2> QED
    BY <1>2, <2>1 DEF ReplayInv, AddedInv
<1>7. JobInv'
  <2> SUFFICES ASSUME NEW j \in ReplayJobs
        PROVE  /\ \A b \in branches' : b.fanout = j => b.event = EventOf(j)' /\ pc'[j] # "idle"
               /\ pc'[j] = "await" /\ j \notin rejected' => \A d \in targets'[j] :
                    Requeued(j, d)' \/ \E b \in branches' : b.fanout = j /\ b.destination = d
               /\ pc'[j] = "complete" => \A d \in targets'[j] : Requeued(j, d)'
    BY DEF JobInv
  <2>1. \A d : Requeued(j, d) => Requeued(j, d)'
    BY <1>5, RequeuedIsKept DEF ReplayInv
  <2>2. pc[j] # "idle" => EventOf(j)' = EventOf(j)
    BY <1>5, ReplayJobsAreFanouts DEF ReplayInv, AddedInv, Kept, EventOf
  <2> QED
    BY <1>2, <2>1, <2>2 DEF ReplayInv, JobInv
<1>8. ReplayedInv'
  BY <1>2, <1>5, ReplayedIsKept DEF ReplayInv
<1> QED
  BY <1>4, <1>6, <1>7, <1>8 DEF ReplayInv

LEMMA BatchKeepsReplay ==
  ASSUME ReplayInv, NEW b \in Batches, BatchStep(b)
  PROVE  ReplayInv'
<1>1. /\ UNCHANGED <<deliveries, queue, targets, branches, rejected, failedEvent, replayed>>
      /\ Rows' = Rows
  BY DEF BatchStep, FindFailures, EnqueueFailure, FinishBatch, vars, storeVars,
     fanoutVars, Rows
<1>2. /\ batch' \in [Batches -> {"idle", "adding", "done", "threw"}]
      /\ todo' \in [Batches -> SUBSET Failures]
      /\ batch'[b] # "idle"
      /\ \A a \in Batches \ {b} : batch'[a] = batch[a] /\ todo'[a] = todo[a]
  <2>1. \A T \in AtMost(ReplayLimit, Unreplayed) : T \subseteq Failures
    BY DEF AtMost, Unreplayed
  <2>2. CASE FindFailures(b)
    BY <2>1, <2>2 DEF FindFailures, ReplayInv, ReplayTyped
  <2>3. CASE EnqueueFailure(b)
    <3>1. /\ batch \in [Batches -> {"idle", "adding", "done", "threw"}]
          /\ todo \in [Batches -> SUBSET Failures] /\ batch[b] = "adding"
      BY <2>3 DEF EnqueueFailure, ReplayInv, ReplayTyped
    <3>2. PICK f : \/ /\ todo' = [todo EXCEPT ![b] = @ \ {f}]
                      /\ batch' = batch
                   \/ /\ batch' = [batch EXCEPT ![b] = "threw"]
                      /\ todo' = [todo EXCEPT ![b] = {}]
      BY <2>3 DEF EnqueueFailure
    <3>3. CASE todo' = [todo EXCEPT ![b] = @ \ {f}] /\ batch' = batch
      <4>1. todo[b] \ {f} \in SUBSET Failures
        BY <3>1
      <4> QED
        BY <3>1, <3>3, <4>1
    <3>4. CASE batch' = [batch EXCEPT ![b] = "threw"] /\ todo' = [todo EXCEPT ![b] = {}]
      BY <3>1, <3>4
    <3> QED
      BY <3>2, <3>3, <3>4
  <2>4. CASE FinishBatch(b)
    BY <2>4 DEF FinishBatch, ReplayInv, ReplayTyped
  <2> QED
    BY <2>2, <2>3, <2>4 DEF BatchStep
<1>3. CASE pc' = pc
  <2>1. ReplayTyped'
    BY <1>1, <1>2, <1>3 DEF ReplayInv, ReplayTyped, RowOf
  <2>2. \A f \in todo'[b] : pc[<<b, f>>] = "idle" /\ failedEvent[f] # NoEvent
    <3>1. CASE FindFailures(b)
      <4>1. todo'[b] \subseteq Unreplayed \/ todo' = todo
        BY <3>1 DEF FindFailures, AtMost, ReplayInv, ReplayTyped
      <4> QED
        BY <3>1, <4>1 DEF FindFailures, Unreplayed, ReplayInv, ReplayTyped, AddedInv
    <3>2. CASE EnqueueFailure(b) \/ FinishBatch(b)
      <4>1. todo'[b] \subseteq todo[b]
        BY <3>2 DEF EnqueueFailure, FinishBatch, ReplayInv, ReplayTyped
      <4> QED
        BY <4>1 DEF ReplayInv, ReplayTyped, AddedInv
    <3> QED
      BY <3>1, <3>2 DEF BatchStep
  <2>3. AddedInv'
    <3> SUFFICES ASSUME NEW a \in Batches, NEW g \in Failures
                 PROVE  /\ batch'[a] = "idle" \/ g \in todo'[a] => pc'[<<a, g>>] = "idle"
                        /\ g \in todo'[a] \/ pc'[<<a, g>>] # "idle" => failedEvent'[g] # NoEvent
      BY DEF AddedInv
    <3>1. CASE a = b
      BY <1>1, <1>2, <1>3, <2>2, <3>1 DEF ReplayInv, AddedInv
    <3>2. CASE a # b
      BY <1>1, <1>2, <1>3, <3>2 DEF ReplayInv, AddedInv
    <3> QED
      BY <3>1, <3>2
  <2>4. JobInv' /\ ReplayedInv'
    <3>1. \A j, d : Requeued(j, d)' <=> Requeued(j, d)
      BY <1>1 DEF Requeued, EventOf
    <3>2. \A j : EventOf(j)' = EventOf(j)
      BY <1>1 DEF EventOf
    <3>3. JobInv'
      BY <1>1, <1>3, <3>1, <3>2 DEF ReplayInv, JobInv
    <3>4. ReplayedInv'
      BY <1>1, <1>3, <3>1 DEF ReplayInv, ReplayedInv
    <3> QED
      BY <3>3, <3>4
  <2> QED
    BY <2>1, <2>3, <2>4 DEF ReplayInv
<1>4. CASE pc' # pc
  <2>1. PICK f \in todo[b] : /\ pc' = [pc EXCEPT ![<<b, f>>] = "waiting"]
                             /\ todo' = [todo EXCEPT ![b] = @ \ {f}]
                             /\ batch' = batch
    BY <1>4 DEF BatchStep, FindFailures, EnqueueFailure, FinishBatch, Goto, vars
  <2>2. /\ f \in Failures /\ <<b, f>> \in ReplayJobs /\ <<b, f>> \in Fanouts
        /\ pc[<<b, f>>] = "idle" /\ failedEvent[f] # NoEvent /\ batch[b] # "idle"
    BY <1>2, <2>1, ReplayJobsAreFanouts DEF ReplayInv, ReplayTyped, AddedInv
  <2>3. /\ pc'[<<b, f>>] = "waiting"
        /\ \A j \in ReplayJobs : j # <<b, f>> => pc'[j] = pc[j]
        /\ pc' \in [Fanouts -> ReplayLocation]
    BY <2>1, <2>2, ReplayJobsAreFanouts DEF ReplayInv, ReplayTyped, ReplayLocation
  <2>4. ReplayTyped'
    BY <1>1, <1>2, <2>3 DEF ReplayInv, ReplayTyped, RowOf
  <2>5. AddedInv'
    <3> SUFFICES ASSUME NEW a \in Batches, NEW g \in Failures
                 PROVE  /\ batch'[a] = "idle" \/ g \in todo'[a] => pc'[<<a, g>>] = "idle"
                        /\ g \in todo'[a] \/ pc'[<<a, g>>] # "idle" => failedEvent'[g] # NoEvent
      BY DEF AddedInv
    <3>1. CASE a = b /\ g = f
      BY <1>1, <2>1, <2>2, <3>1 DEF ReplayInv, ReplayTyped
    <3>2. CASE ~(a = b /\ g = f)
      <4>1. pc'[<<a, g>>] = pc[<<a, g>>]
        BY <2>3, <3>2, ReplayJobsAreFanouts
      <4>2. todo'[a] \subseteq todo[a] /\ batch'[a] = batch[a]
        BY <1>2, <2>1 DEF ReplayInv, ReplayTyped
      <4> QED
        BY <1>1, <4>1, <4>2 DEF ReplayInv, AddedInv
    <3> QED
      BY <3>1, <3>2
  <2>6. JobInv'
    <3>1. \A j \in ReplayJobs : /\ pc[j] # "idle" => pc'[j] # "idle"
                                /\ pc'[j] \in {"await", "complete"} => pc'[j] = pc[j]
      BY <2>3
    <3> QED
      BY <1>1, <3>1 DEF ReplayInv, JobInv, Requeued, EventOf
  <2>7. ReplayedInv'
    <3>1. \A j \in ReplayJobs : pc[j] = "done" => pc'[j] = "done" /\ targets'[j] = targets[j]
      BY <1>1, <2>2, <2>3
    <3>2. Kept
      BY <1>1 DEF Kept
    <3> QED
      BY <1>1, <3>1, <3>2, ReplayedIsKept DEF ReplayInv
  <2> QED
    BY <2>4, <2>5, <2>6, <2>7 DEF ReplayInv
<1> QED
  BY <1>3, <1>4

\* The branch that a replay job starts for destination d.
JobBranch(j, d) ==
    [fanout |-> j, event |-> EventOf(j), destination |-> d, row |-> 0]

\* Where a job goes, and that it moves alone.
LEMMA JobMove ==
  ASSUME ReplayInv, NEW j \in ReplayJobs, ReplayStep(j) \/ ReplayCrash(j)
  PROVE  /\ UNCHANGED <<deliveries, queue, failedEvent, batch, todo>> /\ Rows' = Rows
         /\ pc[j] \notin {"idle", "done"} /\ pc'[j] # "idle"
         /\ pc' \in [Fanouts -> ReplayLocation]
         /\ \A k \in Fanouts : k # j => pc'[k] = pc[k]
<1>1. /\ UNCHANGED <<deliveries, queue, failedEvent, batch, todo>> /\ Rows' = Rows
      /\ pc[j] \notin {"idle", "done"}
  BY DEF ReplayStep, TakeReplayJob, LoadFailure, LoadEvent, FindDestinations, Await,
     MarkReplayed, ReplayRejected, ReplayCrash, Crash, storeVars, replayVars, Rows, InQueue
<1>2. PICK l \in ReplayLocation : l # "idle" /\ pc' = [pc EXCEPT ![j] = l]
  BY DEF ReplayStep, TakeReplayJob, LoadFailure, LoadEvent, FindDestinations, Await,
     MarkReplayed, ReplayRejected, ReplayCrash, Crash, Goto, ReplayLocation, Location, Early
<1> QED
  BY <1>1, <1>2, ReplayJobsAreFanouts DEF ReplayInv, ReplayTyped

LEMMA JobKeepsAdded ==
  ASSUME ReplayInv, NEW j \in ReplayJobs, ReplayStep(j) \/ ReplayCrash(j)
  PROVE  AddedInv'
<1> SUFFICES ASSUME NEW b \in Batches, NEW f \in Failures
             PROVE  /\ batch'[b] = "idle" \/ f \in todo'[b] => pc'[<<b, f>>] = "idle"
                    /\ f \in todo'[b] \/ pc'[<<b, f>>] # "idle" => failedEvent'[f] # NoEvent
  BY DEF AddedInv
<1>1. pc'[<<b, f>>] = "idle" <=> pc[<<b, f>>] = "idle"
  BY JobMove, ReplayJobsAreFanouts
<1> QED
  BY <1>1, JobMove DEF ReplayInv, AddedInv

\* What a job's look for destinations leaves to its branches.
LEMMA JobFinds ==
  ASSUME ReplayInv, NEW j \in ReplayJobs, FindDestinations(j, EventOf(j)),
         UNCHANGED replayVars, pc'[j] = "await"
  PROVE  ReplayTyped' /\ JobInv'
<1>1. /\ targets' = [targets EXCEPT ![j] = ActiveFor(EventOf(j))]
      /\ branches' = branches \cup {JobBranch(j, d) : d \in ActiveFor(EventOf(j))}
      /\ rejected' = rejected /\ replayed' = replayed
  BY ReplayJobsAreFanouts
     DEF FindDestinations, JobBranch, Goto, replayVars, ReplayInv, ReplayTyped
<1>2. /\ UNCHANGED <<deliveries, queue, failedEvent, batch, todo>> /\ Rows' = Rows
      /\ pc[j] # "idle" /\ pc' \in [Fanouts -> ReplayLocation]
      /\ \A k \in Fanouts : k # j => pc'[k] = pc[k]
  <2>1. ReplayStep(j)
    BY DEF ReplayStep, EventOf
  <2> QED
    BY <2>1, JobMove
<1>3. ActiveFor(EventOf(j)) \subseteq Destinations
  BY DEF ActiveFor
<1>4. EventOf(j) \in Requests
  BY <1>2, ReplayJobsAreFanouts DEF ReplayInv, ReplayTyped, AddedInv, EventOf
<1>5. \A d \in ActiveFor(EventOf(j)) :
        /\ JobBranch(j, d) \in [fanout : Fanouts, event : Requests,
                                destination : Destinations, row : 0 .. Len(deliveries)]
        /\ JobBranch(j, d).fanout = j /\ JobBranch(j, d).row = 0
        /\ JobBranch(j, d).event = EventOf(j) /\ JobBranch(j, d).destination = d
  BY <1>3, <1>4, ReplayRowsTyped, ReplayJobsAreFanouts DEF JobBranch, ReplayInv
<1>6. /\ \A k \in ReplayJobs : k # j => targets'[k] = targets[k]
      /\ targets'[j] = ActiveFor(EventOf(j)) /\ targets' \in [Fanouts -> SUBSET Destinations]
  BY <1>1, <1>3, ReplayJobsAreFanouts DEF ReplayInv, ReplayTyped
<1>7. ReplayTyped'
  BY <1>1, <1>2, <1>5, <1>6 DEF ReplayInv, ReplayTyped, RowOf
<1>8. JobInv'
  <2> SUFFICES ASSUME NEW k \in ReplayJobs
        PROVE  /\ \A b \in branches' : b.fanout = k => b.event = EventOf(k)' /\ pc'[k] # "idle"
               /\ pc'[k] = "await" /\ k \notin rejected' => \A d \in targets'[k] :
                    Requeued(k, d)' \/ \E b \in branches' : b.fanout = k /\ b.destination = d
               /\ pc'[k] = "complete" => \A d \in targets'[k] : Requeued(k, d)'
    BY DEF JobInv
  <2>1. EventOf(k)' = EventOf(k) /\ \A d : Requeued(k, d)' <=> Requeued(k, d)
    BY <1>2 DEF EventOf, Requeued
  <2>2. CASE k = j
    BY <1>1, <1>2, <1>5, <1>6, <2>1, <2>2 DEF ReplayInv, JobInv
  <2>3. CASE k # j
    <3>1. pc'[k] = pc[k] /\ targets'[k] = targets[k]
      BY <1>2, <1>6, <2>3, ReplayJobsAreFanouts
    <3>2. \A b : b.fanout = k => (b \in branches' <=> b \in branches)
      BY <1>1, <1>5, <2>3
    <3> QED
      BY <1>1, <2>1, <3>1, <3>2 DEF ReplayInv, JobInv
  <2> QED
    BY <2>2, <2>3
<1> QED
  BY <1>7, <1>8

\* Any other step of a job: it starts no branch, and goes on from Promise.all
\* only when every branch has queued its delivery.
LEMMA JobGoesOn ==
  ASSUME ReplayInv, NEW j \in ReplayJobs, ReplayStep(j) \/ ReplayCrash(j),
         UNCHANGED targets, branches' \subseteq branches,
         \A b \in branches : b.fanout # j => b \in branches',
         rejected' = rejected \/ rejected' = rejected \ {j},
         pc'[j] # "await",
         pc'[j] = "complete" =>
           pc[j] = "await" /\ j \notin rejected /\ \A b \in branches : b.fanout # j,
         replayed' \subseteq Failures
  PROVE  ReplayTyped' /\ JobInv'
<1>1. /\ UNCHANGED <<deliveries, queue, failedEvent, batch, todo>> /\ Rows' = Rows
      /\ pc[j] # "idle" /\ pc'[j] # "idle" /\ pc' \in [Fanouts -> ReplayLocation]
      /\ \A k \in Fanouts : k # j => pc'[k] = pc[k]
  BY JobMove
<1>2. ReplayTyped'
  BY <1>1 DEF ReplayInv, ReplayTyped, RowOf
<1>3. JobInv'
  <2> SUFFICES ASSUME NEW k \in ReplayJobs
        PROVE  /\ \A b \in branches' : b.fanout = k => b.event = EventOf(k)' /\ pc'[k] # "idle"
               /\ pc'[k] = "await" /\ k \notin rejected' => \A d \in targets'[k] :
                    Requeued(k, d)' \/ \E b \in branches' : b.fanout = k /\ b.destination = d
               /\ pc'[k] = "complete" => \A d \in targets'[k] : Requeued(k, d)'
    BY DEF JobInv
  <2>1. EventOf(k)' = EventOf(k) /\ \A d : Requeued(k, d)' <=> Requeued(k, d)
    BY <1>1 DEF EventOf, Requeued
  <2>2. CASE k = j
    BY <1>1, <2>1, <2>2 DEF ReplayInv, JobInv
  <2>3. CASE k # j
    <3>1. pc'[k] = pc[k] /\ targets'[k] = targets[k] /\ (k \in rejected' <=> k \in rejected)
      BY <1>1, <2>3, ReplayJobsAreFanouts
    <3>2. \A b : b.fanout = k => (b \in branches' <=> b \in branches)
      BY <2>3
    <3> QED
      BY <2>1, <3>1, <3>2 DEF ReplayInv, JobInv
  <2> QED
    BY <2>2, <2>3
<1> QED
  BY <1>2, <1>3

LEMMA JobKeepsReplay ==
  ASSUME ReplayInv, NEW j \in ReplayJobs, ReplayStep(j) \/ ReplayCrash(j)
  PROVE  ReplayInv'
<1>1. ASSUME FindDestinations(j, EventOf(j)), UNCHANGED replayVars, pc'[j] = "await"
      PROVE  ReplayTyped' /\ JobInv' /\ replayed' = replayed
  BY <1>1, JobFinds DEF replayVars
<1>2. ASSUME ~(/\ FindDestinations(j, EventOf(j)) /\ UNCHANGED replayVars
               /\ pc'[j] = "await")
      PROVE  ReplayTyped' /\ JobInv'
  <2>1. j \in DOMAIN pc
    BY ReplayJobsAreFanouts DEF ReplayInv, ReplayTyped
  <2>2. /\ UNCHANGED targets /\ branches' \subseteq branches
        /\ \A b \in branches : b.fanout # j => b \in branches'
        /\ rejected' = rejected \/ rejected' = rejected \ {j}
    BY <1>2, <2>1 DEF ReplayStep, TakeReplayJob, LoadFailure, LoadEvent, FindDestinations,
       Await, MarkReplayed, ReplayRejected, ReplayCrash, Crash, Goto, fanoutVars, BranchesOf,
       EventOf
  <2>3. /\ pc'[j] # "await"
        /\ pc'[j] = "complete" =>
             pc[j] = "await" /\ j \notin rejected /\ \A b \in branches : b.fanout # j
    BY <1>2, <2>1 DEF ReplayStep, TakeReplayJob, LoadFailure, LoadEvent, FindDestinations,
       Await, MarkReplayed, ReplayRejected, ReplayCrash, Crash, Goto, BranchesOf, EventOf
  <2>4. replayed' \subseteq Failures
    BY ReplayJobsAreFanouts DEF ReplayStep, TakeReplayJob, LoadFailure, LoadEvent,
       MarkReplayed, ReplayRejected, ReplayCrash, replayVars, ReplayInv, ReplayTyped
  <2> QED
    BY <2>2, <2>3, <2>4, JobGoesOn
<1>3. Kept /\ \A k \in ReplayJobs : \A d : Requeued(k, d)' <=> Requeued(k, d)
  BY JobMove DEF Kept, Requeued, EventOf
<1>4. \A k \in ReplayJobs : pc[k] = "done" => pc'[k] = "done" /\ targets'[k] = targets[k]
  <2>1. \A k \in Fanouts : k # j => targets'[k] = targets[k]
    BY DEF ReplayStep, TakeReplayJob, LoadFailure, LoadEvent, FindDestinations, Await,
       MarkReplayed, ReplayRejected, ReplayCrash, Crash, fanoutVars, ReplayInv, ReplayTyped
  <2> QED
    BY <2>1, JobMove, ReplayJobsAreFanouts
<1>5. ReplayedInv'
  <2>1. CASE replayed' = replayed
    BY <1>3, <1>4, <2>1, ReplayedIsKept DEF ReplayInv
  <2>2. CASE replayed' # replayed
    <3>1. /\ pc[j] = "complete" /\ pc'[j] = "done" /\ targets' = targets
          /\ replayed' = replayed \cup {FailureOf(j)}
      <4>1. MarkReplayed(j) /\ replayed' = replayed \cup {FailureOf(j)} /\ Goto(j, "done")
        BY <2>2 DEF ReplayStep, TakeReplayJob, LoadFailure, LoadEvent, MarkReplayed,
           ReplayRejected, ReplayCrash, replayVars
      <4> QED
        BY <4>1, ReplayJobsAreFanouts
           DEF MarkReplayed, Goto, fanoutVars, ReplayInv, ReplayTyped
    <3>2. PICK b \in Batches : j = <<b, FailureOf(j)>>
      BY ReplayJobsAreFanouts
    <3>3. pc'[j] = "done" /\ \A d \in targets'[j] : Requeued(j, d)'
      BY <1>3, <3>1 DEF ReplayInv, JobInv
    <3>4. ASSUME NEW f \in replayed
          PROVE  \E a \in Batches : /\ pc'[<<a, f>>] = "done"
                                    /\ \A d \in targets'[<<a, f>>] : Requeued(<<a, f>>, d)'
      <4>1. PICK a \in Batches : /\ pc[<<a, f>>] = "done"
                                 /\ \A d \in targets[<<a, f>>] : Requeued(<<a, f>>, d)
        BY DEF ReplayInv, ReplayedInv
      <4>2. <<a, f>> \in ReplayJobs
        BY ReplayJobsAreFanouts DEF ReplayInv, ReplayTyped
      <4> QED
        BY <1>3, <1>4, <4>1, <4>2
    <3> QED
      BY <3>1, <3>2, <3>3, <3>4 DEF ReplayedInv
  <2> QED
    BY <2>1, <2>2
<1> QED
  BY <1>1, <1>2, <1>5, JobKeepsAdded DEF ReplayInv

LEMMA ReplayStepInv == ReplayInv /\ [ReplayNext]_allVars => ReplayInv'
<1> SUFFICES ASSUME ReplayInv, [ReplayNext]_allVars PROVE ReplayInv'
  OBVIOUS
<1>1. CASE Next /\ UNCHANGED replayVars
  BY <1>1, RequestKeepsReplay, CreateDeliveryKeepsReplay, AddJobKeepsReplay,
     DestinationKeepsReplay DEF Next, BranchStep
<1>2. CASE UNCHANGED allVars
  <2>1. UNCHANGED vars /\ UNCHANGED replayVars
    BY <1>2 DEF allVars
  <2> QED
    BY <2>1, DestinationKeepsReplay
<1> QED
  BY <1>1, <1>2, RecordFailureKeepsReplay, BatchKeepsReplay, JobKeepsReplay DEF ReplayNext

LEMMA GotThrough ==
  ASSUME ReplayInv PROVE ReplayedMeansRequeued
<1> SUFFICES ASSUME NEW f \in replayed
             PROVE  \E b \in Batches :
                      /\ pc[<<b, f>>] = "done"
                      /\ \A d \in targets[<<b, f>>] : \E i \in queue :
                           /\ deliveries[i].fanout = <<b, f>>
                           /\ deliveries[i].destination = d
                           /\ deliveries[i].event = failedEvent[f]
  BY DEF ReplayedMeansRequeued
<1>1. PICK b \in Batches : /\ pc[<<b, f>>] = "done"
                           /\ \A d \in targets[<<b, f>>] : Requeued(<<b, f>>, d)
  BY DEF ReplayInv, ReplayedInv
<1>2. EventOf(<<b, f>>) = failedEvent[f]
  BY ReplayJobsAreFanouts DEF EventOf, ReplayInv, ReplayTyped
<1>3. \A d : Requeued(<<b, f>>, d) => \E i \in queue :
        /\ deliveries[i].fanout = <<b, f>> /\ deliveries[i].destination = d
        /\ deliveries[i].event = failedEvent[f]
  BY <1>2 DEF Requeued
<1> QED
  BY <1>1, <1>3

\* A failure is marked replayed only when some job of it queued a new delivery
\* for every destination it found active, whatever failed, crashed or is still
\* running in other jobs of the same failure.
THEOREM ReplayedIsRequeued == ReplaySpec => []ReplayedMeansRequeued
<1>1. ReplaySpec => []ReplayInv
  BY ReplayInitInv, ReplayStepInv, PTL DEF ReplaySpec
<1>2. ReplayInv => ReplayedMeansRequeued
  BY GotThrough
<1> QED
  BY <1>1, <1>2, PTL

-----------------------------------------------------------------------------
(* What EventFanout promises, with replays. A replay makes rows for events *)
(* and destinations that no caller is at any more, so what a row is about  *)
(* follows from the failure the job was added for, and that from a row.    *)

WebhookEvent(e) == e \in events /\ Registry[TypeOf(e)].webhookEnabled

Addressed(e, d) ==
    /\ WebhookEvent(e)
    /\ destination[d] # "absent"
    /\ DestinationOf[d].tenant = RequestOf[e].tenant
    /\ DestinationOf[d].type = TypeOf(e)

AddressedInv ==
    /\ \A b \in branches : Addressed(b.event, b.destination)
    /\ \A i \in Rows : Addressed(deliveries[i].event, deliveries[i].destination)
    /\ \A f \in Failures : failedEvent[f] # NoEvent => WebhookEvent(failedEvent[f])

\* A call of logEvent fans out its own event.
OwnInv == \A b \in branches : b.fanout \in Requests => b.event = b.fanout

SharedInv ==
    CallerTyped /\ CallerInv /\ KeyInv /\ QueuedInv /\ AddressedInv /\ OwnInv

LEMMA SharedInitInv == ReplayInit => SharedInv
<1> SUFFICES ASSUME ReplayInit PROVE SharedInv
  OBVIOUS
<1>1. Rows = {}
  BY DEF ReplayInit, Init, Rows
<1>2. CallerTyped /\ CallerInv /\ KeyInv /\ QueuedInv
  BY DEF ReplayInit, Init, CallerTyped, CallerInv, KeyInv, QueuedInv
<1>3. AddressedInv /\ OwnInv
  BY <1>1 DEF ReplayInit, Init, AddressedInv, OwnInv
<1> QED
  BY <1>2, <1>3 DEF SharedInv

LEMMA CallerKeepsShared ==
  ASSUME ReplayInv, SharedInv, NEW r \in Requests, CallerMoves(r), KeyInv',
         UNCHANGED replayVars
  PROVE  SharedInv'
<1>1. /\ UNCHANGED <<destination, deliveries, queue, targets, branches, rejected, failedEvent>>
      /\ Rows' = Rows
  BY DEF CallerMoves, storeVars, fanoutVars, replayVars, Rows
<1>2. CallerTyped'
  BY <1>1 DEF SharedInv, CallerTyped, CallerInv, CallerMoves
<1>3. CallerInv'
  BY ReplayJobsAreFanouts
     DEF SharedInv, CallerTyped, CallerInv, CallerMoves, ReplayInv, ReplayTyped
<1>4. \A e, d : Addressed(e, d) => Addressed(e, d)'
  BY <1>1 DEF CallerMoves, Addressed, WebhookEvent
<1>5. \A e : WebhookEvent(e) => WebhookEvent(e)'
  BY DEF CallerMoves, WebhookEvent
<1>6. AddressedInv' /\ OwnInv'
  BY <1>1, <1>4, <1>5 DEF SharedInv, AddressedInv, OwnInv
<1>7. QueuedInv'
  <2>1. \A q \in Requests : q # r => pc'[q] = pc[q]
    BY DEF CallerMoves, ReplayInv, ReplayTyped
  <2>2. \A q \in Requests : q # r => (q \in fanoutCompleted' => q \in fanoutCompleted)
    BY DEF CallerMoves
  <2>3. \A e, d : Queued(e, d)' <=> Queued(e, d)
    BY <1>1 DEF Queued
  <2>4. \A d \in targets[r] : pc'[r] = "complete" \/ r \in fanoutCompleted' => Queued(r, d)
    BY DEF CallerMoves, BranchesOf, SharedInv, QueuedInv
  <2>5. pc'[r] # "await"
    BY DEF CallerMoves
  <2> QED
    BY <1>1, <2>1, <2>2, <2>3, <2>4, <2>5 DEF SharedInv, QueuedInv
<1> QED
  BY <1>2, <1>3, <1>6, <1>7 DEF SharedInv

\* A look for destinations, of a call or of a replay job.
LEMMA FindKeepsShared ==
  ASSUME ReplayInv, SharedInv, UNCHANGED replayVars, NEW f \in Fanouts, NEW e \in Requests,
         FindDestinations(f, e), WebhookEvent(e), f \in Requests => f = e
  PROVE  SharedInv'
<1>1. /\ UNCHANGED <<events, fanoutCompleted, returned, destination, deliveries, queue,
                     rejected, failedEvent>>
      /\ Rows' = Rows /\ pc[f] = "find"
  BY DEF FindDestinations, eventVars, storeVars, replayVars, Rows
<1>2. \/ /\ pc'[f] = "await" /\ targets'[f] = ActiveFor(e)
         /\ branches' = branches \cup
              {[fanout |-> f, event |-> e, destination |-> d, row |-> 0] : d \in ActiveFor(e)}
      \/ pc'[f] = "rejected" /\ UNCHANGED <<targets, branches>>
  BY DEF FindDestinations, Goto, ReplayInv, ReplayTyped
<1>3. /\ \A g \in Fanouts : g # f => pc'[g] = pc[g] /\ targets'[g] = targets[g]
      /\ pc'[f] \in {"await", "rejected"} /\ branches \subseteq branches'
      /\ \A b \in branches' : b \in branches \/ (/\ b.fanout = f /\ b.event = e
                                                /\ b.destination \in ActiveFor(e))
  BY <1>2 DEF FindDestinations, Goto, ReplayInv, ReplayTyped
<1>4. CallerTyped' /\ KeyInv'
  BY <1>1 DEF SharedInv, CallerTyped, KeyInv
<1>5. CallerInv'
  BY <1>1, <1>3 DEF SharedInv, CallerInv, Early
<1>6. \A d \in ActiveFor(e) : Addressed(e, d)
  BY DEF Addressed, ActiveFor
<1>7. \A c, d : /\ Addressed(c, d)' <=> Addressed(c, d)
                /\ WebhookEvent(c)' <=> WebhookEvent(c)
  BY <1>1 DEF Addressed, WebhookEvent
<1>8. AddressedInv' /\ OwnInv'
  BY <1>1, <1>3, <1>6, <1>7 DEF SharedInv, AddressedInv, OwnInv
<1>9. QueuedInv'
  <2>1. \A c, d : Queued(c, d)' <=> Queued(c, d)
    BY <1>1 DEF Queued
  <2> SUFFICES ASSUME NEW q \in Requests
        PROVE  /\ pc'[q] = "await" /\ q \notin rejected' => \A d \in targets'[q] :
                    Queued(q, d)' \/ \E b \in branches' : b.fanout = q /\ b.destination = d
               /\ pc'[q] = "complete" \/ q \in fanoutCompleted' =>
                    \A d \in targets'[q] : Queued(q, d)'
    BY DEF QueuedInv
  <2>2. CASE q = f
    <3>1. q \notin fanoutCompleted' /\ pc'[q] # "complete"
      BY <1>1, <1>3, <2>2 DEF SharedInv, CallerInv, Early
    <3>2. ASSUME pc'[q] = "await", NEW d \in targets'[q]
          PROVE  \E b \in branches' : b.fanout = q /\ b.destination = d
      <4>1. [fanout |-> f, event |-> e, destination |-> d, row |-> 0] \in branches'
        BY <1>2, <2>2, <3>2
      <4> QED
        BY <2>2, <4>1
    <3> QED
      BY <3>1, <3>2
  <2>3. CASE q # f
    BY <1>1, <1>3, <2>1, <2>3 DEF SharedInv, QueuedInv
  <2> QED
    BY <2>2, <2>3
<1> QED
  BY <1>4, <1>5, <1>8, <1>9 DEF SharedInv

\* A step that moves callers, if any, to where nothing is asked of them, takes
\* branches away from them, and records failures of webhook events.
LEMMA OthersKeepShared ==
  ASSUME ReplayInv, SharedInv,
         UNCHANGED <<events, fanoutCompleted, returned, destination, deliveries, queue>>,
         branches' \subseteq branches, rejected' \subseteq Fanouts,
         \A r \in Requests :
           /\ targets'[r] = targets[r]
           /\ pc'[r] = "crashed" \/ (/\ pc'[r] = pc[r]
                                     /\ r \in rejected => r \in rejected'
                                     /\ r \in rejected' \/ \A b \in branches :
                                          b.fanout = r => b \in branches'),
         \A f \in Failures : failedEvent'[f] # NoEvent =>
           WebhookEvent(failedEvent'[f])
  PROVE  SharedInv'
<1>1. Rows' = Rows
  BY DEF Rows
<1>2. CallerTyped' /\ KeyInv'
  BY DEF SharedInv, CallerTyped, KeyInv
<1>3. CallerInv'
  BY DEF SharedInv, CallerInv, Early
<1>4. \A c, d : /\ Addressed(c, d)' <=> Addressed(c, d)
                /\ WebhookEvent(c)' <=> WebhookEvent(c)
  BY DEF Addressed, WebhookEvent
<1>5. AddressedInv' /\ OwnInv'
  BY <1>1, <1>4 DEF SharedInv, AddressedInv, OwnInv
<1>6. QueuedInv'
  <2>1. \A c, d : Queued(c, d)' <=> Queued(c, d)
    BY DEF Queued
  <2> QED
    BY <2>1 DEF SharedInv, QueuedInv
<1> QED
  BY <1>2, <1>3, <1>5, <1>6 DEF SharedInv

LEMMA RejectKeepsShared ==
  ASSUME ReplayInv, SharedInv, NEW b \in branches, Reject(b),
         UNCHANGED <<eventVars, destination, storeVars, pc, targets, replayVars>>
  PROVE  SharedInv'
<1>1. b.fanout \in Fanouts
  BY DEF ReplayInv, ReplayTyped
<1>2. /\ UNCHANGED <<events, fanoutCompleted, returned, destination, deliveries, queue,
                     pc, targets, failedEvent>>
      /\ branches' = branches \ {b} /\ rejected' = rejected \cup {b.fanout}
  BY DEF Reject, eventVars, storeVars, replayVars
<1>3. \A f \in Failures : failedEvent'[f] # NoEvent => WebhookEvent(failedEvent'[f])
  BY <1>2 DEF SharedInv, AddressedInv
<1>4. rejected' \subseteq Fanouts /\ branches' \subseteq branches
  BY <1>1, <1>2 DEF SharedInv, CallerTyped
<1> QED
  BY <1>2, <1>3, <1>4, OthersKeepShared

LEMMA CreateDeliveryKeepsShared ==
  ASSUME ReplayInv, SharedInv, NEW b \in branches, CreateDelivery(b), UNCHANGED replayVars
  PROVE  SharedInv'
<1>1. CASE Reject(b) /\ UNCHANGED deliveries
  BY <1>1, RejectKeepsShared DEF CreateDelivery, storeVars
<1>2. CASE ~(Reject(b) /\ UNCHANGED deliveries)
  <2>1. PICK next : next = [b EXCEPT !.row = Len(deliveries) + 1]
    OBVIOUS
  <2>2. /\ deliveries' = Append(deliveries, RowOf(b))
        /\ branches' = (branches \ {b}) \cup {next}
        /\ UNCHANGED <<events, fanoutCompleted, returned, destination, queue, pc, targets,
                       rejected, failedEvent>>
    BY <1>2, <2>1 DEF CreateDelivery, RowOf, eventVars, replayVars
  <2>3. b \in [fanout : Fanouts, event : Requests,
               destination : Destinations, row : 0 .. Len(deliveries)]
    BY DEF ReplayInv, ReplayTyped
  <2>4. /\ next.fanout = b.fanout /\ next.event = b.event
        /\ next.destination = b.destination
        /\ RowOf(b).event = b.event /\ RowOf(b).destination = b.destination
        /\ RowOf(b) \in Row
    BY <2>1, <2>3 DEF RowOf, Row
  <2>5. /\ \A i \in Rows' : i \in Rows \/ deliveries'[i] = RowOf(b)
        /\ \A i \in Rows : deliveries'[i] = deliveries[i]
    BY <2>2, <2>4, ReplayRowsTyped DEF Rows, ReplayInv, ReplayTyped
  <2>6. CallerTyped' /\ KeyInv' /\ CallerInv'
    BY <2>2 DEF SharedInv, CallerTyped, KeyInv, CallerInv
  <2>7. \A c, d : /\ Addressed(c, d)' <=> Addressed(c, d)
                  /\ WebhookEvent(c)' <=> WebhookEvent(c)
    BY <2>2 DEF Addressed, WebhookEvent
  <2>8. AddressedInv'
    <3>1. \A c \in branches' : Addressed(c.event, c.destination)'
      BY <2>2, <2>4, <2>7 DEF SharedInv, AddressedInv
    <3>2. \A i \in Rows' : Addressed(deliveries[i].event, deliveries[i].destination)'
      BY <2>4, <2>5, <2>7 DEF SharedInv, AddressedInv
    <3>3. \A f \in Failures : failedEvent'[f] # NoEvent => WebhookEvent(failedEvent[f])'
      BY <2>2, <2>7 DEF SharedInv, AddressedInv
    <3> QED
      BY <3>1, <3>2, <3>3 DEF AddressedInv
  <2>9. OwnInv'
    BY <2>2, <2>4 DEF SharedInv, OwnInv
  <2>10. QueuedInv'
    <3>1. \A c, d : Queued(c, d) => Queued(c, d)'
      BY <2>2, <2>5 DEF Queued, ReplayInv, ReplayTyped
    <3>2. \A f, d : (\E c \in branches : c.fanout = f /\ c.destination = d)
                      => \E c \in branches' : c.fanout = f /\ c.destination = d
      BY <2>2, <2>4
    <3> QED
      BY <2>2, <3>1, <3>2 DEF SharedInv, QueuedInv
  <2> QED
    BY <2>6, <2>8, <2>9, <2>10 DEF SharedInv
<1> QED
  BY <1>1, <1>2

LEMMA AddJobKeepsShared ==
  ASSUME ReplayInv, SharedInv, NEW b \in branches, AddJob(b), UNCHANGED replayVars
  PROVE  SharedInv'
<1>1. CASE Reject(b) /\ UNCHANGED queue
  BY <1>1, RejectKeepsShared DEF AddJob, storeVars
<1>2. CASE ~(Reject(b) /\ UNCHANGED queue)
  <2>1. /\ b.row # 0 /\ queue' = queue \cup {b.row} /\ branches' = branches \ {b}
        /\ UNCHANGED <<events, fanoutCompleted, returned, destination, deliveries, pc,
                       targets, rejected, failedEvent>>
        /\ Rows' = Rows
    BY <1>2 DEF AddJob, eventVars, replayVars, Rows
  <2>2. CallerTyped' /\ KeyInv' /\ CallerInv'
    BY <2>1 DEF SharedInv, CallerTyped, KeyInv, CallerInv
  <2>3. AddressedInv' /\ OwnInv'
    BY <2>1 DEF SharedInv, AddressedInv, Addressed, WebhookEvent, OwnInv
  <2>4. QueuedInv'
    <3>1. \A c, d : Queued(c, d) => Queued(c, d)'
      BY <2>1 DEF Queued
    <3>2. b.fanout \in Requests => Queued(b.fanout, b.destination)'
      <4>1. b.row \in queue' /\ deliveries'[b.row] = RowOf(b)
        BY <2>1 DEF ReplayInv, ReplayTyped
      <4>2. RowOf(b).event = b.event /\ RowOf(b).destination = b.destination
        BY DEF RowOf
      <4> QED
        BY <4>1, <4>2 DEF Queued, SharedInv, OwnInv
    <3> QED
      BY <2>1, <3>1, <3>2 DEF SharedInv, QueuedInv
  <2> QED
    BY <2>2, <2>3, <2>4 DEF SharedInv
<1> QED
  BY <1>1, <1>2

LEMMA DestinationKeepsShared ==
  ASSUME ReplayInv, SharedInv, DestinationStep, UNCHANGED replayVars
  PROVE  SharedInv'
<1>1. /\ UNCHANGED <<events, fanoutCompleted, returned, deliveries, queue, pc, targets,
                     branches, rejected, failedEvent>>
      /\ Rows' = Rows
  BY DEF DestinationStep, CreateDestination, DisableDestination, eventVars, storeVars,
     fanoutVars, replayVars, Rows
<1>2. /\ destination' \in [Destinations -> {"absent", "active", "disabled"}]
      /\ \A d \in Destinations : destination[d] # "absent" => destination'[d] # "absent"
  BY DEF DestinationStep, CreateDestination, DisableDestination, SharedInv, CallerTyped
<1>3. CallerTyped' /\ CallerInv' /\ KeyInv' /\ QueuedInv' /\ OwnInv'
  BY <1>1, <1>2
     DEF SharedInv, CallerTyped, CallerInv, KeyInv, QueuedInv, Queued, OwnInv
<1>4. \A e : \A d \in Destinations : Addressed(e, d) => Addressed(e, d)'
  BY <1>1, <1>2 DEF Addressed, WebhookEvent
<1>5. /\ \A b \in branches : b.destination \in Destinations
      /\ \A i \in Rows : deliveries[i].destination \in Destinations
  BY ReplayRowsTyped DEF ReplayInv, ReplayTyped, Row
<1>6. AddressedInv'
  BY <1>1, <1>4, <1>5 DEF SharedInv, AddressedInv, WebhookEvent
<1> QED
  BY <1>3, <1>6 DEF SharedInv

LEMMA RequestKeepsShared ==
  ASSUME ReplayInv, SharedInv, NEW r \in Requests, UNCHANGED replayVars,
         LogEventStep(r) \/ Crash(r, "crashed")
  PROVE  SharedInv'
<1>1. CASE \/ LogEvent(r) \/ FindExisting(r) \/ InsertEvent(r)
           \/ Await(r) \/ CompleteFanout(r) \/ SwallowRejection(r)
  <2>1. DOMAIN pc = Fanouts /\ pc = [f \in Fanouts |-> pc[f]]
    BY DEF ReplayInv, ReplayTyped
  <2>2. CallerMoves(r) /\ KeyInv'
    BY <1>1, <2>1, CallerStep, InsertKeepsKeys DEF SharedInv
  <2> QED
    BY <2>2, CallerKeepsShared
<1>2. CASE FindDestinations(r, r)
  <2>1. WebhookEvent(r)
    BY <1>2 DEF FindDestinations, SharedInv, CallerInv, WebhookEvent
  <2> QED
    BY <1>2, <2>1, FindKeepsShared
<1>3. CASE Crash(r, "crashed")
  <2>1. /\ UNCHANGED <<events, fanoutCompleted, returned, destination, deliveries, queue,
                       targets, failedEvent>>
        /\ pc' = [pc EXCEPT ![r] = "crashed"]
        /\ branches' = branches \ BranchesOf(r) /\ rejected' = rejected \ {r}
    BY <1>3 DEF Crash, Goto, eventVars, storeVars, replayVars
  <2>2. \A f \in Failures : failedEvent'[f] # NoEvent => WebhookEvent(failedEvent'[f])
    BY <2>1 DEF SharedInv, AddressedInv
  <2>3. rejected' \subseteq Fanouts /\ branches' \subseteq branches
    BY <2>1 DEF SharedInv, CallerTyped
  <2>4. /\ pc'[r] = "crashed"
        /\ \A q \in Requests : q # r => /\ pc'[q] = pc[q]
                                        /\ q \in rejected => q \in rejected'
                                        /\ \A b \in branches : b.fanout = q => b \in branches'
    BY <2>1 DEF BranchesOf, ReplayInv, ReplayTyped
  <2> QED
    BY <2>1, <2>2, <2>3, <2>4, OthersKeepShared
<1> QED
  BY <1>1, <1>2, <1>3 DEF LogEventStep

LEMMA RecordFailureKeepsShared ==
  ASSUME ReplayInv, SharedInv, NEW f \in Failures, RecordFailure(f)
  PROVE  SharedInv'
<1>1. PICK i \in queue : RecordFailureOf(f, i)
  BY DEF RecordFailure
<1>2. /\ failedEvent' = [failedEvent EXCEPT ![f] = deliveries[i].event]
      /\ UNCHANGED <<events, fanoutCompleted, returned, destination, deliveries, queue, pc,
                     targets, branches, rejected>>
  BY <1>1 DEF RecordFailureOf, vars, eventVars, storeVars, fanoutVars
<1>3. WebhookEvent(deliveries[i].event)
  BY DEF SharedInv, AddressedInv, Addressed, ReplayInv, ReplayTyped
<1>4. \A g \in Failures : failedEvent'[g] # NoEvent => WebhookEvent(failedEvent'[g])
  BY <1>2, <1>3 DEF SharedInv, AddressedInv, ReplayInv, ReplayTyped
<1>5. rejected' \subseteq Fanouts
  BY <1>2 DEF SharedInv, CallerTyped
<1> QED
  BY <1>2, <1>4, <1>5, OthersKeepShared

LEMMA BatchKeepsShared ==
  ASSUME ReplayInv, SharedInv, NEW b \in Batches, BatchStep(b)
  PROVE  SharedInv'
<1>1. /\ UNCHANGED <<events, fanoutCompleted, returned, destination, deliveries, queue,
                     targets, branches, rejected, failedEvent>>
  BY DEF BatchStep, FindFailures, EnqueueFailure, FinishBatch, vars, eventVars, storeVars,
     fanoutVars
<1>2. \A r \in Requests : pc'[r] = pc[r]
  <2>1. pc' = pc \/ \E f \in Failures : pc' = [pc EXCEPT ![<<b, f>>] = "waiting"]
    BY DEF BatchStep, FindFailures, EnqueueFailure, FinishBatch, vars, Goto, ReplayInv,
       ReplayTyped
  <2>2. \A f \in Failures : <<b, f>> \in ReplayJobs
    BY ReplayJobsAreFanouts
  <2>3. \A r \in Requests : \A f \in Failures : r # <<b, f>>
    BY <2>2, ReplayJobsAreFanouts
  <2> QED
    BY <2>1, <2>3 DEF ReplayInv, ReplayTyped
<1>3. \A g \in Failures : failedEvent'[g] # NoEvent => WebhookEvent(failedEvent'[g])
  BY <1>1 DEF SharedInv, AddressedInv
<1>4. rejected' \subseteq Fanouts
  BY <1>1 DEF SharedInv, CallerTyped
<1> QED
  BY <1>1, <1>2, <1>3, <1>4, OthersKeepShared

LEMMA JobKeepsShared ==
  ASSUME ReplayInv, SharedInv, NEW j \in ReplayJobs, ReplayStep(j) \/ ReplayCrash(j)
  PROVE  SharedInv'
<1>1. j \in Fanouts /\ j \notin Requests
  BY ReplayJobsAreFanouts
<1>2. ASSUME FindDestinations(j, EventOf(j)), UNCHANGED replayVars PROVE SharedInv'
  <2>1. EventOf(j) # NoEvent
    BY <1>2, ReplayJobsAreFanouts DEF FindDestinations, ReplayInv, AddedInv, EventOf
  <2>2. EventOf(j) \in Requests /\ WebhookEvent(EventOf(j))
    BY <2>1, ReplayJobsAreFanouts
       DEF EventOf, SharedInv, AddressedInv, ReplayInv, ReplayTyped
  <2> QED
    BY <1>1, <1>2, <2>2, FindKeepsShared
<1>3. ASSUME ~(FindDestinations(j, EventOf(j)) /\ UNCHANGED replayVars) PROVE SharedInv'
  <2>1. /\ UNCHANGED <<events, fanoutCompleted, returned, destination, deliveries, queue,
                       targets, failedEvent>>
        /\ branches' \subseteq branches /\ rejected' \subseteq rejected
        /\ \A b \in branches : b.fanout # j => b \in branches'
        /\ \A k : k # j => (k \in rejected' <=> k \in rejected)
    BY <1>3 DEF ReplayStep, TakeReplayJob, LoadFailure, LoadEvent, Await, MarkReplayed,
       ReplayRejected, ReplayCrash, Crash, BranchesOf, EventOf, eventVars, storeVars,
       fanoutVars, replayVars
  <2>2. \A r \in Requests : r \in Fanouts /\ r # j /\ pc'[r] = pc[r]
    BY <1>1, JobMove
  <2>3. \A g \in Failures : failedEvent'[g] # NoEvent => WebhookEvent(failedEvent'[g])
    BY <2>1 DEF SharedInv, AddressedInv
  <2>4. rejected' \subseteq Fanouts
    BY <2>1 DEF SharedInv, CallerTyped
  <2> QED
    BY <2>1, <2>2, <2>3, <2>4, OthersKeepShared
<1> QED
  BY <1>2, <1>3

LEMMA SharedStepInv == ReplayInv /\ SharedInv /\ [ReplayNext]_allVars => SharedInv'
<1> SUFFICES ASSUME ReplayInv, SharedInv, [ReplayNext]_allVars PROVE SharedInv'
  OBVIOUS
<1>1. CASE Next /\ UNCHANGED replayVars
  BY <1>1, RequestKeepsShared, CreateDeliveryKeepsShared, AddJobKeepsShared,
     DestinationKeepsShared DEF Next, BranchStep
<1>2. CASE UNCHANGED allVars
  <2>1. /\ UNCHANGED <<events, fanoutCompleted, returned, destination, deliveries, queue, pc,
                       targets, branches, rejected, failedEvent>>
        /\ rejected' \subseteq Fanouts
    BY <1>2 DEF allVars, vars, eventVars, storeVars, fanoutVars, replayVars, SharedInv,
       CallerTyped
  <2>2. \A g \in Failures : failedEvent'[g] # NoEvent => WebhookEvent(failedEvent'[g])
    BY <2>1 DEF SharedInv, AddressedInv
  <2> QED
    BY <2>1, <2>2, OthersKeepShared
<1> QED
  BY <1>1, <1>2, RecordFailureKeepsShared, BatchKeepsShared, JobKeepsShared DEF ReplayNext

\* What the invariants of a state with replays say of it.
LEMMA SharedMeans ==
  ASSUME ReplayInv, SharedInv
  PROVE  TypeOK /\ OneEventPerKey /\ CompletedFanoutQueued /\ JobsAreLoadable
<1>1. TypeOK
  <2>1. \A b \in branches : b.event \in events
    BY DEF SharedInv, AddressedInv, Addressed, WebhookEvent
  <2>2. branches \subseteq [fanout : Fanouts, event : events,
                            destination : Destinations, row : 0 .. Len(deliveries)]
    BY <2>1 DEF ReplayInv, ReplayTyped
  <2> QED
    BY <2>2 DEF TypeOK, SharedInv, CallerTyped, ReplayInv, ReplayTyped, Row
<1>2. OneEventPerKey
  BY KeysAreUnique DEF SharedInv
<1>3. CompletedFanoutQueued
  BY DEF SharedInv, CallerTyped, QueuedInv, Queued, CompletedFanoutQueued
<1>4. JobsAreLoadable
  BY DEF SharedInv, AddressedInv, Addressed, WebhookEvent, ReplayInv, ReplayTyped,
     JobsAreLoadable
<1> QED
  BY <1>1, <1>2, <1>3, <1>4

LEMMA AlwaysShared == ReplaySpec => [](ReplayInv /\ SharedInv)
  BY ReplayInitInv, ReplayStepInv, SharedInitInv, SharedStepInv, PTL DEF ReplaySpec

\* Every variable of EventFanout keeps its type while failures are replayed.
THEOREM ReplayTypeCorrect == ReplaySpec => []TypeOK
<1>1. ReplayInv /\ SharedInv => TypeOK
  BY SharedMeans
<1> QED
  BY <1>1, AlwaysShared, PTL

\* Replays store no event: one per idempotency key, whoever asks for it.
THEOREM ReplayEventsAreUnique == ReplaySpec => []OneEventPerKey
<1>1. ReplayInv /\ SharedInv => OneEventPerKey
  BY SharedMeans
<1> QED
  BY <1>1, AlwaysShared, PTL

\* fanoutCompleted keeps its meaning while other fan-outs of the event run.
THEOREM ReplayCompletedIsQueued == ReplaySpec => []CompletedFanoutQueued
<1>1. ReplayInv /\ SharedInv => CompletedFanoutQueued
  BY SharedMeans
<1> QED
  BY <1>1, AlwaysShared, PTL

\* A job that a replay adds can be loaded as one that logEvent adds, and goes
\* to a destination of the tenant and type of the event that failed.
THEOREM ReplayJobsLoad == ReplaySpec => []JobsAreLoadable
<1>1. ReplayInv /\ SharedInv => JobsAreLoadable
  BY SharedMeans
<1> QED
  BY <1>1, AlwaysShared, PTL
=============================================================================
