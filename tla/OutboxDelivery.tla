---------------------------- MODULE OutboxDelivery ----------------------------
(***************************************************************************)
(* What the transactional outbox promises, with no relay, lease or retry   *)
(* in sight.  A committed event is handed to its handlers at least once,   *)
(* becomes published only after every handler has run to completion, or is *)
(* parked as a dead letter after exactly MaxAttempts recorded failures; it *)
(* never disappears on the way.                                            *)
(***************************************************************************)
EXTENDS Integers

CONSTANTS Events,       \* the outbox rows a run may create
          Handlers,     \* the handlers subscribed to an event
          Undecodable,  \* events whose stored payload fails validation
          MaxAttempts   \* recorded failures after which a row is dead

VARIABLES status, attempts, delivered

deliveryVars == <<status, attempts, delivered>>

DeliveryInit ==
  /\ status = [e \in Events |-> "absent"]
  /\ attempts = [e \in Events |-> 0]
  /\ delivered = [e \in Events |-> {}]

Commit(e) ==
  /\ status[e] = "absent"
  /\ status' = [status EXCEPT ![e] = "pending"]
  /\ UNCHANGED <<attempts, delivered>>

\* One completed execution of a handler.  Delivery is at least once: nothing
\* forbids a further execution, even one after publication.
Deliver(e, h) ==
  /\ status[e] # "absent"
  /\ e \notin Undecodable
  /\ delivered' = [delivered EXCEPT ![e] = @ \cup {h}]
  /\ UNCHANGED <<status, attempts>>

Publish(e) ==
  /\ status[e] = "pending"
  /\ delivered[e] = Handlers
  /\ e \notin Undecodable
  /\ status' = [status EXCEPT ![e] = "published"]
  /\ UNCHANGED <<attempts, delivered>>

Fail(e) ==
  /\ status[e] = "pending"
  /\ attempts[e] < MaxAttempts
  /\ attempts' = [attempts EXCEPT ![e] = @ + 1]
  /\ status' = [status EXCEPT ![e] =
                  IF attempts[e] + 1 = MaxAttempts THEN "dead" ELSE "pending"]
  /\ UNCHANGED delivered

\* An operator requeues a whole selection of dead letters, or none of it.
Requeue(S) ==
  /\ \A e \in S : status[e] = "dead"
  /\ status' = [e \in Events |-> IF e \in S THEN "pending" ELSE status[e]]
  /\ attempts' = [e \in Events |-> IF e \in S THEN 0 ELSE attempts[e]]
  /\ UNCHANGED delivered

\* Retention removes published rows only.
Retire(S) ==
  /\ \A e \in S : status[e] = "published"
  /\ status' = [e \in Events |-> IF e \in S THEN "deleted" ELSE status[e]]
  /\ UNCHANGED <<attempts, delivered>>

DeliveryNext ==
  \/ \E e \in Events : Commit(e) \/ Publish(e) \/ Fail(e)
  \/ \E e \in Events, h \in Handlers : Deliver(e, h)
  \/ \E S \in SUBSET Events : Requeue(S) \/ Retire(S)

DeliverySpec == DeliveryInit /\ [][DeliveryNext]_deliveryVars
=============================================================================
