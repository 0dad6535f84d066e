----------------------------- MODULE OutboxRelay -----------------------------
(***************************************************************************)
(* The outbox relay of src/core/outbox: several relay processes share the  *)
(* outbox_events table.  Each poll claims a batch of rows under a lease,   *)
(* publishes them one by one on its in-process event bus, and settles each *)
(* row as published, failed (with backoff) or dead-lettered.  A heartbeat  *)
(* renews the leases of the rows of the batch.  Rows and handler logs live *)
(* in PostgreSQL and survive a crash; everything else is lost with the     *)
(* process.                                                                *)
(***************************************************************************)
EXTENDS Integers, FiniteSets

CONSTANTS
  Relays,        \* relay processes; a restart is a fresh member (new UUID owner)
  Events,        \* outbox rows; the number of an event is its occurredAt
  Handlers,      \* handlers subscribed to the events
  Undecodable,   \* events whose payload deserializeOutboxEvent rejects
  MaxAttempts,   \* maxAttempts (10 in production)
  Retries,       \* immediate retries of one delivery (2 in production)
  BatchSize,     \* batchSize (50 in production)
  LeaseTicks,    \* ticks of a lease that nobody renews
  ClockSkewed,   \* a relay's clock may be behind the database's or ahead of it:
                 \* updateClaimed compares leaseUntil with the relay's clock
  NoOne, NoEvent

ASSUME ConstantsAssumption ==
  /\ Events \subseteq Nat
  /\ Undecodable \subseteq Events
  /\ MaxAttempts \in Nat \ {0}
  /\ Retries \in Nat
  /\ BatchSize \in Nat \ {0}
  /\ LeaseTicks \in Nat \ {0}
  /\ ClockSkewed \in BOOLEAN
  /\ NoOne \notin Relays
  /\ NoEvent \notin Events

VARIABLES
  \* table outbox_events
  status,        \* pending | published | dead (and absent, deleted)
  attempts,      \* durable failure count
  lockOwner,     \* relay named by the last claim, or NoOne
  lease,         \* ticks left before leaseUntil, 0 once it has passed, or NoLease
  \* table outbox_handler_log
  handlerLog,    \* none | SUCCESS | FAILED per event and handler
  \* one relay process
  pc,            \* where its poll stands
  batch,         \* claimed rows the for loop has not reached
  snap,          \* row.attempts as returned by the claim
  active,        \* activeClaimIds
  cur,           \* the row publishRow works on
  try,           \* immediate retries used
  hpc,           \* where each handler of the current publish stands
  beat,          \* the heartbeat request in flight
  \* history
  delivered      \* handlers that have run to completion, per event

rowVars   == <<status, attempts, lockOwner, lease>>
logVars   == <<handlerLog, delivered>>
relayVars == <<pc, batch, snap, active, cur, try, hpc, beat>>
vars      == <<rowVars, logVars, relayVars>>

-----------------------------------------------------------------------------
NoLease   == -1
Statuses  == {"absent", "pending", "published", "dead", "deleted"}
Working   == {"publish", "success", "failure"}
Polling   == Working \cup {"pick"}
PcStates  == Polling \cup {"off", "idle", "down"}
HandlerPc == {"idle", "check", "run", "ok", "err", "done", "failed"}
Quiet     == [stage |-> "none", ids |-> {}]

TypeOK ==
  /\ status \in [Events -> Statuses]
  /\ attempts \in [Events -> 0..MaxAttempts]
  /\ lockOwner \in [Events -> Relays \cup {NoOne}]
  /\ lease \in [Events -> {NoLease} \cup 0..LeaseTicks]
  /\ handlerLog \in [Events -> [Handlers -> {"none", "SUCCESS", "FAILED"}]]
  /\ pc \in [Relays -> PcStates]
  /\ batch \in [Relays -> SUBSET Events]
  /\ snap \in [Relays -> [Events -> 0..MaxAttempts]]
  /\ active \in [Relays -> SUBSET Events]
  /\ cur \in [Relays -> Events \cup {NoEvent}]
  /\ \A r \in Relays : pc[r] \in Working <=> cur[r] \in Events
  /\ try \in [Relays -> 0..Retries]
  /\ hpc \in [Relays -> [Handlers -> HandlerPc]]
  /\ beat \in [Relays -> [stage : {"none", "sent", "back"}, ids : SUBSET Events]]
  /\ delivered \in [Events -> SUBSET Handlers]

AllHandlers(p) == [h \in Handlers |-> p]
NoSnapshot     == [e \in Events |-> 0]

Init ==
  /\ status = [e \in Events |-> "absent"]
  /\ attempts = [e \in Events |-> 0]
  /\ lockOwner = [e \in Events |-> NoOne]
  /\ lease = [e \in Events |-> NoLease]
  /\ handlerLog = [e \in Events |-> AllHandlers("none")]
  /\ delivered = [e \in Events |-> {}]
  /\ pc = [r \in Relays |-> "off"]
  /\ batch = [r \in Relays |-> {}]
  /\ snap = [r \in Relays |-> NoSnapshot]
  /\ active = [r \in Relays |-> {}]
  /\ cur = [r \in Relays |-> NoEvent]
  /\ try = [r \in Relays |-> 0]
  /\ hpc = [r \in Relays |-> AllHandlers("idle")]
  /\ beat = [r \in Relays |-> Quiet]

-----------------------------------------------------------------------------
(* The producing transaction and the passing of time.                      *)

\* A domain transaction commits together with the outbox row it wrote.
PersistEvent(e) ==
  /\ status[e] = "absent"
  /\ status' = [status EXCEPT ![e] = "pending"]
  /\ UNCHANGED <<attempts, lockOwner, lease, logVars, relayVars>>

\* leaseUntil, of a claim or of a backoff, comes one tick nearer.
LeaseTick(e) ==
  /\ status[e] = "pending"
  /\ lease[e] > 0
  /\ lease' = [lease EXCEPT ![e] = @ - 1]
  /\ UNCHANGED <<status, attempts, lockOwner, logVars, relayVars>>

-----------------------------------------------------------------------------
(* Starting, stopping and losing a relay.                                  *)

Start(r) ==
  /\ pc[r] = "off"
  /\ pc' = [pc EXCEPT ![r] = "idle"]
  /\ UNCHANGED <<rowVars, logVars, batch, snap, active, cur, try, hpc, beat>>

\* Bound: one relay is always left, as the supervisor restarts the process.
Replaceable(r) == \E s \in Relays \ {r} : pc[s] # "down"

\* stop() clears the timer and resolves once the poll in flight has ended.
Stop(r) ==
  /\ pc[r] = "idle"
  /\ Replaceable(r)
  /\ pc' = [pc EXCEPT ![r] = "down"]
  /\ beat' = [beat EXCEPT ![r] = Quiet]
  /\ UNCHANGED <<rowVars, logVars, batch, snap, active, cur, try, hpc>>

\* All that publishRow and pollOnce hold in memory about the current row.
ForgetRow(r) ==
  /\ cur' = [cur EXCEPT ![r] = NoEvent]
  /\ try' = [try EXCEPT ![r] = 0]
  /\ hpc' = [hpc EXCEPT ![r] = AllHandlers("idle")]

\* The finally blocks of pollOnce: stopHeartbeat clears activeClaimIds.  A
\* heartbeat request already sent is still in flight.
ForgetPoll(r) ==
  /\ ForgetRow(r)
  /\ batch' = [batch EXCEPT ![r] = {}]
  /\ snap' = [snap EXCEPT ![r] = NoSnapshot]
  /\ active' = [active EXCEPT ![r] = {}]

\* The process is killed: SIGKILL, or the forced exit of the shutdown timer.
Crash(r) ==
  /\ pc[r] \in Polling
  /\ Replaceable(r)
  /\ pc' = [pc EXCEPT ![r] = "down"]
  /\ beat' = [beat EXCEPT ![r] = Quiet]
  /\ ForgetPoll(r)
  /\ UNCHANGED <<rowVars, logVars>>

-----------------------------------------------------------------------------
(* pollOnce: claim a batch, then visit its rows.                           *)

\* Mutant: an expired lease does not free a row.
ClaimableIfFree ==
  {e \in Events : /\ status[e] = "pending"
                  /\ attempts[e] < MaxAttempts
                  /\ lease[e] = NoLease}

Claimable ==
  {e \in Events : /\ status[e] = "pending"
                  /\ attempts[e] < MaxAttempts
                  /\ lease[e] \in {NoLease, 0}}

\* ORDER BY "occurredAt" LIMIT batchSize
Oldest(rows) == {e \in rows : Cardinality({f \in rows : f < e}) < BatchSize}

\* Mutant: the claim extends the lease but keeps an owner already named.
LockRowsKeepOwner(r, rows) ==
  /\ lockOwner' = [e \in Events |->
                     IF e \in rows /\ lockOwner[e] = NoOne THEN r ELSE lockOwner[e]]
  /\ lease' = [e \in Events |-> IF e \in rows THEN LeaseTicks ELSE lease[e]]
  /\ UNCHANGED <<status, attempts>>

LockRows(r, rows) ==
  /\ lockOwner' = [e \in Events |-> IF e \in rows THEN r ELSE lockOwner[e]]
  /\ lease' = [e \in Events |-> IF e \in rows THEN LeaseTicks ELSE lease[e]]
  /\ UNCHANGED <<status, attempts>>

ClaimBatch(r) ==
  LET rows == Oldest(Claimable) IN
  /\ pc[r] = "idle"
  /\ rows # {}
  /\ LockRows(r, rows)
  /\ pc' = [pc EXCEPT ![r] = "pick"]
  /\ batch' = [batch EXCEPT ![r] = rows]
  /\ snap' = [snap EXCEPT ![r] =
                [e \in Events |-> IF e \in rows THEN attempts[e] ELSE 0]]
  /\ active' = [active EXCEPT ![r] = rows]
  /\ UNCHANGED <<logVars, cur, try, hpc, beat>>

\* The claim commits but its answer is lost: the poll ends in its catch block
\* and the rows stay locked until the lease runs out.
ClaimAnswerLost(r) ==
  /\ pc[r] = "idle"
  /\ Oldest(Claimable) # {}
  /\ LockRows(r, Oldest(Claimable))
  /\ UNCHANGED <<logVars, relayVars>>

\* A row that left activeClaimIds since the claim is not published.  UPDATE ...
\* RETURNING promises no order, so the loop may visit the rows in any order.
SkipRow(r) ==
  /\ pc[r] = "pick"
  /\ \E e \in batch[r] \ active[r] : batch' = [batch EXCEPT ![r] = @ \ {e}]
  /\ UNCHANGED <<rowVars, logVars, pc, snap, active, cur, try, hpc, beat>>

\* deserializeOutboxEvent: malformed payload, unknown schemaVersion, or an
\* identity that differs from the row's.
Rejected(e) == e \in Undecodable

\* A payload that cannot be decoded fails every immediate attempt alike.
StartRow(r) ==
  /\ pc[r] = "pick"
  /\ \E e \in batch[r] \cap active[r] :
       LET bad == Rejected(e) IN
       /\ batch' = [batch EXCEPT ![r] = @ \ {e}]
       /\ cur' = [cur EXCEPT ![r] = e]
       /\ pc' = [pc EXCEPT ![r] = IF bad THEN "failure" ELSE "publish"]
       /\ hpc' = [hpc EXCEPT ![r] = AllHandlers(IF bad THEN "failed" ELSE "check")]
  /\ UNCHANGED <<rowVars, logVars, snap, active, try, beat>>

EndPoll(r) ==
  /\ pc[r] = "pick"
  /\ batch[r] = {}
  /\ pc' = [pc EXCEPT ![r] = "idle"]
  /\ ForgetPoll(r)
  /\ UNCHANGED <<rowVars, logVars, beat>>

-----------------------------------------------------------------------------
(* EventBus.publish: the handlers run in parallel, each as check, run,      *)
(* record; the publish settles when all of them have.                       *)

Step(r, h, from, to) ==
  /\ pc[r] = "publish"
  /\ hpc[r][h] = from
  /\ hpc' = [hpc EXCEPT ![r][h] = to]
  /\ UNCHANGED <<rowVars, pc, batch, snap, active, cur, try, beat>>

\* Mutant: any log entry counts as success.
HasLogEntry(e, h) == handlerLog[e][h] # "none"

HasSucceeded(e, h) == handlerLog[e][h] = "SUCCESS"

CheckHandler(r, h) ==
  /\ Step(r, h, "check", IF HasSucceeded(cur[r], h) THEN "done" ELSE "run")
  /\ UNCHANGED logVars

\* hasSucceeded throws: the handler counts as failed and nothing is recorded.
CheckError(r, h) ==
  /\ Step(r, h, "check", "failed")
  /\ UNCHANGED logVars

HandlerReturns(r, h) ==
  /\ Step(r, h, "run", "ok")
  /\ delivered' = [delivered EXCEPT ![cur[r]] = @ \cup {h}]
  /\ UNCHANGED handlerLog

\* A handler may also throw, after some or none of its side effects.
HandlerThrows(r, h) ==
  /\ Step(r, h, "run", "err")
  /\ UNCHANGED logVars

\* upsert: whatever the log held for this event and handler is overwritten.
Upsert(e, h, result) ==
  /\ handlerLog' = [handlerLog EXCEPT ![e][h] = result]
  /\ UNCHANGED delivered

\* The log row references the outbox row, so it cannot be written once that is
\* deleted; recordResult then throws and the handler counts as failed.
RecordResult(r, h) ==
  LET e == cur[r]
      gone == status[e] = "deleted"
  IN
  /\ pc[r] = "publish"
  /\ \/ ~gone /\ Step(r, h, "ok", "done") /\ Upsert(e, h, "SUCCESS")
     \/ ~gone /\ Step(r, h, "err", "failed") /\ Upsert(e, h, "FAILED")
     \/ gone /\ Step(r, h, "ok", "failed") /\ UNCHANGED logVars
     \/ gone /\ Step(r, h, "err", "failed") /\ UNCHANGED logVars

\* recordResult throws although the row exists; the write may have committed.
RecordError(r, h) ==
  LET e == cur[r] IN
  /\ pc[r] = "publish"
  /\ status[e] # "deleted"
  /\ \/ Step(r, h, "ok", "failed")  /\ (UNCHANGED logVars \/ Upsert(e, h, "SUCCESS"))
     \/ Step(r, h, "err", "failed") /\ (UNCHANGED logVars \/ Upsert(e, h, "FAILED"))

FailedHandlers(r) == {h \in Handlers : hpc[r][h] = "failed"}

\* withRetry: Retries further immediate attempts.
TriesLeft(r) == try[r] < Retries

\* Promise.allSettled resolves: publish again, settle as success or as failure.
SettlePublish(r) ==
  LET failed == FailedHandlers(r) IN
  /\ pc[r] = "publish"
  /\ \A h \in Handlers : hpc[r][h] \in {"done", "failed"}
  /\ \/ /\ failed = {}
        /\ pc' = [pc EXCEPT ![r] = "success"]
        /\ UNCHANGED <<try, hpc>>
     \/ /\ failed # {}
        /\ TriesLeft(r)
        /\ try' = [try EXCEPT ![r] = @ + 1]
        /\ hpc' = [hpc EXCEPT ![r] = AllHandlers("check")]
        /\ UNCHANGED pc
     \/ /\ failed # {}
        /\ ~TriesLeft(r)
        /\ pc' = [pc EXCEPT ![r] = "failure"]
        /\ UNCHANGED <<try, hpc>>
  /\ UNCHANGED <<rowVars, logVars, batch, snap, active, cur, beat>>

-----------------------------------------------------------------------------
(* publishRow: the guarded update that settles the row.                     *)

\* Mutant: the update is not restricted to the owner of the claim.
OwnedByAnyone(r, e) ==
  /\ lockOwner[e] \in Relays
  /\ status[e] = "pending"
  /\ lease[e] > 0 \/ (ClockSkewed /\ lease[e] = 0)

\* The WHERE clause of updateClaimed; a clock that is behind takes a lease for
\* running that has expired.
Owned(r, e) ==
  /\ lockOwner[e] = r
  /\ status[e] = "pending"
  /\ lease[e] > 0 \/ (ClockSkewed /\ lease[e] = 0)

\* A clock ahead of the database's takes a lease for expired that is not.
Refused(r, e) == ~Owned(r, e) \/ ClockSkewed

Unlock(e, until) ==
  /\ lockOwner' = [lockOwner EXCEPT ![e] = NoOne]
  /\ lease' = [lease EXCEPT ![e] = until]

SetPublished(e) ==
  /\ status' = [status EXCEPT ![e] = "published"]
  /\ Unlock(e, NoLease)
  /\ UNCHANGED attempts

\* Mutant: one attempt too many before the dead letter.
SetFailedLate(r, e) ==
  LET deadLettered == snap[r][e] + 1 > MaxAttempts IN
  /\ attempts' = [attempts EXCEPT ![e] = @ + 1]
  /\ status' = [status EXCEPT ![e] = IF deadLettered THEN "dead" ELSE "pending"]
  /\ Unlock(e, IF deadLettered THEN NoLease ELSE 1)

\* The increment is applied by the database, the choice between backoff and
\* dead letter is made from the attempts read by the claim.
SetFailed(r, e) ==
  LET deadLettered == snap[r][e] + 1 >= MaxAttempts IN
  /\ attempts' = [attempts EXCEPT ![e] = @ + 1]
  /\ status' = [status EXCEPT ![e] = IF deadLettered THEN "dead" ELSE "pending"]
  /\ Unlock(e, IF deadLettered THEN NoLease ELSE 1)

\* Mutant: the loop keeps the settled row in hand.
LeaveRowInHand(r) ==
  /\ pc' = [pc EXCEPT ![r] = "pick"]
  /\ active' = [active EXCEPT ![r] = @ \ {cur[r]}]
  /\ UNCHANGED <<batch, snap, beat, cur, try, hpc>>

\* updateClaimedRow returned, whether or not a row matched.
LeaveRow(r) ==
  /\ pc' = [pc EXCEPT ![r] = "pick"]
  /\ active' = [active EXCEPT ![r] = @ \ {cur[r]}]
  /\ ForgetRow(r)
  /\ UNCHANGED <<batch, snap, beat>>

MarkPublished(r) ==
  /\ pc[r] = "success"
  /\ \/ Owned(r, cur[r]) /\ SetPublished(cur[r])
     \/ Refused(r, cur[r]) /\ UNCHANGED rowVars
  /\ LeaveRow(r)
  /\ UNCHANGED logVars

\* The update throws, with or without having committed: the catch block of
\* publishRow takes it for a failed delivery.
MarkPublishedError(r) ==
  /\ pc[r] = "success"
  /\ UNCHANGED rowVars \/ (Owned(r, cur[r]) /\ SetPublished(cur[r]))
  /\ pc' = [pc EXCEPT ![r] = "failure"]
  /\ UNCHANGED <<logVars, batch, snap, active, cur, try, hpc, beat>>

MarkFailed(r) ==
  /\ pc[r] = "failure"
  /\ \/ Owned(r, cur[r]) /\ SetFailed(r, cur[r])
     \/ Refused(r, cur[r]) /\ UNCHANGED rowVars
  /\ LeaveRow(r)
  /\ UNCHANGED logVars

\* An error here escapes publishRow: pollOnce gives up the rest of its batch,
\* which stays locked until the leases run out.
MarkFailedError(r) ==
  /\ pc[r] = "failure"
  /\ UNCHANGED rowVars \/ (Owned(r, cur[r]) /\ SetFailed(r, cur[r]))
  /\ pc' = [pc EXCEPT ![r] = "idle"]
  /\ ForgetPoll(r)
  /\ UNCHANGED <<logVars, beat>>

-----------------------------------------------------------------------------
(* The heartbeat: at most one renewal in flight, which may outlive its poll. *)

SetBeat(r, stage, ids) == beat' = [beat EXCEPT ![r] = [stage |-> stage, ids |-> ids]]

HeartbeatTick(r) ==
  /\ pc[r] \in Polling
  /\ active[r] # {}
  /\ beat[r] = Quiet
  /\ SetBeat(r, "sent", active[r])
  /\ UNCHANGED <<rowVars, logVars, pc, batch, snap, active, cur, try, hpc>>

\* renewClaims: ids of the answer become the ids that were not renewed.
RenewClaims(r) ==
  LET renewed == {e \in beat[r].ids : /\ lockOwner[e] = r
                                      /\ status[e] = "pending"
                                      /\ lease[e] > 0}
  IN /\ beat[r].stage = "sent"
     /\ lease' = [e \in Events |-> IF e \in renewed THEN LeaseTicks ELSE lease[e]]
     /\ SetBeat(r, "back", beat[r].ids \ renewed)
     /\ UNCHANGED <<status, attempts, lockOwner, logVars>>
     /\ UNCHANGED <<pc, batch, snap, active, cur, try, hpc>>

HeartbeatAnswer(r) ==
  /\ beat[r].stage = "back"
  /\ active' = [active EXCEPT ![r] = @ \ beat[r].ids]
  /\ beat' = [beat EXCEPT ![r] = Quiet]
  /\ UNCHANGED <<rowVars, logVars, pc, batch, snap, cur, try, hpc>>

HeartbeatError(r) ==
  /\ beat[r] # Quiet
  /\ beat' = [beat EXCEPT ![r] = Quiet]
  /\ UNCHANGED <<rowVars, logVars, pc, batch, snap, active, cur, try, hpc>>

-----------------------------------------------------------------------------
(* Operator commands (OutboxMaintenanceService).                            *)

\* At least one id, all of them unpublished dead letters.
ReplaySelection(rows) == rows # {} /\ \A e \in rows : status[e] = "dead"

\* Mutant: replay does not reset the attempts.
ReplayKeepingAttempts(rows) ==
  /\ ReplaySelection(rows)
  /\ status' = [e \in Events |-> IF e \in rows THEN "pending" ELSE status[e]]
  /\ lockOwner' = [e \in Events |-> IF e \in rows THEN NoOne ELSE lockOwner[e]]
  /\ lease' = [e \in Events |-> IF e \in rows THEN NoLease ELSE lease[e]]
  /\ UNCHANGED <<attempts, logVars, relayVars>>

\* Rows are rechecked under FOR UPDATE: all of the selection is requeued or none.
ReplayDeadLetters(rows) ==
  /\ ReplaySelection(rows)
  /\ status' = [e \in Events |-> IF e \in rows THEN "pending" ELSE status[e]]
  /\ attempts' = [e \in Events |-> IF e \in rows THEN 0 ELSE attempts[e]]
  /\ lockOwner' = [e \in Events |-> IF e \in rows THEN NoOne ELSE lockOwner[e]]
  /\ lease' = [e \in Events |-> IF e \in rows THEN NoLease ELSE lease[e]]
  /\ UNCHANGED <<logVars, relayVars>>

\* Not a dry run, and some published rows are older than the cutoff.
CleanupSelection(rows) == rows # {} /\ \A e \in rows : status[e] = "published"

\* Deletes published rows older than a cutoff, up to a limit, and with them
\* their handler logs (ON DELETE CASCADE).
CleanupPublished(rows) ==
  /\ CleanupSelection(rows)
  /\ status' = [e \in Events |-> IF e \in rows THEN "deleted" ELSE status[e]]
  /\ handlerLog' = [e \in Events |->
                      IF e \in rows THEN AllHandlers("none") ELSE handlerLog[e]]
  /\ UNCHANGED <<attempts, lockOwner, lease, delivered, relayVars>>

-----------------------------------------------------------------------------
HandlerStep(r, h) ==
  \/ CheckHandler(r, h)
  \/ HandlerReturns(r, h) \/ HandlerThrows(r, h)
  \/ RecordResult(r, h)

\* What a relay does as long as the database answers.
RelayStep(r) ==
  \/ ClaimBatch(r) \/ SkipRow(r) \/ StartRow(r) \/ EndPoll(r)
  \/ \E h \in Handlers : HandlerStep(r, h)
  \/ SettlePublish(r) \/ MarkPublished(r) \/ MarkFailed(r)

Heartbeat(r) == HeartbeatTick(r) \/ RenewClaims(r) \/ HeartbeatAnswer(r)

\* Database calls of a relay that throw.
DatabaseError(r) ==
  \/ ClaimAnswerLost(r) \/ MarkPublishedError(r) \/ MarkFailedError(r)
  \/ HeartbeatError(r)
  \/ \E h \in Handlers : CheckError(r, h) \/ RecordError(r, h)

Lifecycle(r) == Start(r) \/ Stop(r) \/ Crash(r)

Maintenance ==
  \E rows \in SUBSET Events : ReplayDeadLetters(rows) \/ CleanupPublished(rows)

Next ==
  \/ \E e \in Events : PersistEvent(e) \/ LeaseTick(e)
  \/ \E r \in Relays :
       RelayStep(r) \/ Heartbeat(r) \/ DatabaseError(r) \/ Lifecycle(r)
  \/ Maintenance

Spec == Init /\ [][Next]_vars

-----------------------------------------------------------------------------
(* Properties.                                                              *)

\* A published event has been handled to completion by every subscribed
\* handler, in spite of crashes, lost leases, lost answers and retention: a
\* relay sets publishedAt only after each handler returned or was skipped on
\* the evidence of its log (outbox-relay.ts, event-bus.ts).
PublishedIsDelivered ==
  \A e \in Events : status[e] \in {"published", "deleted"} =>
    delivered[e] = Handlers

\* No row is stranded: the claim requires attempts < maxAttempts, so a row that
\* is neither published nor dead must stay below the limit, and a dead letter
\* has used up exactly its attempts, although the relay decides between backoff
\* and dead letter from the attempts it read at claim time.
NoRowStranded ==
  \A e \in Events : /\ status[e] = "pending" => attempts[e] < MaxAttempts
                    /\ status[e] = "dead" => attempts[e] = MaxAttempts

\* A relay that lost its claim to another one never changes the fate of the
\* row: when a pending row is published, failed or dead-lettered, it is by the
\* relay that holds the lock and has this row in hand.
OnlyOwnerSettles ==
  [][\A e \in Events :
       status[e] = "pending" /\ <<status[e], attempts[e]>>' # <<status[e], attempts[e]>>
       => \E r \in Relays : /\ lockOwner[e] = r
                            /\ cur[r] = e
                            /\ pc[r] \in {"success", "failure"}
                            /\ lockOwner'[e] = NoOne]_vars

\* The relay, its event bus and the maintenance commands implement the promise
\* of OutboxDelivery, step by step.
Delivery == INSTANCE OutboxDelivery
DeliverySpec == Delivery!DeliverySpec

\* Stated by docs/OPERATIONS.md: "Successful handlers are skipped on later
\* attempts by the handler tracker".  Then a SUCCESS entry must last as long as
\* its row does; recordResult overwrites it.
SuccessStaysRecorded ==
  [][\A e \in Events, h \in Handlers :
       HasSucceeded(e, h) /\ status'[e] # "deleted" => HasSucceeded(e, h)']_vars

\* Stated by docs/OPERATIONS.md: "Only after all immediate attempts fail does
\* the relay increment durable attempts".  So an increment must find a handler
\* that failed in the last immediate attempt of the row's owner.
AttemptsCountFailures ==
  [][\A e \in Events : attempts'[e] > attempts[e] =>
       \E r \in Relays, h \in Handlers :
         lockOwner[e] = r /\ cur[r] = e /\ hpc[r][h] = "failed"]_vars
=============================================================================
