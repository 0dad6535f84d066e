--------------------------- MODULE OutboxRelayLive ---------------------------
(***************************************************************************)
(* Progress of the outbox relay.  Failing database calls, crashes, and     *)
(* leases that run out under a relay whose heartbeat should have renewed   *)
(* them, are faults; so is an operator's replay of dead letters, which     *)
(* docs/OPERATIONS.md forbids to repeat without end (BatchSize old dead    *)
(* letters replayed for ever would starve every younger row).  A behaviour *)
(* has at most MaxFaults faults.  Handlers may throw as often as they like.*)
(***************************************************************************)
EXTENDS OutboxRelay

CONSTANT MaxFaults    \* bound: faults of one behaviour

ASSUME MaxFaultsAssumption == MaxFaults \in Nat

VARIABLE faults

liveVars == <<vars, faults>>

\* The heartbeat fires three times per lease, so the lease of a row that is
\* still in activeClaimIds runs out only if renewals are delayed or lost.
LastTickOfActive(e) ==
  lease[e] = 1 /\ \E r \in Relays : lockOwner[e] = r /\ e \in active[r]

Regular ==
  \/ \E e \in Events :
       PersistEvent(e) \/ (LeaseTick(e) /\ ~LastTickOfActive(e))
  \/ \E r \in Relays : RelayStep(r) \/ Heartbeat(r) \/ Start(r)
  \/ \E rows \in SUBSET Events : CleanupPublished(rows)

Fault ==
  \/ \E e \in Events : LeaseTick(e) /\ LastTickOfActive(e)
  \/ \E r \in Relays : DatabaseError(r) \/ Stop(r) \/ Crash(r)
  \/ \E rows \in SUBSET Events : ReplayDeadLetters(rows)

LiveInit == Init /\ faults = 0

LiveNext ==
  \/ Regular /\ UNCHANGED faults
  \/ Fault /\ faults < MaxFaults /\ faults' = faults + 1

\* setInterval keeps polling, handlers return or throw, database time passes,
\* and a replacement process is started.
Fairness ==
  /\ \A r \in Relays : /\ WF_liveVars(RelayStep(r) /\ UNCHANGED faults)
                       /\ WF_liveVars(Start(r) /\ UNCHANGED faults)
  /\ \A e \in Events :
       WF_liveVars(LeaseTick(e) /\ ~LastTickOfActive(e) /\ UNCHANGED faults)

LiveSpec == LiveInit /\ [][LiveNext]_liveVars /\ Fairness

-----------------------------------------------------------------------------
Settled(e) == status[e] \in {"published", "dead", "deleted"}

\* Every committed event is eventually published or dead-lettered, whatever the
\* handlers do and in spite of crashes, lost answers, lost leases and aborted
\* polls: a row is never locked for ever nor skipped for ever.
EventuallySettled == \A e \in Events : status[e] = "pending" ~> Settled(e)

\* The rows a dead relay had claimed are taken over or settled by another one.
DeadRelayLosesClaims ==
  \A e \in Events, r \in Relays :
    pc[r] = "down" /\ lockOwner[e] = r ~> lockOwner[e] # r
=============================================================================
