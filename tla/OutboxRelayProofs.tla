--------------------------- MODULE OutboxRelayProofs ---------------------------
(***************************************************************************)
(* Proofs about OutboxRelay for every number of relays, events, handlers,  *)
(* attempts and retries: the type invariant, the safety invariants, and    *)
(* the implementation of OutboxDelivery.                                   *)
(***************************************************************************)
EXTENDS OutboxRelay, TLAPS

-----------------------------------------------------------------------------
(* The inductive invariant, in named parts.                                 *)

\* The handler log only claims success for handlers that did complete.
LogIsTruthful ==
  \A e \in Events, h \in Handlers : HasSucceeded(e, h) => h \in delivered[e]

\* What a relay believes about the handlers of the row it is publishing.
HandlersRan ==
  \A r \in Relays, h \in Handlers :
    pc[r] = "publish" /\ hpc[r][h] \in {"ok", "done"} => h \in delivered[cur[r]]

SuccessRan ==
  \A r \in Relays : pc[r] = "success" => delivered[cur[r]] = Handlers

\* Only decodable payloads reach the bus.
DecodableInHand ==
  \A r \in Relays : pc[r] \in {"publish", "success"} => cur[r] \notin Undecodable

\* Rows a relay has claimed exist.
ClaimedExist ==
  /\ \A r \in Relays, e \in Events :
       e \in batch[r] \/ cur[r] = e => status[e] # "absent"
  /\ \A e \in Events : status[e] = "absent" => attempts[e] = 0

\* A row is locked only while it is pending.
LockedIsPending ==
  \A e \in Events : lockOwner[e] # NoOne => status[e] = "pending"

\* As long as a relay owns a row, the attempts it read at claim time are current.
SnapshotCurrent ==
  \A r \in Relays, e \in Events :
    lockOwner[e] = r /\ (e \in batch[r] \/ cur[r] = e) => snap[r][e] = attempts[e]

\* Outside a poll a relay has no row in hand.
IdleIsEmpty ==
  \A r \in Relays : pc[r] \notin Polling => batch[r] = {}

\* The three parts of the inductive invariant beside the types: what has been
\* delivered, what relays know about rows, and the two invariants of the rows.
Beliefs ==
  LogIsTruthful /\ HandlersRan /\ SuccessRan /\ DecodableInHand
    /\ PublishedIsDelivered

Claims == ClaimedExist /\ LockedIsPending /\ SnapshotCurrent /\ IdleIsEmpty

IInv == TypeOK /\ Beliefs /\ Claims /\ NoRowStranded

-----------------------------------------------------------------------------
(* The invariant holds initially and is kept by every step.                 *)

LEMMA InitInv == Init => IInv
  BY ConstantsAssumption
  DEF Init, IInv, TypeOK, Beliefs, Claims, LogIsTruthful, HandlersRan, SuccessRan,
      DecodableInHand, ClaimedExist, LockedIsPending, SnapshotCurrent, IdleIsEmpty,
      NoRowStranded, PublishedIsDelivered, HasSucceeded, Statuses, PcStates,
      Polling, Working, HandlerPc, Quiet, NoSnapshot, AllHandlers, NoLease

\* A failed update decides between backoff and dead letter exactly, because the
\* snapshot of the owner is current.
LEMMA FailedRow ==
  ASSUME NEW r \in Relays, NEW e \in Events, attempts[e] \in Nat,
         snap[r][e] = attempts[e], attempts[e] < MaxAttempts, SetFailed(r, e)
  PROVE  \/ /\ attempts[e] + 1 = MaxAttempts
            /\ status' = [status EXCEPT ![e] = "dead"]
            /\ lease' = [lease EXCEPT ![e] = NoLease]
         \/ /\ attempts[e] + 1 < MaxAttempts
            /\ status' = [status EXCEPT ![e] = "pending"]
            /\ lease' = [lease EXCEPT ![e] = 1]
  <1> USE ConstantsAssumption
  <1>1. CASE attempts[e] + 1 = MaxAttempts
    <2>1. snap[r][e] + 1 >= MaxAttempts
      BY <1>1
    <2>2. QED BY <1>1, <2>1 DEF SetFailed, Unlock
  <1>2. CASE attempts[e] + 1 < MaxAttempts
    <2>1. ~(snap[r][e] + 1 >= MaxAttempts)
      BY <1>2
    <2>2. QED BY <1>2, <2>1 DEF SetFailed, Unlock
  <1>3. QED BY <1>1, <1>2

\* A handler records its result: only one that returned may record SUCCESS or
\* count as done.
LEMMA RecordingInv ==
  ASSUME IInv, NEW r \in Relays, NEW h \in Handlers,
         NEW from \in {"ok", "err"}, NEW to \in {"done", "failed"},
         NEW result \in {"SUCCESS", "FAILED"},
         Step(r, h, from, to), UNCHANGED logVars \/ Upsert(cur[r], h, result),
         to = "done" \/ result = "SUCCESS" => from = "ok"
  PROVE  IInv'
  <1> USE ConstantsAssumption
      DEF IInv, TypeOK, vars, rowVars, logVars, relayVars, Statuses, PcStates,
          Polling, Working, HandlerPc, Quiet, NoSnapshot, AllHandlers, NoLease
  <1>1. CASE UNCHANGED logVars
    <2>1. TypeOK'
      BY <1>1 DEF Step
    <2>2. Beliefs'
      BY <1>1
      DEF Step, Beliefs, LogIsTruthful, HandlersRan, SuccessRan, DecodableInHand,
          PublishedIsDelivered, HasSucceeded
    <2>3. Claims'
      BY <1>1
      DEF Step, Claims, ClaimedExist, LockedIsPending, SnapshotCurrent, IdleIsEmpty
    <2>4. NoRowStranded'
      BY <1>1 DEF Step, NoRowStranded
    <2>5. QED BY <2>1, <2>2, <2>3, <2>4
  <1>2. CASE Upsert(cur[r], h, result)
    <2>1. TypeOK'
      BY <1>2 DEF Step, Upsert
    <2>2. Beliefs'
      BY <1>2
      DEF Step, Upsert, Beliefs, LogIsTruthful, HandlersRan, SuccessRan,
          DecodableInHand, PublishedIsDelivered, HasSucceeded
    <2>3. Claims'
      BY <1>2
      DEF Step, Upsert, Claims, ClaimedExist, LockedIsPending, SnapshotCurrent,
          IdleIsEmpty
    <2>4. NoRowStranded'
      BY <1>2 DEF Step, Upsert, NoRowStranded
    <2>5. QED BY <2>1, <2>2, <2>3, <2>4
  <1>3. QED BY <1>1, <1>2

LEMMA StepInv == IInv /\ [Next]_vars => IInv'
  <1> SUFFICES ASSUME IInv, [Next]_vars PROVE IInv'
    OBVIOUS
  <1> USE ConstantsAssumption
      DEF IInv, TypeOK, vars, rowVars, logVars, relayVars, Statuses, PcStates,
          Polling, Working, HandlerPc, Quiet, NoSnapshot, AllHandlers, NoLease
  <1>1. ASSUME NEW e \in Events, PersistEvent(e) PROVE IInv'
    <2>1. TypeOK'
      BY <1>1 DEF PersistEvent, Claims, ClaimedExist
    <2>2. Beliefs'
      BY <1>1
      DEF PersistEvent, Claims, ClaimedExist, Beliefs, LogIsTruthful, HandlersRan,
          SuccessRan, DecodableInHand, PublishedIsDelivered, HasSucceeded
    <2>3. Claims'
      BY <1>1
      DEF PersistEvent, Claims, ClaimedExist, Claims, ClaimedExist, LockedIsPending,
          SnapshotCurrent, IdleIsEmpty
    <2>4. NoRowStranded'
      BY <1>1 DEF PersistEvent, Claims, ClaimedExist, NoRowStranded
    <2>5. QED BY <2>1, <2>2, <2>3, <2>4
  <1>2. ASSUME NEW e \in Events, LeaseTick(e) PROVE IInv'
    <2> lease[e] - 1 \in 0..LeaseTicks
      BY <1>2 DEF LeaseTick
    <2>1. TypeOK'
      BY <1>2 DEF LeaseTick
    <2>2. Beliefs'
      BY <1>2
      DEF LeaseTick, Beliefs, LogIsTruthful, HandlersRan, SuccessRan, DecodableInHand,
          PublishedIsDelivered, HasSucceeded
    <2>3. Claims'
      BY <1>2
      DEF LeaseTick, Claims, ClaimedExist, LockedIsPending, SnapshotCurrent,
          IdleIsEmpty
    <2>4. NoRowStranded'
      BY <1>2 DEF LeaseTick, NoRowStranded
    <2>5. QED BY <2>1, <2>2, <2>3, <2>4
  <1>3. ASSUME NEW r \in Relays, Start(r) PROVE IInv'
    <2>1. TypeOK'
      BY <1>3 DEF Start
    <2>2. Beliefs'
      BY <1>3
      DEF Start, Beliefs, LogIsTruthful, HandlersRan, SuccessRan, DecodableInHand,
          PublishedIsDelivered, HasSucceeded
    <2>3. Claims'
      BY <1>3
      DEF Start, Claims, ClaimedExist, LockedIsPending, SnapshotCurrent, IdleIsEmpty
    <2>4. NoRowStranded'
      BY <1>3 DEF Start, NoRowStranded
    <2>5. QED BY <2>1, <2>2, <2>3, <2>4
  <1>4. ASSUME NEW r \in Relays, Stop(r) PROVE IInv'
    <2>1. TypeOK'
      BY <1>4 DEF Stop
    <2>2. Beliefs'
      BY <1>4
      DEF Stop, Beliefs, LogIsTruthful, HandlersRan, SuccessRan, DecodableInHand,
          PublishedIsDelivered, HasSucceeded
    <2>3. Claims'
      BY <1>4
      DEF Stop, Claims, ClaimedExist, LockedIsPending, SnapshotCurrent, IdleIsEmpty
    <2>4. NoRowStranded'
      BY <1>4 DEF Stop, NoRowStranded
    <2>5. QED BY <2>1, <2>2, <2>3, <2>4
  <1>5. ASSUME NEW r \in Relays, Crash(r) PROVE IInv'
    <2>1. TypeOK'
      BY <1>5 DEF Crash, ForgetPoll, ForgetRow
    <2>2. Beliefs'
      BY <1>5
      DEF Crash, ForgetPoll, ForgetRow, Beliefs, LogIsTruthful, HandlersRan,
          SuccessRan, DecodableInHand, PublishedIsDelivered, HasSucceeded
    <2>3. Claims'
      BY <1>5
      DEF Crash, ForgetPoll, ForgetRow, Claims, ClaimedExist, LockedIsPending,
          SnapshotCurrent, IdleIsEmpty
    <2>4. NoRowStranded'
      BY <1>5 DEF Crash, ForgetPoll, ForgetRow, NoRowStranded
    <2>5. QED BY <2>1, <2>2, <2>3, <2>4
  <1>6. ASSUME NEW r \in Relays, ClaimBatch(r) PROVE IInv'
    <2> batch[r] = {} /\ cur[r] \notin Events /\ Oldest(Claimable) \subseteq Claimable
      BY <1>6 DEF ClaimBatch, Oldest, Claims, IdleIsEmpty
    <2>1. TypeOK'
      BY <1>6 DEF ClaimBatch, LockRows, Claimable
    <2>2. Beliefs'
      <3>1. LogIsTruthful'
        BY <1>6 DEF ClaimBatch, LockRows, Claimable, Beliefs, LogIsTruthful, HasSucceeded
      <3>2. HandlersRan'
        BY <1>6 DEF ClaimBatch, LockRows, Claimable, Beliefs, HandlersRan
      <3>3. SuccessRan'
        BY <1>6 DEF ClaimBatch, LockRows, Claimable, Beliefs, SuccessRan
      <3>4. DecodableInHand'
        BY <1>6 DEF ClaimBatch, LockRows, Claimable, Beliefs, DecodableInHand
      <3>5. PublishedIsDelivered'
        BY <1>6 DEF ClaimBatch, LockRows, Claimable, Beliefs, PublishedIsDelivered, HasSucceeded
      <3>6. QED BY <3>1, <3>2, <3>3, <3>4, <3>5 DEF Beliefs
    <2>3. Claims'
      <3>1. ClaimedExist'
        <4>1. status' = status /\ attempts' = attempts /\ cur' = cur
          BY <1>6 DEF ClaimBatch, LockRows
        <4>2. \A s \in Relays, e \in Events :
                e \in batch'[s] => e \in batch[s] \/ status[e] # "absent"
          BY <1>6 DEF ClaimBatch, LockRows, Claimable
        <4>3. QED BY <4>1, <4>2 DEF Claims, ClaimedExist
      <3>2. LockedIsPending'
        BY <1>6 DEF ClaimBatch, LockRows, Claimable, Claims, LockedIsPending
      <3>3. SnapshotCurrent'
        BY <1>6 DEF ClaimBatch, LockRows, Claimable, Claims, SnapshotCurrent
      <3>4. IdleIsEmpty'
        BY <1>6 DEF ClaimBatch, LockRows, Claimable, Claims, IdleIsEmpty
      <3>5. QED BY <3>1, <3>2, <3>3, <3>4 DEF Claims
    <2>4. NoRowStranded'
      BY <1>6 DEF ClaimBatch, LockRows, Claimable, NoRowStranded
    <2>5. QED BY <2>1, <2>2, <2>3, <2>4
  <1>7. ASSUME NEW r \in Relays, ClaimAnswerLost(r) PROVE IInv'
    <2> batch[r] = {} /\ cur[r] \notin Events /\ Oldest(Claimable) \subseteq Claimable
      BY <1>7 DEF ClaimAnswerLost, Oldest, Claims, IdleIsEmpty
    <2>1. TypeOK'
      BY <1>7 DEF ClaimAnswerLost, LockRows, Claimable
    <2>2. Beliefs'
      BY <1>7
      DEF ClaimAnswerLost, LockRows, Claimable, Beliefs, LogIsTruthful, HandlersRan,
          SuccessRan, DecodableInHand, PublishedIsDelivered, HasSucceeded
    <2>3. Claims'
      BY <1>7
      DEF ClaimAnswerLost, LockRows, Claimable, Claims, ClaimedExist, LockedIsPending,
          SnapshotCurrent, IdleIsEmpty
    <2>4. NoRowStranded'
      BY <1>7 DEF ClaimAnswerLost, LockRows, Claimable, NoRowStranded
    <2>5. QED BY <2>1, <2>2, <2>3, <2>4
  <1>8. ASSUME NEW r \in Relays, SkipRow(r) PROVE IInv'
    <2>1. TypeOK'
      BY <1>8 DEF SkipRow
    <2>2. Beliefs'
      BY <1>8
      DEF SkipRow, Beliefs, LogIsTruthful, HandlersRan, SuccessRan, DecodableInHand,
          PublishedIsDelivered, HasSucceeded
    <2>3. Claims'
      BY <1>8
      DEF SkipRow, Claims, ClaimedExist, LockedIsPending, SnapshotCurrent, IdleIsEmpty
    <2>4. NoRowStranded'
      BY <1>8 DEF SkipRow, NoRowStranded
    <2>5. QED BY <2>1, <2>2, <2>3, <2>4
  <1>9. ASSUME NEW r \in Relays, StartRow(r) PROVE IInv'
    <2>1. TypeOK'
      BY <1>9 DEF StartRow, Rejected
    <2>2. Beliefs'
      BY <1>9
      DEF StartRow, Rejected, Beliefs, LogIsTruthful, HandlersRan, SuccessRan,
          DecodableInHand, PublishedIsDelivered, HasSucceeded
    <2>3. Claims'
      BY <1>9
      DEF StartRow, Rejected, Claims, ClaimedExist, LockedIsPending, SnapshotCurrent,
          IdleIsEmpty
    <2>4. NoRowStranded'
      BY <1>9 DEF StartRow, Rejected, NoRowStranded
    <2>5. QED BY <2>1, <2>2, <2>3, <2>4
  <1>10. ASSUME NEW r \in Relays, EndPoll(r) PROVE IInv'
    <2>1. TypeOK'
      BY <1>10 DEF EndPoll, ForgetPoll, ForgetRow
    <2>2. Beliefs'
      BY <1>10
      DEF EndPoll, ForgetPoll, ForgetRow, Beliefs, LogIsTruthful, HandlersRan,
          SuccessRan, DecodableInHand, PublishedIsDelivered, HasSucceeded
    <2>3. Claims'
      BY <1>10
      DEF EndPoll, ForgetPoll, ForgetRow, Claims, ClaimedExist, LockedIsPending,
          SnapshotCurrent, IdleIsEmpty
    <2>4. NoRowStranded'
      BY <1>10 DEF EndPoll, ForgetPoll, ForgetRow, NoRowStranded
    <2>5. QED BY <2>1, <2>2, <2>3, <2>4
  <1>11. ASSUME NEW r \in Relays, NEW h \in Handlers, CheckHandler(r, h) PROVE IInv'
    <2>1. TypeOK'
      BY <1>11 DEF CheckHandler, Step, HasSucceeded
    <2>2. Beliefs'
      <3>1. LogIsTruthful'
        BY <1>11 DEF CheckHandler, Step, HasSucceeded, Beliefs, LogIsTruthful
      <3>2. HandlersRan'
        <4>1. HasSucceeded(cur[r], h) => h \in delivered[cur[r]]
          BY <1>11 DEF CheckHandler, Step, HasSucceeded, Beliefs, LogIsTruthful
        <4>2. \A s \in Relays, g \in Handlers :
                s # r \/ g # h => hpc'[s][g] = hpc[s][g]
          BY <1>11 DEF CheckHandler, Step
        <4>3. hpc'[r][h] \in {"ok", "done"} => HasSucceeded(cur[r], h)
          BY <1>11 DEF CheckHandler, Step
        <4>4. pc' = pc /\ cur' = cur /\ delivered' = delivered
          BY <1>11 DEF CheckHandler, Step
        <4>5. ASSUME NEW s \in Relays, NEW g \in Handlers,
                     pc[s] = "publish", hpc'[s][g] \in {"ok", "done"}
              PROVE  g \in delivered[cur[s]]
          <5>1. CASE s = r /\ g = h
            BY <4>1, <4>3, <4>5, <5>1
          <5>2. CASE s # r \/ g # h
            <6>1. hpc[s][g] \in {"ok", "done"}
              BY <4>2, <4>5, <5>2
            <6>2. QED BY <4>5, <6>1 DEF Beliefs, HandlersRan
          <5>3. QED BY <5>1, <5>2
        <4>6. QED BY <4>4, <4>5 DEF HandlersRan
      <3>3. SuccessRan'
        BY <1>11 DEF CheckHandler, Step, HasSucceeded, Beliefs, SuccessRan
      <3>4. DecodableInHand'
        BY <1>11 DEF CheckHandler, Step, HasSucceeded, Beliefs, DecodableInHand
      <3>5. PublishedIsDelivered'
        BY <1>11 DEF CheckHandler, Step, HasSucceeded, Beliefs, PublishedIsDelivered
      <3>6. QED BY <3>1, <3>2, <3>3, <3>4, <3>5 DEF Beliefs
    <2>3. Claims'
      BY <1>11
      DEF CheckHandler, Step, HasSucceeded, Claims, ClaimedExist, LockedIsPending,
          SnapshotCurrent, IdleIsEmpty
    <2>4. NoRowStranded'
      BY <1>11 DEF CheckHandler, Step, HasSucceeded, NoRowStranded
    <2>5. QED BY <2>1, <2>2, <2>3, <2>4
  <1>12. ASSUME NEW r \in Relays, NEW h \in Handlers, CheckError(r, h) PROVE IInv'
    <2>1. TypeOK'
      BY <1>12 DEF CheckError, Step
    <2>2. Beliefs'
      BY <1>12
      DEF CheckError, Step, Beliefs, LogIsTruthful, HandlersRan, SuccessRan,
          DecodableInHand, PublishedIsDelivered, HasSucceeded
    <2>3. Claims'
      BY <1>12
      DEF CheckError, Step, Claims, ClaimedExist, LockedIsPending, SnapshotCurrent,
          IdleIsEmpty
    <2>4. NoRowStranded'
      BY <1>12 DEF CheckError, Step, NoRowStranded
    <2>5. QED BY <2>1, <2>2, <2>3, <2>4
  <1>13. ASSUME NEW r \in Relays, NEW h \in Handlers, HandlerReturns(r, h) PROVE IInv'
    <2>1. TypeOK'
      BY <1>13 DEF HandlerReturns, Step
    <2>2. Beliefs'
      BY <1>13
      DEF HandlerReturns, Step, Beliefs, LogIsTruthful, HandlersRan, SuccessRan,
          DecodableInHand, PublishedIsDelivered, HasSucceeded
    <2>3. Claims'
      BY <1>13
      DEF HandlerReturns, Step, Claims, ClaimedExist, LockedIsPending,
          SnapshotCurrent, IdleIsEmpty
    <2>4. NoRowStranded'
      BY <1>13 DEF HandlerReturns, Step, NoRowStranded
    <2>5. QED BY <2>1, <2>2, <2>3, <2>4
  <1>14. ASSUME NEW r \in Relays, NEW h \in Handlers, HandlerThrows(r, h) PROVE IInv'
    <2>1. TypeOK'
      BY <1>14 DEF HandlerThrows, Step
    <2>2. Beliefs'
      BY <1>14
      DEF HandlerThrows, Step, Beliefs, LogIsTruthful, HandlersRan, SuccessRan,
          DecodableInHand, PublishedIsDelivered, HasSucceeded
    <2>3. Claims'
      BY <1>14
      DEF HandlerThrows, Step, Claims, ClaimedExist, LockedIsPending, SnapshotCurrent,
          IdleIsEmpty
    <2>4. NoRowStranded'
      BY <1>14 DEF HandlerThrows, Step, NoRowStranded
    <2>5. QED BY <2>1, <2>2, <2>3, <2>4
  <1>15. ASSUME NEW r \in Relays, NEW h \in Handlers, RecordResult(r, h) PROVE IInv'
    BY <1>15, RecordingInv DEF RecordResult
  <1>16. ASSUME NEW r \in Relays, NEW h \in Handlers, RecordError(r, h) PROVE IInv'
    BY <1>16, RecordingInv DEF RecordError
  <1>17. ASSUME NEW r \in Relays, SettlePublish(r) PROVE IInv'
    <2> USE DEF FailedHandlers, TriesLeft
    <2>1. CASE /\ FailedHandlers(r) = {}
               /\ pc' = [pc EXCEPT ![r] = "success"]
               /\ UNCHANGED <<try, hpc>>
      <3> delivered[cur[r]] = Handlers
        <4>1. \A h \in Handlers : h \in delivered[cur[r]]
          BY <1>17, <2>1 DEF SettlePublish, Beliefs, HandlersRan
        <4>2. delivered[cur[r]] \subseteq Handlers
          BY <1>17 DEF SettlePublish
        <4>3. QED BY <4>1, <4>2
      <3>1. TypeOK'
        BY <1>17, <2>1 DEF SettlePublish
      <3>2. Beliefs'
        BY <1>17, <2>1
        DEF SettlePublish, Beliefs, LogIsTruthful, HandlersRan, SuccessRan,
            DecodableInHand, PublishedIsDelivered, HasSucceeded
      <3>3. Claims'
        BY <1>17, <2>1
        DEF SettlePublish, Claims, ClaimedExist, LockedIsPending, SnapshotCurrent,
            IdleIsEmpty
      <3>4. NoRowStranded'
        BY <1>17, <2>1 DEF SettlePublish, NoRowStranded
      <3>5. QED BY <3>1, <3>2, <3>3, <3>4
    <2>2. CASE /\ TriesLeft(r)
               /\ try' = [try EXCEPT ![r] = @ + 1]
               /\ hpc' = [hpc EXCEPT ![r] = AllHandlers("check")]
               /\ UNCHANGED pc
      <3>1. TypeOK'
        BY <1>17, <2>2 DEF SettlePublish
      <3>2. Beliefs'
        BY <1>17, <2>2
        DEF SettlePublish, Beliefs, LogIsTruthful, HandlersRan, SuccessRan,
            DecodableInHand, PublishedIsDelivered, HasSucceeded
      <3>3. Claims'
        BY <1>17, <2>2
        DEF SettlePublish, Claims, ClaimedExist, LockedIsPending, SnapshotCurrent,
            IdleIsEmpty
      <3>4. NoRowStranded'
        BY <1>17, <2>2 DEF SettlePublish, NoRowStranded
      <3>5. QED BY <3>1, <3>2, <3>3, <3>4
    <2>3. CASE pc' = [pc EXCEPT ![r] = "failure"] /\ UNCHANGED <<try, hpc>>
      <3>1. TypeOK'
        BY <1>17, <2>3 DEF SettlePublish
      <3>2. Beliefs'
        BY <1>17, <2>3
        DEF SettlePublish, Beliefs, LogIsTruthful, HandlersRan, SuccessRan,
            DecodableInHand, PublishedIsDelivered, HasSucceeded
      <3>3. Claims'
        BY <1>17, <2>3
        DEF SettlePublish, Claims, ClaimedExist, LockedIsPending, SnapshotCurrent,
            IdleIsEmpty
      <3>4. NoRowStranded'
        BY <1>17, <2>3 DEF SettlePublish, NoRowStranded
      <3>5. QED BY <3>1, <3>2, <3>3, <3>4
    <2>4. QED BY <1>17, <2>1, <2>2, <2>3 DEF SettlePublish
  <1>18. ASSUME NEW r \in Relays, MarkPublished(r) PROVE IInv'
    <2> cur[r] \in Events
      BY <1>18 DEF MarkPublished
    <2>1. CASE UNCHANGED rowVars
      <3>1. TypeOK'
        BY <1>18, <2>1
        DEF MarkPublished, Owned, SetPublished, Unlock, LeaveRow, ForgetRow
      <3>2. Beliefs'
        BY <1>18, <2>1
        DEF MarkPublished, Owned, SetPublished, Unlock, LeaveRow, ForgetRow, Beliefs,
            LogIsTruthful, HandlersRan, SuccessRan, DecodableInHand,
            PublishedIsDelivered, HasSucceeded
      <3>3. Claims'
        BY <1>18, <2>1
        DEF MarkPublished, Owned, SetPublished, Unlock, LeaveRow, ForgetRow, Claims,
            ClaimedExist, LockedIsPending, SnapshotCurrent, IdleIsEmpty
      <3>4. NoRowStranded'
        BY <1>18, <2>1
        DEF MarkPublished, Owned, SetPublished, Unlock, LeaveRow, ForgetRow,
            NoRowStranded
      <3>5. QED BY <3>1, <3>2, <3>3, <3>4
    <2>2. CASE Owned(r, cur[r]) /\ SetPublished(cur[r])
      <3>1. TypeOK'
        BY <1>18, <2>2
        DEF MarkPublished, Owned, SetPublished, Unlock, LeaveRow, ForgetRow
      <3>2. Beliefs'
        BY <1>18, <2>2
        DEF MarkPublished, Owned, SetPublished, Unlock, LeaveRow, ForgetRow, Beliefs,
            LogIsTruthful, HandlersRan, SuccessRan, DecodableInHand,
            PublishedIsDelivered, HasSucceeded
      <3>3. Claims'
        BY <1>18, <2>2
        DEF MarkPublished, Owned, SetPublished, Unlock, LeaveRow, ForgetRow, Claims,
            ClaimedExist, LockedIsPending, SnapshotCurrent, IdleIsEmpty
      <3>4. NoRowStranded'
        BY <1>18, <2>2
        DEF MarkPublished, Owned, SetPublished, Unlock, LeaveRow, ForgetRow,
            NoRowStranded
      <3>5. QED BY <3>1, <3>2, <3>3, <3>4
    <2>3. QED BY <1>18, <2>1, <2>2 DEF MarkPublished
  <1>19. ASSUME NEW r \in Relays, MarkPublishedError(r) PROVE IInv'
    <2> cur[r] \in Events
      BY <1>19 DEF MarkPublishedError
    <2>1. CASE UNCHANGED rowVars
      <3>1. TypeOK'
        BY <1>19, <2>1 DEF MarkPublishedError, Owned, SetPublished, Unlock
      <3>2. Beliefs'
        BY <1>19, <2>1
        DEF MarkPublishedError, Owned, SetPublished, Unlock, Beliefs, LogIsTruthful,
            HandlersRan, SuccessRan, DecodableInHand, PublishedIsDelivered,
            HasSucceeded
      <3>3. Claims'
        BY <1>19, <2>1
        DEF MarkPublishedError, Owned, SetPublished, Unlock, Claims, ClaimedExist,
            LockedIsPending, SnapshotCurrent, IdleIsEmpty
      <3>4. NoRowStranded'
        BY <1>19, <2>1
        DEF MarkPublishedError, Owned, SetPublished, Unlock, NoRowStranded
      <3>5. QED BY <3>1, <3>2, <3>3, <3>4
    <2>2. CASE Owned(r, cur[r]) /\ SetPublished(cur[r])
      <3>1. TypeOK'
        BY <1>19, <2>2 DEF MarkPublishedError, Owned, SetPublished, Unlock
      <3>2. Beliefs'
        BY <1>19, <2>2
        DEF MarkPublishedError, Owned, SetPublished, Unlock, Beliefs, LogIsTruthful,
            HandlersRan, SuccessRan, DecodableInHand, PublishedIsDelivered,
            HasSucceeded
      <3>3. Claims'
        BY <1>19, <2>2
        DEF MarkPublishedError, Owned, SetPublished, Unlock, Claims, ClaimedExist,
            LockedIsPending, SnapshotCurrent, IdleIsEmpty
      <3>4. NoRowStranded'
        BY <1>19, <2>2
        DEF MarkPublishedError, Owned, SetPublished, Unlock, NoRowStranded
      <3>5. QED BY <3>1, <3>2, <3>3, <3>4
    <2>3. QED BY <1>19, <2>1, <2>2 DEF MarkPublishedError
  <1>20. ASSUME NEW r \in Relays, MarkFailed(r) PROVE IInv'
    <2> cur[r] \in Events
      BY <1>20 DEF MarkFailed
    <2>1. CASE UNCHANGED rowVars
      <3>1. TypeOK'
        BY <1>20, <2>1 DEF MarkFailed, Owned, SetFailed, Unlock, LeaveRow, ForgetRow
      <3>2. Beliefs'
        BY <1>20, <2>1
        DEF MarkFailed, Owned, SetFailed, Unlock, LeaveRow, ForgetRow, Beliefs,
            LogIsTruthful, HandlersRan, SuccessRan, DecodableInHand,
            PublishedIsDelivered, HasSucceeded
      <3>3. Claims'
        BY <1>20, <2>1
        DEF MarkFailed, Owned, SetFailed, Unlock, LeaveRow, ForgetRow, Claims,
            ClaimedExist, LockedIsPending, SnapshotCurrent, IdleIsEmpty
      <3>4. NoRowStranded'
        BY <1>20, <2>1
        DEF MarkFailed, Owned, SetFailed, Unlock, LeaveRow, ForgetRow, NoRowStranded
      <3>5. QED BY <3>1, <3>2, <3>3, <3>4
    <2>2. CASE Owned(r, cur[r]) /\ SetFailed(r, cur[r])
      <3> DEFINE e == cur[r]
      <3>a. status[e] = "pending" /\ lockOwner[e] = r
        BY <2>2 DEF Owned
      <3>b. snap[r][e] = attempts[e]
        BY <3>a DEF Claims, SnapshotCurrent
      <3>c. attempts[e] \in Nat /\ attempts[e] < MaxAttempts
        <4>1. attempts[e] \in 0..MaxAttempts
          OBVIOUS
        <4>2. attempts[e] < MaxAttempts
          BY <3>a DEF NoRowStranded
        <4>3. QED BY <4>1, <4>2
      <3>d. attempts' = [attempts EXCEPT ![e] = @ + 1]
        BY <2>2 DEF SetFailed
      <3>e. \/ /\ attempts[e] + 1 = MaxAttempts
               /\ status' = [status EXCEPT ![e] = "dead"]
               /\ lease' = [lease EXCEPT ![e] = NoLease]
            \/ /\ attempts[e] + 1 < MaxAttempts
               /\ status' = [status EXCEPT ![e] = "pending"]
               /\ lease' = [lease EXCEPT ![e] = 1]
        BY <2>2, <3>b, <3>c, FailedRow
      <3>1. TypeOK'
        BY <1>20, <2>2, <3>a, <3>b, <3>c, <3>d, <3>e
        DEF MarkFailed, Owned, SetFailed, Unlock, LeaveRow, ForgetRow
      <3>2. Beliefs'
        BY <1>20, <2>2, <3>a, <3>b, <3>c, <3>d, <3>e
        DEF MarkFailed, Owned, SetFailed, Unlock, LeaveRow, ForgetRow, Beliefs,
            LogIsTruthful, HandlersRan, SuccessRan, DecodableInHand,
            PublishedIsDelivered, HasSucceeded
      <3>3. Claims'
        BY <1>20, <2>2, <3>a, <3>b, <3>c, <3>d, <3>e
        DEF MarkFailed, Owned, SetFailed, Unlock, LeaveRow, ForgetRow, Claims,
            ClaimedExist, LockedIsPending, SnapshotCurrent, IdleIsEmpty
      <3>4. NoRowStranded'
        BY <1>20, <2>2, <3>a, <3>b, <3>c, <3>d, <3>e
        DEF MarkFailed, Owned, SetFailed, Unlock, LeaveRow, ForgetRow, NoRowStranded
      <3>5. QED BY <3>1, <3>2, <3>3, <3>4
    <2>3. QED BY <1>20, <2>1, <2>2 DEF MarkFailed
  <1>21. ASSUME NEW r \in Relays, MarkFailedError(r) PROVE IInv'
    <2> cur[r] \in Events
      BY <1>21 DEF MarkFailedError
    <2>1. CASE UNCHANGED rowVars
      <3>1. TypeOK'
        BY <1>21, <2>1
        DEF MarkFailedError, Owned, SetFailed, Unlock, ForgetPoll, ForgetRow
      <3>2. Beliefs'
        BY <1>21, <2>1
        DEF MarkFailedError, Owned, SetFailed, Unlock, ForgetPoll, ForgetRow, Beliefs,
            LogIsTruthful, HandlersRan, SuccessRan, DecodableInHand,
            PublishedIsDelivered, HasSucceeded
      <3>3. Claims'
        BY <1>21, <2>1
        DEF MarkFailedError, Owned, SetFailed, Unlock, ForgetPoll, ForgetRow, Claims,
            ClaimedExist, LockedIsPending, SnapshotCurrent, IdleIsEmpty
      <3>4. NoRowStranded'
        BY <1>21, <2>1
        DEF MarkFailedError, Owned, SetFailed, Unlock, ForgetPoll, ForgetRow,
            NoRowStranded
      <3>5. QED BY <3>1, <3>2, <3>3, <3>4
    <2>2. CASE Owned(r, cur[r]) /\ SetFailed(r, cur[r])
      <3> DEFINE e == cur[r]
      <3>a. status[e] = "pending" /\ lockOwner[e] = r
        BY <2>2 DEF Owned
      <3>b. snap[r][e] = attempts[e]
        BY <3>a DEF Claims, SnapshotCurrent
      <3>c. attempts[e] \in Nat /\ attempts[e] < MaxAttempts
        <4>1. attempts[e] \in 0..MaxAttempts
          OBVIOUS
        <4>2. attempts[e] < MaxAttempts
          BY <3>a DEF NoRowStranded
        <4>3. QED BY <4>1, <4>2
      <3>d. attempts' = [attempts EXCEPT ![e] = @ + 1]
        BY <2>2 DEF SetFailed
      <3>e. \/ /\ attempts[e] + 1 = MaxAttempts
               /\ status' = [status EXCEPT ![e] = "dead"]
               /\ lease' = [lease EXCEPT ![e] = NoLease]
            \/ /\ attempts[e] + 1 < MaxAttempts
               /\ status' = [status EXCEPT ![e] = "pending"]
               /\ lease' = [lease EXCEPT ![e] = 1]
        BY <2>2, <3>b, <3>c, FailedRow
      <3>1. TypeOK'
        BY <1>21, <2>2, <3>a, <3>b, <3>c, <3>d, <3>e
        DEF MarkFailedError, Owned, SetFailed, Unlock, ForgetPoll, ForgetRow
      <3>2. Beliefs'
        BY <1>21, <2>2, <3>a, <3>b, <3>c, <3>d, <3>e
        DEF MarkFailedError, Owned, SetFailed, Unlock, ForgetPoll, ForgetRow, Beliefs,
            LogIsTruthful, HandlersRan, SuccessRan, DecodableInHand,
            PublishedIsDelivered, HasSucceeded
      <3>3. Claims'
        BY <1>21, <2>2, <3>a, <3>b, <3>c, <3>d, <3>e
        DEF MarkFailedError, Owned, SetFailed, Unlock, ForgetPoll, ForgetRow, Claims,
            ClaimedExist, LockedIsPending, SnapshotCurrent, IdleIsEmpty
      <3>4. NoRowStranded'
        BY <1>21, <2>2, <3>a, <3>b, <3>c, <3>d, <3>e
        DEF MarkFailedError, Owned, SetFailed, Unlock, ForgetPoll, ForgetRow,
            NoRowStranded
      <3>5. QED BY <3>1, <3>2, <3>3, <3>4
    <2>3. QED BY <1>21, <2>1, <2>2 DEF MarkFailedError
  <1>22. ASSUME NEW r \in Relays, HeartbeatTick(r) PROVE IInv'
    <2>1. TypeOK'
      BY <1>22 DEF HeartbeatTick, SetBeat
    <2>2. Beliefs'
      BY <1>22
      DEF HeartbeatTick, SetBeat, Beliefs, LogIsTruthful, HandlersRan, SuccessRan,
          DecodableInHand, PublishedIsDelivered, HasSucceeded
    <2>3. Claims'
      BY <1>22
      DEF HeartbeatTick, SetBeat, Claims, ClaimedExist, LockedIsPending,
          SnapshotCurrent, IdleIsEmpty
    <2>4. NoRowStranded'
      BY <1>22 DEF HeartbeatTick, SetBeat, NoRowStranded
    <2>5. QED BY <2>1, <2>2, <2>3, <2>4
  <1>23. ASSUME NEW r \in Relays, RenewClaims(r) PROVE IInv'
    <2>1. TypeOK'
      BY <1>23 DEF RenewClaims, SetBeat
    <2>2. Beliefs'
      BY <1>23
      DEF RenewClaims, SetBeat, Beliefs, LogIsTruthful, HandlersRan, SuccessRan,
          DecodableInHand, PublishedIsDelivered, HasSucceeded
    <2>3. Claims'
      BY <1>23
      DEF RenewClaims, SetBeat, Claims, ClaimedExist, LockedIsPending,
          SnapshotCurrent, IdleIsEmpty
    <2>4. NoRowStranded'
      BY <1>23 DEF RenewClaims, SetBeat, NoRowStranded
    <2>5. QED BY <2>1, <2>2, <2>3, <2>4
  <1>24. ASSUME NEW r \in Relays, HeartbeatAnswer(r) PROVE IInv'
    <2>1. TypeOK'
      BY <1>24 DEF HeartbeatAnswer
    <2>2. Beliefs'
      BY <1>24
      DEF HeartbeatAnswer, Beliefs, LogIsTruthful, HandlersRan, SuccessRan,
          DecodableInHand, PublishedIsDelivered, HasSucceeded
    <2>3. Claims'
      BY <1>24
      DEF HeartbeatAnswer, Claims, ClaimedExist, LockedIsPending, SnapshotCurrent,
          IdleIsEmpty
    <2>4. NoRowStranded'
      BY <1>24 DEF HeartbeatAnswer, NoRowStranded
    <2>5. QED BY <2>1, <2>2, <2>3, <2>4
  <1>25. ASSUME NEW r \in Relays, HeartbeatError(r) PROVE IInv'
    <2>1. TypeOK'
      BY <1>25 DEF HeartbeatError
    <2>2. Beliefs'
      BY <1>25
      DEF HeartbeatError, Beliefs, LogIsTruthful, HandlersRan, SuccessRan,
          DecodableInHand, PublishedIsDelivered, HasSucceeded
    <2>3. Claims'
      BY <1>25
      DEF HeartbeatError, Claims, ClaimedExist, LockedIsPending, SnapshotCurrent,
          IdleIsEmpty
    <2>4. NoRowStranded'
      BY <1>25 DEF HeartbeatError, NoRowStranded
    <2>5. QED BY <2>1, <2>2, <2>3, <2>4
  <1>26. ASSUME NEW rows \in SUBSET Events, ReplayDeadLetters(rows) PROVE IInv'
    <2>1. TypeOK'
      BY <1>26 DEF ReplayDeadLetters, ReplaySelection
    <2>2. Beliefs'
      BY <1>26
      DEF ReplayDeadLetters, ReplaySelection, Beliefs, LogIsTruthful, HandlersRan,
          SuccessRan, DecodableInHand, PublishedIsDelivered, HasSucceeded
    <2>3. Claims'
      BY <1>26
      DEF ReplayDeadLetters, ReplaySelection, Claims, ClaimedExist, LockedIsPending,
          SnapshotCurrent, IdleIsEmpty
    <2>4. NoRowStranded'
      BY <1>26 DEF ReplayDeadLetters, ReplaySelection, NoRowStranded
    <2>5. QED BY <2>1, <2>2, <2>3, <2>4
  <1>27. ASSUME NEW rows \in SUBSET Events, CleanupPublished(rows) PROVE IInv'
    <2>1. TypeOK'
      BY <1>27 DEF CleanupPublished, CleanupSelection
    <2>2. Beliefs'
      BY <1>27
      DEF CleanupPublished, CleanupSelection, Beliefs, LogIsTruthful, HandlersRan,
          SuccessRan, DecodableInHand, PublishedIsDelivered, HasSucceeded
    <2>3. Claims'
      BY <1>27
      DEF CleanupPublished, CleanupSelection, Claims, ClaimedExist, LockedIsPending,
          SnapshotCurrent, IdleIsEmpty
    <2>4. NoRowStranded'
      BY <1>27 DEF CleanupPublished, CleanupSelection, NoRowStranded
    <2>5. QED BY <2>1, <2>2, <2>3, <2>4
  <1>28. CASE UNCHANGED vars
    BY <1>28
    DEF Beliefs, Claims, LogIsTruthful, HandlersRan, SuccessRan, DecodableInHand,
        PublishedIsDelivered, HasSucceeded,
         ClaimedExist, LockedIsPending, SnapshotCurrent, IdleIsEmpty, NoRowStranded
  <1>29. QED
    BY <1>1, <1>2, <1>3, <1>4, <1>5, <1>6, <1>7, <1>8, <1>9, <1>10, <1>11, <1>12,
       <1>13, <1>14, <1>15, <1>16, <1>17, <1>18, <1>19, <1>20, <1>21, <1>22, <1>23,
       <1>24, <1>25, <1>26, <1>27, <1>28
    DEF Next, RelayStep, HandlerStep, Heartbeat, DatabaseError, Lifecycle, Maintenance

-----------------------------------------------------------------------------
(* The theorems.                                                            *)

LEMMA Invariance == Spec => []IInv
  <1>1. Init => IInv
    BY InitInv
  <1>2. IInv /\ [Next]_vars => IInv'
    BY StepInv
  <1>3. QED BY <1>1, <1>2, PTL DEF Spec

\* Type correctness of the table rows, the handler logs and the relays.
THEOREM TypeCorrect == Spec => []TypeOK
  <1>1. IInv => TypeOK
    BY DEF IInv
  <1>2. QED BY <1>1, Invariance, PTL

\* A published or cleaned-up event was handled to completion by every handler,
\* for any number of relays, crashes and lost leases.
THEOREM PublishedDelivered == Spec => []PublishedIsDelivered
  <1>1. IInv => PublishedIsDelivered
    BY DEF IInv, Beliefs
  <1>2. QED BY <1>1, Invariance, PTL

\* No pending row ever reaches the attempt limit, where no claim could find it,
\* and a dead letter has used up exactly its attempts.
THEOREM NothingStranded == Spec => []NoRowStranded
  <1>1. IInv => NoRowStranded
    BY DEF IInv
  <1>2. QED BY <1>1, Invariance, PTL

\* The steps that leave the fate of every row and every delivery as it is.
QuietStep ==
  \/ \E e \in Events : LeaseTick(e)
  \/ \E r \in Relays :
       \/ Start(r) \/ Stop(r) \/ Crash(r) \/ ClaimBatch(r) \/ ClaimAnswerLost(r)
       \/ SkipRow(r) \/ StartRow(r) \/ EndPoll(r) \/ SettlePublish(r)
       \/ Heartbeat(r) \/ HeartbeatError(r)
       \/ \E h \in Handlers : \/ CheckHandler(r, h) \/ CheckError(r, h)
                              \/ HandlerThrows(r, h)
                              \/ RecordResult(r, h) \/ RecordError(r, h)
  \/ UNCHANGED vars

LEMMA QuietUnchanged == QuietStep => UNCHANGED <<status, attempts, delivered>>
  <1> USE DEF rowVars, logVars, relayVars
  <1>1. ASSUME NEW e \in Events, LeaseTick(e)
        PROVE  UNCHANGED <<status, attempts, delivered>>
    BY <1>1 DEF LeaseTick
  <1>2. ASSUME NEW r \in Relays,
               \/ Start(r) \/ Stop(r) \/ Crash(r) \/ ClaimBatch(r) \/ ClaimAnswerLost(r)
               \/ SkipRow(r) \/ StartRow(r) \/ EndPoll(r) \/ SettlePublish(r)
               \/ Heartbeat(r) \/ HeartbeatError(r)
        PROVE  UNCHANGED <<status, attempts, delivered>>
    BY <1>2 DEF Start, Stop, Crash, ClaimBatch, ClaimAnswerLost, LockRows, SkipRow,
                StartRow, EndPoll, SettlePublish, Heartbeat, HeartbeatTick,
                RenewClaims, HeartbeatAnswer, HeartbeatError
  <1>3. ASSUME NEW r \in Relays, NEW h \in Handlers,
               CheckHandler(r, h) \/ CheckError(r, h) \/ HandlerThrows(r, h)
        PROVE  UNCHANGED <<status, attempts, delivered>>
    BY <1>3 DEF CheckHandler, CheckError, HandlerThrows, Step
  <1>4. ASSUME NEW r \in Relays, NEW h \in Handlers,
               RecordResult(r, h) \/ RecordError(r, h)
        PROVE  UNCHANGED <<status, attempts, delivered>>
    BY <1>4 DEF RecordResult, RecordError, Step, Upsert
  <1>5. ASSUME UNCHANGED vars
        PROVE  UNCHANGED <<status, attempts, delivered>>
    BY <1>5 DEF vars
  <1>6. QED BY <1>1, <1>2, <1>3, <1>4, <1>5 DEF QuietStep

\* What is left: the steps that change the fate of a row or deliver an event.
LEMMA StepCases ==
  ASSUME [Next]_vars
  PROVE  \/ QuietStep
         \/ \E e \in Events : PersistEvent(e)
         \/ \E r \in Relays, h \in Handlers : HandlerReturns(r, h)
         \/ \E r \in Relays : MarkPublished(r) \/ MarkPublishedError(r)
         \/ \E r \in Relays : MarkFailed(r) \/ MarkFailedError(r)
         \/ \E rows \in SUBSET Events : ReplayDeadLetters(rows)
         \/ \E rows \in SUBSET Events : CleanupPublished(rows)
  BY
  DEF Next, QuietStep, RelayStep, HandlerStep, DatabaseError, Lifecycle, Maintenance

\* A relay publishes or fails only the row in hand, and only while it owns it.
LEMMA PublishCases ==
  ASSUME TypeOK, NEW r \in Relays, MarkPublished(r) \/ MarkPublishedError(r)
  PROVE  /\ cur[r] \in Events
         /\ pc[r] = "success"
         /\ UNCHANGED delivered
         /\ UNCHANGED rowVars \/ (Owned(r, cur[r]) /\ SetPublished(cur[r]))
  BY DEF MarkPublished, MarkPublishedError, TypeOK, Working, logVars

LEMMA FailureCases ==
  ASSUME TypeOK, NEW r \in Relays, MarkFailed(r) \/ MarkFailedError(r)
  PROVE  /\ cur[r] \in Events
         /\ pc[r] = "failure"
         /\ UNCHANGED delivered
         /\ UNCHANGED rowVars \/ (Owned(r, cur[r]) /\ SetFailed(r, cur[r]))
  BY DEF MarkFailed, MarkFailedError, TypeOK, Working, logVars

\* Only the relay that holds the lock and has the row in hand decides its fate.
THEOREM OwnerSettles == Spec => OnlyOwnerSettles
  <1> DEFINE Settles(e) ==
        status[e] = "pending" /\ <<status[e], attempts[e]>>' # <<status[e], attempts[e]>>
        => \E r \in Relays : /\ lockOwner[e] = r
                             /\ cur[r] = e
                             /\ pc[r] \in {"success", "failure"}
                             /\ lockOwner'[e] = NoOne
  <1>1. IInv /\ [Next]_vars => \A e \in Events : Settles(e)
    <2> SUFFICES ASSUME IInv, [Next]_vars, NEW e \in Events PROVE Settles(e)
      OBVIOUS
    <2> USE DEF IInv, TypeOK
    <2>1. CASE QuietStep
      BY <2>1, QuietUnchanged
    <2>2. CASE \E f \in Events : PersistEvent(f)
      BY <2>2 DEF PersistEvent
    <2>3. CASE \E r \in Relays, h \in Handlers : HandlerReturns(r, h)
      BY <2>3 DEF HandlerReturns, Step, rowVars
    <2>4. ASSUME NEW r \in Relays, MarkPublished(r) \/ MarkPublishedError(r)
          PROVE  Settles(e)
      BY <2>4, PublishCases DEF rowVars, Owned, SetPublished, Unlock
    <2>5. ASSUME NEW r \in Relays, MarkFailed(r) \/ MarkFailedError(r)
          PROVE  Settles(e)
      <3>1. /\ cur[r] \in Events
            /\ pc[r] = "failure"
            /\ UNCHANGED rowVars \/ (Owned(r, cur[r]) /\ SetFailed(r, cur[r]))
        BY <2>5, FailureCases
      <3>2. CASE UNCHANGED rowVars
        BY <3>2 DEF rowVars
      <3>3. CASE Owned(r, cur[r]) /\ SetFailed(r, cur[r])
        <4>1. lockOwner[cur[r]] = r /\ lockOwner'[cur[r]] = NoOne
          BY <3>1, <3>3 DEF Owned, SetFailed, Unlock
        <4>2. e # cur[r] => status'[e] = status[e] /\ attempts'[e] = attempts[e]
          BY <3>1, <3>3 DEF SetFailed
        <4>3. QED BY <3>1, <4>1, <4>2
      <3>4. QED BY <3>1, <3>2, <3>3
    <2>6. CASE \E rows \in SUBSET Events : ReplayDeadLetters(rows)
      BY <2>6 DEF ReplayDeadLetters, ReplaySelection
    <2>7. CASE \E rows \in SUBSET Events : CleanupPublished(rows)
      BY <2>7 DEF CleanupPublished, CleanupSelection
    <2>8. QED BY <2>1, <2>2, <2>3, <2>4, <2>5, <2>6, <2>7, StepCases
  <1>2. QED BY <1>1, Invariance, PTL DEF Spec, OnlyOwnerSettles

\* The relay implements OutboxDelivery: each of its steps is a step of the
\* abstract outbox or leaves it unchanged.
THEOREM ImplementsDelivery == Spec => DeliverySpec
  <1>1. Init => Delivery!DeliveryInit
    BY DEF Init, Delivery!DeliveryInit
  <1>2. IInv /\ [Next]_vars => [Delivery!DeliveryNext]_(Delivery!deliveryVars)
    <2> SUFFICES ASSUME IInv, [Next]_vars
                 PROVE  Delivery!DeliveryNext \/ UNCHANGED <<status, attempts, delivered>>
      BY DEF Delivery!deliveryVars
    <2> USE ConstantsAssumption DEF IInv, TypeOK, Claims, Beliefs
    <2>1. CASE QuietStep
      BY <2>1, QuietUnchanged
    <2>2. ASSUME NEW e \in Events, PersistEvent(e)
          PROVE  Delivery!Commit(e)
      BY <2>2 DEF PersistEvent, Delivery!Commit, logVars
    <2>3. ASSUME NEW r \in Relays, NEW h \in Handlers, HandlerReturns(r, h)
          PROVE  cur[r] \in Events /\ Delivery!Deliver(cur[r], h)
      BY <2>3 DEF HandlerReturns, Step, Delivery!Deliver, rowVars, Working,
                  ClaimedExist, DecodableInHand
    <2>4. ASSUME NEW r \in Relays, Owned(r, cur[r]), SetPublished(cur[r]),
                 MarkPublished(r) \/ MarkPublishedError(r)
          PROVE  Delivery!Publish(cur[r])
      BY <2>4, PublishCases
      DEF Owned, SetPublished, Delivery!Publish, SuccessRan, DecodableInHand
    <2>5. ASSUME NEW r \in Relays, Owned(r, cur[r]), SetFailed(r, cur[r]),
                 MarkFailed(r) \/ MarkFailedError(r)
          PROVE  Delivery!Fail(cur[r])
      <3> DEFINE e == cur[r]
      <3>1. e \in Events /\ UNCHANGED delivered /\ snap[r][e] = attempts[e]
        <4>1. TypeOK /\ SnapshotCurrent
          OBVIOUS
        <4> HIDE DEF TypeOK, Claims, Beliefs, IInv
        <4>2. e \in Events /\ UNCHANGED delivered
          BY <2>5, <4>1, FailureCases
        <4>3. lockOwner[e] = r
          BY <2>5 DEF Owned
        <4> HIDE DEF e
        <4>4. snap[r][e] = attempts[e]
          BY <4>1, <4>2, <4>3 DEF SnapshotCurrent, e
        <4>5. QED BY <4>2, <4>4
      <3>2. status[e] = "pending" /\ attempts[e] < MaxAttempts
        BY <2>5, <3>1 DEF Owned, NoRowStranded
      <3> attempts[e] \in Nat
        <4>1. attempts[e] \in 0..MaxAttempts
          BY <3>1
        <4>2. QED BY <4>1
      <3>3. \/ /\ attempts[e] + 1 = MaxAttempts
               /\ status' = [status EXCEPT ![e] = "dead"]
            \/ /\ attempts[e] + 1 < MaxAttempts
               /\ status' = [status EXCEPT ![e] = "pending"]
        BY <2>5, <3>1, <3>2, FailedRow
      <3>4. attempts' = [attempts EXCEPT ![e] = @ + 1]
        BY <2>5 DEF SetFailed
      <3>5. QED BY <3>1, <3>2, <3>3, <3>4 DEF Delivery!Fail
    <2>6. ASSUME NEW rows \in SUBSET Events, ReplayDeadLetters(rows)
          PROVE  Delivery!Requeue(rows)
      BY <2>6 DEF ReplayDeadLetters, ReplaySelection, Delivery!Requeue, logVars
    <2>7. ASSUME NEW rows \in SUBSET Events, CleanupPublished(rows)
          PROVE  Delivery!Retire(rows)
      BY <2>7 DEF CleanupPublished, CleanupSelection, Delivery!Retire
    <2>8. QED
      BY <2>1, <2>2, <2>3, <2>4, <2>5, <2>6, <2>7, StepCases, PublishCases,
         FailureCases DEF Delivery!DeliveryNext, rowVars
  <1>3. QED BY <1>1, <1>2, Invariance, PTL DEF Spec, DeliverySpec, Delivery!DeliverySpec
=============================================================================
