------------------------------ MODULE SagaProofs ------------------------------
(***************************************************************************)
(* Proofs about the two sagas for any number of runs and of attempts:      *)
(* what the row of a cancellation says has happened, and nothing is held   *)
(* for a checkout that has been compensated.                               *)
(***************************************************************************)
EXTENDS CancellationSaga, CheckoutSaga, TLAPS

(* Cancellation and refund.                                                  *)

\* What a run believes to be done is done, whatever other runs store meanwhile.
RunsKnow == \A r \in Runs : Due(runStep[r]) \subseteq happened

CancelInv == CancelTypeOK /\ RunsKnow /\ StoredStepsHappened

LEMMA CancelInitInv == CancelInit => CancelInv
  <1> SUFFICES ASSUME CancelInit
               PROVE  CancelInv
      OBVIOUS
  <1>1. "STARTED" \in Steps /\ Due("STARTED") = {}
        BY DEF Steps, Due
  <1>2. CancelTypeOK
    <2>1. overdue \in BOOLEAN /\ paid \in BOOLEAN
          BY Zenon DEF CancelInit
    <2>2. /\ sagaStep = Unsaved
          /\ runAt = [r \in Runs |-> "out"] /\ runStep = [r \in Runs |-> "STARTED"]
          /\ attempt = [r \in Runs |-> 1] /\ happened = {} /\ flying = {}
          BY Zenon DEF CancelInit
    <2> QED
        BY <1>1, <2>1, <2>2, SomeAttempt DEF CancelTypeOK
  <1>3. RunsKnow
        BY <1>1 DEF CancelInit, RunsKnow
  <1>4. StoredStepsHappened
        BY DEF CancelInit, StoredStepsHappened
  <1> QED
      BY <1>2, <1>3, <1>4 DEF CancelInv

\* The step after a call is due exactly when the call has been made as well.
LEMMA StepsOneCall ==
  ASSUME NEW s \in Steps
  PROVE  /\ StepAfter(s) \in Steps
         /\ CallOf(s) # "none" => CallOf(s) \in Calls
         /\ Due(StepAfter(s)) \subseteq Due(s) \cup ({CallOf(s)} \ {"none"})
  BY DEF Steps, StepAfter, CallOf, Calls, Due

\* Steps that only make more calls happen, and move no run to another step.
LEMMA NoRunMoves ==
  ASSUME CancelInv, UNCHANGED <<sagaStep, runStep, paid>>, happened \subseteq happened'
  PROVE  RunsKnow' /\ StoredStepsHappened'
  BY DEF CancelInv, RunsKnow, StoredStepsHappened, Due

\* A run that advances has made the call that its new step stands for.
LEMMA AdvanceKnows ==
  ASSUME CancelInv, NEW r \in Runs, Advance(r), UNCHANGED <<sagaStep, paid, flying, overdue>>,
         happened' = happened \cup ({CallOf(runStep[r])} \ {"none"})
  PROVE  CancelInv'
  <1>1. runStep[r] \in Steps
        BY DEF CancelInv, CancelTypeOK
  <1>2. /\ runStep' = [runStep EXCEPT ![r] = StepAfter(runStep[r])]
        /\ runAt' = [runAt EXCEPT ![r] = "saving"]
        /\ attempt' = [attempt EXCEPT ![r] = 1]
        BY DEF Advance, RunGoes
  <1>3. CancelTypeOK'
        BY <1>1, <1>2, SomeAttempt, StepsOneCall DEF CancelInv, CancelTypeOK
  <1>4. \A s : Due(s)' = Due(s)
        BY DEF Due
  <1>5. RunsKnow'
    <2> SUFFICES ASSUME NEW q \in Runs
                 PROVE  Due(runStep'[q]) \subseteq happened'
        BY <1>4 DEF RunsKnow
    <2>1. CASE q = r
          BY <1>1, <1>2, <2>1, StepsOneCall DEF CancelInv, CancelTypeOK, RunsKnow
    <2>2. CASE q # r
          BY <1>2, <2>2 DEF CancelInv, CancelTypeOK, RunsKnow
    <2> QED
        BY <2>1, <2>2
  <1>6. StoredStepsHappened'
        BY <1>4 DEF CancelInv, StoredStepsHappened
  <1> QED
      BY <1>3, <1>5, <1>6 DEF CancelInv

LEMMA CancelStep == CancelInv /\ [CancelNext]_cancelVars => CancelInv'
  <1> SUFFICES ASSUME CancelInv, [CancelNext]_cancelVars
               PROVE  CancelInv'
      OBVIOUS
  <1>1. ASSUME NEW r \in Runs, Load(r)
        PROVE  CancelInv'
    <2> DEFINE s == IF sagaStep = Unsaved THEN "STARTED" ELSE sagaStep
    <2>1. /\ runAt' = [runAt EXCEPT ![r] = "working"]
          /\ runStep' = [runStep EXCEPT ![r] = s]
          /\ UNCHANGED <<sagaStep, attempt, happened, flying, overdue, paid>>
          BY <1>1 DEF Load, RunGoes
    <2>2. s \in Steps /\ Due(s) \subseteq happened
          BY DEF CancelInv, CancelTypeOK, StoredStepsHappened, Steps, Due
    <2> HIDE DEF s
    <2>3. \A t : Due(t)' = Due(t)
          BY <2>1 DEF Due
    <2>4. RunsKnow'
      <3> SUFFICES ASSUME NEW q \in Runs
                   PROVE  Due(runStep'[q]) \subseteq happened'
          BY <2>3 DEF RunsKnow
      <3>1. CASE q = r
            BY <2>1, <2>2, <3>1 DEF CancelInv, CancelTypeOK
      <3>2. CASE q # r
            BY <2>1, <3>2 DEF CancelInv, CancelTypeOK, RunsKnow
      <3> QED
          BY <3>1, <3>2
    <2>5. CancelTypeOK'
          BY <2>1, <2>2 DEF CancelInv, CancelTypeOK
    <2> QED
        BY <2>1, <2>3, <2>4, <2>5 DEF CancelInv, StoredStepsHappened
  <1>2. ASSUME NEW r \in Runs, Finish(r)
        PROVE  CancelInv'
        BY <1>2, AdvanceKnows DEF Finish
  <1>3. ASSUME NEW r \in Runs, Answered(r)
        PROVE  CancelInv'
        BY <1>3, AdvanceKnows DEF Answered
  <1>4. ASSUME NEW r \in Runs, TimedOut(r)
        PROVE  CancelInv'
    <2>1. CallOf(runStep[r]) \in Calls
          BY <1>4, StepsOneCall DEF TimedOut, CancelInv, CancelTypeOK
    <2>2. /\ flying' \subseteq Calls
          /\ UNCHANGED <<sagaStep, runStep, happened, overdue, paid>>
          BY <1>4, <2>1 DEF TimedOut, CancelInv, CancelTypeOK
    <2>3. /\ attempt' \in [Runs -> 1 .. MaxAttempts]
          /\ runAt' \in [Runs -> {"out", "working", "saving", "ended"}]
          BY <1>4, SomeAttempt DEF TimedOut, NextAttempt, RunGoes, CancelInv, CancelTypeOK
    <2>4. CancelTypeOK'
          BY <2>2, <2>3 DEF CancelInv, CancelTypeOK
    <2> QED
        BY <2>2, <2>4, NoRunMoves DEF CancelInv
  <1>5. ASSUME NEW r \in Runs, DeadlineExceeded(r) \/ RunDies(r)
        PROVE  CancelInv'
        BY <1>5, NoRunMoves DEF DeadlineExceeded, RunDies, RunGoes, CancelInv, CancelTypeOK
  <1>6. ASSUME NEW r \in Runs, ExecuteAgain(r)
        PROVE  CancelInv'
        BY <1>6, NoRunMoves, SomeAttempt DEF ExecuteAgain, RunGoes, CancelInv, CancelTypeOK
  <1>7. ASSUME NEW r \in Runs, Save(r)
        PROVE  CancelInv'
    <2>1. /\ sagaStep' = runStep[r] /\ runStep[r] \in Steps
          /\ UNCHANGED <<runStep, attempt, happened, flying, overdue, paid>>
          BY <1>7 DEF Save, CancelInv, CancelTypeOK
    <2>2. CancelTypeOK'
          BY <1>7, <2>1 DEF Save, RunGoes, CancelInv, CancelTypeOK
    <2>3. \A t : Due(t)' = Due(t)
          BY <2>1 DEF Due
    <2>4. Due(runStep[r]) \subseteq happened
          BY DEF CancelInv, RunsKnow
    <2> QED
        BY <2>1, <2>2, <2>3, <2>4 DEF CancelInv, RunsKnow, StoredStepsHappened
  <1>8. CASE LateCall
        BY <1>8, NoRunMoves DEF LateCall, CancelInv, CancelTypeOK
  <1>9. CASE DeadlinePasses
        BY <1>9, NoRunMoves DEF DeadlinePasses, CancelInv, CancelTypeOK
  <1>10. CASE UNCHANGED cancelVars
        BY <1>10, NoRunMoves DEF cancelVars, CancelInv, CancelTypeOK
  <1> QED
      BY <1>1, <1>2, <1>3, <1>4, <1>5, <1>6, <1>7, <1>8, <1>9, <1>10 DEF CancelNext

\* The row of a cancellation, its runs and its calls keep their types.
THEOREM CancellationTypes == CancelSpec => []CancelTypeOK
  <1>1. CancelInv => CancelTypeOK
        BY DEF CancelInv
  <1> QED
      BY <1>1, CancelInitInv, CancelStep, PTL DEF CancelSpec

\* The step in the row of a cancellation never runs ahead of what has been done, for
\* any number of runs that overwrite it at once, time out, die and start again.
THEOREM CancellationStepsHappened == CancelSpec => []StoredStepsHappened
  <1>1. CancelInv => StoredStepsHappened
        BY DEF CancelInv
  <1> QED
      BY <1>1, CancelInitInv, CancelStep, PTL DEF CancelSpec

-----------------------------------------------------------------------------
(* Checkout.                                                                 *)

RowIds == IF sagaRow = NoState THEN {} ELSE sagaRow.ids

\* While a run is on, its row exists from its first save on, and is not over.
RunInProgress ==
  /\ sagaPc \in {"starting", "calling", "saving", "undoing"} => sagaState.step # "COMPENSATED"
  /\ sagaPc \in {"calling", "saving", "undoing"} => sagaRow # NoState
  /\ sagaPc = "starting" => sagaState = IF sagaRow = NoState THEN Started ELSE sagaRow
  /\ sagaRow # NoState /\ sagaRow.step = "COMPENSATED" => sagaPc \in {"out", "ended"}

\* Whatever is held is known to the run, or to the row when nothing runs, or vague.
HeldIsKnown ==
  /\ sagaPc \in {"out", "ended"} => holds \subseteq RowIds \cup vague
  /\ sagaPc \in {"starting", "calling", "saving"} => holds \subseteq sagaState.ids \cup vague
  /\ sagaPc = "undoing" => left \subseteq sagaState.ids /\ holds \subseteq left \cup vague

CheckoutSagaInv ==
  CheckoutSagaTypeOK /\ RunInProgress /\ HeldIsKnown /\ CompensatedHoldsNothing

LEMMA CheckoutSagaInitInv == CheckoutSagaInit => CheckoutSagaInv
  <1> SUFFICES ASSUME CheckoutSagaInit
               PROVE  CheckoutSagaInv
      OBVIOUS
  <1>1. Started \in State
        BY DEF Started, State
  <1>2. CheckoutSagaTypeOK
    <2>1. expired \in BOOLEAN /\ payable \in BOOLEAN
          BY Zenon DEF CheckoutSagaInit
    <2>2. /\ sagaRow = NoState /\ sagaState = Started /\ sagaPc = "out" /\ tries = 1
          /\ left = {} /\ holds = {} /\ vague = {}
          BY Zenon DEF CheckoutSagaInit
    <2> QED
        BY <1>1, <2>1, <2>2, CheckoutSagaAssumption DEF CheckoutSagaTypeOK
  <1>3. RunInProgress /\ HeldIsKnown /\ CompensatedHoldsNothing
        BY DEF CheckoutSagaInit, RunInProgress, HeldIsKnown, CompensatedHoldsNothing
  <1> QED
      BY <1>2, <1>3 DEF CheckoutSagaInv

LEMMA CheckoutSagaStep ==
  CheckoutSagaInv /\ [CheckoutSagaNext]_checkoutSagaVars => CheckoutSagaInv'
  <1> SUFFICES ASSUME CheckoutSagaInv, [CheckoutSagaNext]_checkoutSagaVars
               PROVE  CheckoutSagaInv'
      OBVIOUS
  <1> USE CheckoutSagaAssumption
      DEF CheckoutSagaInv, CheckoutSagaTypeOK, RunInProgress, HeldIsKnown,
          CompensatedHoldsNothing, RowIds
  <1>1. /\ sagaRow # NoState => sagaRow \in State
        /\ \A s \in State : s.ids \subseteq Ids
        BY DEF State
  <1>2. CASE ExecuteSaga
        BY <1>1, <1>2 DEF ExecuteSaga, Over, Started, State
  <1>3. CASE SaveStart
        BY <1>1, <1>3 DEF SaveStart
  <1>4. CASE StartLost
        BY <1>1, <1>4 DEF StartLost, Started
  <1>5. CASE CallAnswered
    <2> DEFINE id == NextId(sagaState.ids)
    <2>1. id \in Ids \cup {"confirm"} /\ Hold(id) \subseteq Ids
          BY DEF NextId, Ids, Hold
    <2>2. [step |-> StepWith(id), ids |-> sagaState.ids \cup Hold(id)] \in State
          BY <1>1, <2>1 DEF StepWith, State, Ids
    <2>3. StepWith(id) # "COMPENSATED"
          BY <2>1 DEF StepWith, Ids
    <2> HIDE DEF id
    <2> QED
        BY <1>1, <1>5, <2>1, <2>2, <2>3 DEF CallAnswered, id
  <1>6. CASE CallFailed
    <2>1. Hold(NextId(sagaState.ids)) \subseteq Ids
          BY DEF Hold
    <2> QED
        BY <1>1, <1>6, <2>1 DEF CallFailed, StartUndoing
  <1>7. CASE CallTooLate
        BY <1>1, <1>7 DEF CallTooLate, StartUndoing
  <1>8. CASE SaveStep
        BY <1>1, <1>8 DEF SaveStep
  <1>9. CASE SaveFailed
        BY <1>1, <1>9 DEF SaveFailed, StartUndoing
  <1>10. CASE UndoAnswered
        BY <1>1, <1>10 DEF UndoAnswered
  <1>11. CASE UndoFailed
        BY <1>1, <1>11 DEF UndoFailed, Abandon
  <1>12. CASE UndoTooLate
        BY <1>1, <1>12 DEF UndoTooLate, Abandon
  <1>13. CASE SaveCompensated
        BY <1>1, <1>13 DEF SaveCompensated, State
  <1>14. CASE SagaDies
        BY <1>1, <1>14 DEF SagaDies, Abandon
  <1>15. CASE SagaResumes
        BY <1>1, <1>15 DEF SagaResumes
  <1>16. CASE LateHold
        BY <1>1, <1>16 DEF LateHold
  <1>17. CASE DeadlineGoesBy
        BY <1>1, <1>17 DEF DeadlineGoesBy
  <1>18. CASE UNCHANGED checkoutSagaVars
        BY <1>18 DEF checkoutSagaVars
  <1> QED
      BY <1>2, <1>3, <1>4, <1>5, <1>6, <1>7, <1>8, <1>9, <1>10, <1>11, <1>12, <1>13,
         <1>14, <1>15, <1>16, <1>17, <1>18 DEF CheckoutSagaNext

\* The row of a checkout saga, its run and what it holds keep their types.
THEOREM CheckoutSagaTypes == CheckoutSagaSpec => []CheckoutSagaTypeOK
  <1>1. CheckoutSagaInv => CheckoutSagaTypeOK
        BY DEF CheckoutSagaInv
  <1> QED
      BY <1>1, CheckoutSagaInitInv, CheckoutSagaStep, PTL DEF CheckoutSagaSpec

\* A checkout saga that says it is compensated holds nothing it ever had an id for, for
\* any number of attempts, deaths and resumptions between its calls and its saves.
THEOREM CompensationIsComplete == CheckoutSagaSpec => []CompensatedHoldsNothing
  <1>1. CheckoutSagaInv => CompensatedHoldsNothing
        BY DEF CheckoutSagaInv
  <1> QED
      BY <1>1, CheckoutSagaInitInv, CheckoutSagaStep, PTL DEF CheckoutSagaSpec
=============================================================================
