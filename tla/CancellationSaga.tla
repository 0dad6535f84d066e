--------------------------- MODULE CancellationSaga ---------------------------
(***************************************************************************)
(* One cancellation-refund saga: its row in saga_states, the runs of        *)
(* execute() for it, which nothing keeps apart, and what its calls have     *)
(* done. The saga is prepared and not yet wired: its ports are external.    *)
(***************************************************************************)
EXTENDS Integers, Sequences

CONSTANTS Runs,          \* executions of the saga, also at the same time
          MaxAttempts,   \* STEP_POLICY.maxAttempts
          Unsaved        \* no row yet

ASSUME SomeAttempt == MaxAttempts \in Nat \ {0}

VARIABLES sagaStep,   \* the step stored in the row
          runAt,      \* where a run is
          runStep,    \* the step in its state
          attempt,    \* attempts of the call it is making
          happened,   \* the calls that have taken effect
          flying,     \* calls given up that may still take effect
          overdue,    \* the deadline, kept in the row, has passed
          paid        \* there is a payment to refund

cancelVars == <<sagaStep, runAt, runStep, attempt, happened, flying, overdue, paid>>

Calls == {"cancel", "release", "refund"}
Steps == {"STARTED", "ORDER_CANCELLED", "STOCK_RELEASED", "REFUNDED", "COMPLETED"}

CancelTypeOK ==
  /\ sagaStep \in Steps \cup {Unsaved}
  /\ runAt \in [Runs -> {"out", "working", "saving", "ended"}]
  /\ runStep \in [Runs -> Steps] /\ attempt \in [Runs -> 1 .. MaxAttempts]
  /\ happened \subseteq Calls /\ flying \subseteq Calls
  /\ overdue \in BOOLEAN /\ paid \in BOOLEAN

CancelInit ==
  /\ sagaStep = Unsaved
  /\ runAt = [r \in Runs |-> "out"] /\ runStep = [r \in Runs |-> "STARTED"]
  /\ attempt = [r \in Runs |-> 1]
  /\ happened = {} /\ flying = {} /\ overdue = FALSE /\ paid \in BOOLEAN

-----------------------------------------------------------------------------
\* The call that a step asks for, and the step saved after it.
CallOf(step) ==
  CASE step = "STARTED" -> "cancel"
    [] step = "ORDER_CANCELLED" -> "release"
    [] step = "STOCK_RELEASED" /\ paid -> "refund"
    [] OTHER -> "none"

StepAfter(step) ==
  CASE step = "STARTED" -> "ORDER_CANCELLED"
    [] step = "ORDER_CANCELLED" -> "STOCK_RELEASED"
    [] step = "STOCK_RELEASED" /\ paid -> "REFUNDED"
    [] OTHER -> "COMPLETED"

RunGoes(r, from, to) == runAt[r] = from /\ runAt' = [runAt EXCEPT ![r] = to]

\* load, or a new state. A new deadline is saved with the first step only.
Load(r) ==
  /\ RunGoes(r, "out", "working")
  /\ runStep' = [runStep EXCEPT ![r] = IF sagaStep = Unsaved THEN "STARTED" ELSE sagaStep]
  /\ UNCHANGED <<sagaStep, attempt, happened, flying, overdue, paid>>

Advance(r) ==
  /\ RunGoes(r, "working", "saving")
  /\ runStep' = [runStep EXCEPT ![r] = StepAfter(@)]
  /\ attempt' = [attempt EXCEPT ![r] = 1]

\* COMPLETED is saved without a call of its own, also when it was the state loaded.
Finish(r) ==
  /\ CallOf(runStep[r]) = "none" /\ Advance(r)
  /\ UNCHANGED <<sagaStep, happened, flying, overdue, paid>>

\* executeSagaStep: the call takes effect and answers in time.
Answered(r) ==
  /\ CallOf(runStep[r]) # "none" /\ ~overdue
  /\ Advance(r)
  /\ happened' = happened \cup {CallOf(runStep[r])}
  /\ UNCHANGED <<sagaStep, flying, overdue, paid>>

NextAttempt(r) ==
  IF attempt[r] < MaxAttempts
  THEN attempt' = [attempt EXCEPT ![r] = @ + 1] /\ UNCHANGED runAt
  ELSE RunGoes(r, "working", "ended") /\ UNCHANGED attempt

\* Mutant: a call that has timed out counts as made.
TimedOutIsDone(r) ==
  /\ CallOf(runStep[r]) # "none" /\ ~overdue
  /\ Advance(r)
  /\ flying' = flying \cup {CallOf(runStep[r])}
  /\ UNCHANGED <<sagaStep, happened, overdue, paid>>

\* It fails, or times out and may take effect later; it is tried again, or thrown.
TimedOut(r) ==
  /\ runAt[r] = "working" /\ CallOf(runStep[r]) # "none" /\ ~overdue
  /\ NextAttempt(r)
  /\ flying' \in {flying, flying \cup {CallOf(runStep[r])}}
  /\ UNCHANGED <<sagaStep, runStep, happened, overdue, paid>>

DeadlineExceeded(r) ==
  /\ overdue /\ CallOf(runStep[r]) # "none" /\ RunGoes(r, "working", "ended")
  /\ UNCHANGED <<sagaStep, runStep, attempt, happened, flying, overdue, paid>>

\* An upsert, whatever another run has stored meanwhile.
Save(r) ==
  /\ RunGoes(r, "saving", IF runStep[r] = "COMPLETED" THEN "ended" ELSE "working")
  /\ sagaStep' = runStep[r]
  /\ UNCHANGED <<runStep, attempt, happened, flying, overdue, paid>>

\* The process dies or the save fails; and the saga may be executed again.
RunDies(r) ==
  /\ runAt[r] \in {"working", "saving"} /\ runAt' = [runAt EXCEPT ![r] = "ended"]
  /\ UNCHANGED <<sagaStep, runStep, attempt, happened, flying, overdue, paid>>

ExecuteAgain(r) ==
  /\ RunGoes(r, "ended", "out") /\ attempt' = [attempt EXCEPT ![r] = 1]
  /\ UNCHANGED <<sagaStep, runStep, happened, flying, overdue, paid>>

LateCall ==
  /\ \E c \in flying : happened' = happened \cup {c} /\ flying' = flying \ {c}
  /\ UNCHANGED <<sagaStep, runAt, runStep, attempt, overdue, paid>>

DeadlinePasses ==
  /\ ~overdue /\ overdue' = TRUE
  /\ UNCHANGED <<sagaStep, runAt, runStep, attempt, happened, flying, paid>>

CancelNext ==
  \/ \E r \in Runs :
       \/ Load(r) \/ Finish(r) \/ Answered(r) \/ TimedOut(r) \/ DeadlineExceeded(r)
       \/ Save(r) \/ RunDies(r) \/ ExecuteAgain(r)
  \/ LateCall \/ DeadlinePasses

CancelSpec == CancelInit /\ [][CancelNext]_cancelVars

-----------------------------------------------------------------------------
Due(step) ==
  CASE step = "ORDER_CANCELLED" -> {"cancel"}
    [] step = "STOCK_RELEASED" -> {"cancel", "release"}
    [] step \in {"REFUNDED", "COMPLETED"} ->
         {"cancel", "release"} \cup (IF paid THEN {"refund"} ELSE {})
    [] OTHER -> {}

\* Whatever the row says has been done has been done, though two runs overwrite each
\* other's rows, attempts are given up and take effect late, and runs die between a
\* call and its save: a saga that is COMPLETED owes the customer nothing.
StoredStepsHappened == sagaStep # Unsaved => Due(sagaStep) \subseteq happened
=============================================================================
