----------------------------- MODULE CheckoutSaga -----------------------------
(***************************************************************************)
(* One checkout saga: its row in saga_states, the run of execute() for it,  *)
(* which may die and be resumed, and what its calls hold. The saga is       *)
(* prepared and not yet wired: its ports are external, and are assumed to   *)
(* take a repeated call of one saga for the same call.                      *)
(***************************************************************************)
EXTENDS Integers, Sequences

CONSTANTS MaxTries,   \* STEP_POLICY.maxAttempts
          NoState     \* no row yet

VARIABLES sagaRow,   \* the state stored: its step and the ids in it
          sagaState, \* the state of the run
          sagaPc,    \* where the run is
          tries,     \* attempts of the call it is making
          left,      \* the ids it has still to undo
          holds,     \* what is reserved, placed and authorized
          vague,     \* of which the run has lost an answer
          expired,   \* the deadline has passed
          payable    \* the payment method is not COD

checkoutSagaVars == <<sagaRow, sagaState, sagaPc, tries, left, holds,
                      vague, expired, payable>>

Ids     == {"reservation", "order", "payment"}
State   == [step : {"STARTED", "STOCK_RESERVED", "ORDER_PLACED", "PAYMENT_AUTHORIZED",
                     "COMPLETED", "COMPENSATED"},
            ids  : SUBSET Ids]
Started == [step |-> "STARTED", ids |-> {}]

ASSUME CheckoutSagaAssumption == MaxTries \in Nat \ {0} /\ NoState \notin State

CheckoutSagaTypeOK ==
  /\ sagaRow \in State \cup {NoState} /\ sagaState \in State
  /\ sagaPc \in {"out", "starting", "calling", "saving", "undoing", "ended"}
  /\ tries \in 1 .. MaxTries /\ left \subseteq Ids
  /\ holds \subseteq Ids /\ vague \subseteq Ids
  /\ expired \in BOOLEAN /\ payable \in BOOLEAN

CheckoutSagaInit ==
  /\ sagaRow = NoState /\ sagaState = Started /\ sagaPc = "out"
  /\ tries = 1 /\ left = {}
  /\ holds = {} /\ vague = {} /\ expired = FALSE /\ payable \in BOOLEAN

-----------------------------------------------------------------------------
\* What the run asks for next, by the ids it has; the last call confirms the order.
NextId(ids) ==
  CASE "reservation" \notin ids -> "reservation"
    [] "order" \notin ids -> "order"
    [] "payment" \notin ids /\ payable -> "payment"
    [] OTHER -> "confirm"

StepWith(id) ==
  CASE id = "reservation" -> "STOCK_RESERVED"
    [] id = "order" -> "ORDER_PLACED"
    [] id = "payment" -> "PAYMENT_AUTHORIZED"
    [] id = "confirm" -> "COMPLETED"

\* compensate() goes backwards.
NextUndo(ids) ==
  CASE "payment" \in ids -> "payment"
    [] "order" \in ids -> "order"
    [] "reservation" \in ids -> "reservation"

Over == sagaRow # NoState /\ sagaRow.step \in {"COMPLETED", "COMPENSATED"}

\* execute(). It is also called to resume a saga that has died; that nobody calls it for
\* one that is over is up to the caller, for the code does not look.
ExecuteSaga ==
  /\ sagaPc = "out" /\ ~Over
  /\ sagaPc' = "starting" /\ tries' = 1
  /\ sagaState' = IF sagaRow = NoState THEN Started ELSE sagaRow
  /\ UNCHANGED <<sagaRow, left, holds, vague, expired, payable>>

\* The first save is outside the try: if it fails nothing is compensated.
SaveStart ==
  /\ sagaPc = "starting" /\ sagaPc' = "calling"
  /\ sagaRow' = sagaState
  /\ UNCHANGED <<sagaState, tries, left, holds, vague, expired, payable>>

StartLost ==
  /\ sagaPc = "starting" /\ sagaPc' = "ended"
  /\ UNCHANGED <<sagaRow, sagaState, tries, left, holds, vague, expired, payable>>

Hold(id) == IF id \in Ids THEN {id} ELSE {}

CallAnswered ==
  LET id == NextId(sagaState.ids) IN
  /\ sagaPc = "calling" /\ sagaPc' = "saving" /\ ~expired
  /\ holds' = holds \cup Hold(id)
  /\ sagaState' = [step |-> StepWith(id), ids |-> sagaState.ids \cup Hold(id)]
  /\ tries' = 1
  /\ UNCHANGED <<sagaRow, left, vague, expired, payable>>

\* The catch block.
StartUndoing(state) == sagaPc' = "undoing" /\ left' = state.ids /\ tries' = 1

\* Mutant: a call is attempted until the deadline.
CallAgain ==
  /\ sagaPc = "calling" /\ ~expired
  /\ tries' = tries + 1
  /\ UNCHANGED <<sagaRow, sagaState, sagaPc, left, holds, vague, expired, payable>>

\* A call that failed or was given up may have taken effect, or do so later.
CallFailed ==
  LET id == NextId(sagaState.ids) IN
  /\ sagaPc = "calling" /\ ~expired
  /\ IF tries < MaxTries THEN tries' = tries + 1 /\ UNCHANGED <<sagaPc, left>>
                         ELSE StartUndoing(sagaState)
  /\ vague' \in {vague, vague \cup Hold(id)}
  /\ UNCHANGED <<sagaRow, sagaState, holds, expired, payable>>

CallTooLate ==
  /\ sagaPc = "calling" /\ expired /\ StartUndoing(sagaState)
  /\ UNCHANGED <<sagaRow, sagaState, holds, vague, expired, payable>>

SaveStep ==
  /\ sagaPc = "saving"
  /\ sagaPc' = IF sagaState.step = "COMPLETED" THEN "ended" ELSE "calling"
  /\ sagaRow' = sagaState
  /\ UNCHANGED <<sagaState, tries, left, holds, vague, expired, payable>>

\* Mutant: what is undone is what the row says.
UndoWhatIsStored ==
  /\ sagaPc = "saving" /\ StartUndoing(sagaRow)
  /\ UNCHANGED <<sagaRow, sagaState, holds, vague, expired, payable>>

\* What has just been answered is undone too, a confirmed order included.
SaveFailed ==
  /\ sagaPc = "saving" /\ StartUndoing(sagaState)
  /\ UNCHANGED <<sagaRow, sagaState, holds, vague, expired, payable>>

UndoAnswered ==
  LET id == NextUndo(left) IN
  /\ sagaPc = "undoing" /\ left # {} /\ ~expired
  /\ left' = left \ {id} /\ holds' = holds \ {id} /\ tries' = 1
  /\ UNCHANGED <<sagaRow, sagaState, sagaPc, vague, expired, payable>>

\* The run ends, and the ids that it had but could not save are gone.
Abandon == sagaPc' = "ended" /\ vague' = vague \cup (sagaState.ids \ sagaRow.ids)

\* An undo that fails or is given up has taken effect or not. The last failure is
\* thrown: the row keeps its step, and the saga can be executed again.
UndoFailed ==
  /\ sagaPc = "undoing" /\ left # {} /\ ~expired
  /\ IF tries < MaxTries THEN tries' = tries + 1 /\ UNCHANGED <<sagaPc, vague>>
                         ELSE Abandon /\ UNCHANGED tries
  /\ holds' \in {holds, holds \ {NextUndo(left)}}
  /\ UNCHANGED <<sagaRow, sagaState, left, expired, payable>>

\* Compensation is under the saga's own deadline.
UndoTooLate ==
  /\ sagaPc = "undoing" /\ left # {} /\ expired /\ Abandon
  /\ UNCHANGED <<sagaRow, sagaState, tries, left, holds, expired, payable>>

SaveCompensated ==
  /\ sagaPc = "undoing" /\ left = {} /\ sagaPc' = "ended"
  /\ sagaRow' = [sagaState EXCEPT !.step = "COMPENSATED"]
  /\ UNCHANGED <<sagaState, tries, left, holds, vague, expired, payable>>

\* The process dies, or the save of COMPENSATED fails.
SagaDies ==
  /\ sagaPc \in {"calling", "saving", "undoing"} /\ Abandon
  /\ UNCHANGED <<sagaRow, sagaState, tries, left, holds, expired, payable>>

SagaResumes ==
  /\ sagaPc = "ended" /\ sagaPc' = "out"
  /\ UNCHANGED <<sagaRow, sagaState, tries, left, holds, vague, expired, payable>>

LateHold ==
  /\ \E id \in vague : holds' = holds \cup {id}
  /\ UNCHANGED <<sagaRow, sagaState, sagaPc, tries, left, vague, expired, payable>>

DeadlineGoesBy ==
  /\ ~expired /\ expired' = TRUE
  /\ UNCHANGED <<sagaRow, sagaState, sagaPc, tries, left, holds, vague, payable>>

CheckoutSagaNext ==
  \/ ExecuteSaga \/ SaveStart \/ StartLost
  \/ CallAnswered \/ CallFailed \/ CallTooLate \/ SaveStep \/ SaveFailed
  \/ UndoAnswered \/ UndoFailed \/ UndoTooLate \/ SaveCompensated
  \/ SagaDies \/ SagaResumes \/ LateHold \/ DeadlineGoesBy

CheckoutSagaSpec == CheckoutSagaInit /\ [][CheckoutSagaNext]_checkoutSagaVars

-----------------------------------------------------------------------------
\* Nothing stays reserved, placed or authorized for a saga that is COMPENSATED, also
\* when it died and was resumed or could not save a step; except what the saga
\* never got an id for, because no attempt was answered or it died with the answer.
CompensatedHoldsNothing ==
  sagaRow # NoState /\ sagaRow.step = "COMPENSATED" => holds \subseteq vague
=============================================================================
