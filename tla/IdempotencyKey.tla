---------------------------- MODULE IdempotencyKey ----------------------------
(***************************************************************************)
(* The requests that carry one Idempotency-Key, and the Redis cell of that  *)
(* key. Redis commands are applied one at a time; a request waits a second  *)
(* for each, answers 503, and its command may still be applied afterwards.  *)
(***************************************************************************)
EXTENDS Integers, FiniteSets

CONSTANTS Requests, BodyOf,   \* BodyOf[r]: what the hash of the request stands for
          Unset               \* no value at the key; nothing replayed

VARIABLES cell,       \* the value at the key: whose it is, and its state
          reqAt,      \* where a request is
          renewing,   \* requests whose lease timer runs
          late,       \* requests that no longer wait for their SET NX, not yet applied
          settling,   \* the script sent with a handler's answer, not yet applied
          replayOf,   \* replayOf[r]: whose answer r was given instead of running
          forgotten   \* requests whose claim or answer has expired

keyVars == <<cell, reqAt, renewing, late, settling, replayOf, forgotten>>

Cell     == [by : Requests, state : {"IN_PROGRESS", "COMPLETED"}]

ASSUME UnsetIsNoCell == Unset \notin Cell /\ Unset \notin Requests

ReqStates == {"look", "claim", "lookAgain", "running", "succeeded", "failed",
              "replayed", "refused", "unavailable", "dead"}

KeyTypeOK ==
  /\ cell \in Cell \cup {Unset} /\ reqAt \in [Requests -> ReqStates]
  /\ renewing \subseteq Requests /\ late \subseteq Requests
  /\ settling \in [Requests -> {"nothing", "complete", "delete"}]
  /\ replayOf \in [Requests -> Requests \cup {Unset}] /\ forgotten \subseteq Requests

KeyInit ==
  /\ cell = Unset /\ reqAt = [r \in Requests |-> "look"]
  /\ renewing = {} /\ late = {} /\ settling = [r \in Requests |-> "nothing"]
  /\ replayOf = [r \in Requests |-> Unset] /\ forgotten = {}

Goes(r, from, to) == reqAt[r] = from /\ reqAt' = [reqAt EXCEPT ![r] = to]

InProgress(r) == [by |-> r, state |-> "IN_PROGRESS"]
Completed(r)  == [by |-> r, state |-> "COMPLETED"]

-----------------------------------------------------------------------------
\* Another body under the same key and a request in progress are both refused.
ReplayOrReject(r, from) ==
  /\ cell # Unset
  /\ IF cell.state = "COMPLETED" /\ BodyOf[cell.by] = BodyOf[r]
     THEN Goes(r, from, "replayed") /\ replayOf' = [replayOf EXCEPT ![r] = cell.by]
     ELSE Goes(r, from, "refused") /\ UNCHANGED replayOf
  /\ UNCHANGED <<cell, renewing, late, settling, forgotten>>

Look(r) ==
  \/ ReplayOrReject(r, "look")
  \/ /\ cell = Unset /\ Goes(r, "look", "claim")
     /\ UNCHANGED <<cell, renewing, late, settling, replayOf, forgotten>>

\* Mutant: SET without NX.
ClaimAnyway(r) ==
  /\ Goes(r, "claim", "running")
  /\ cell' = InProgress(r) /\ renewing' = renewing \cup {r}
  /\ UNCHANGED <<late, settling, replayOf, forgotten>>

Claim(r) ==
  IF cell = Unset
  THEN /\ Goes(r, "claim", "running")
       /\ cell' = InProgress(r) /\ renewing' = renewing \cup {r}
       /\ UNCHANGED <<late, settling, replayOf, forgotten>>
  ELSE /\ Goes(r, "claim", "lookAgain")
       /\ UNCHANGED <<cell, renewing, late, settling, replayOf, forgotten>>

LookAgain(r) ==
  \/ ReplayOrReject(r, "lookAgain")
  \/ /\ cell = Unset /\ Goes(r, "lookAgain", "refused")
     /\ UNCHANGED <<cell, renewing, late, settling, replayOf, forgotten>>

\* boundedRedis gives up: nothing runs, but a claim that was sent stays in the queue.
GiveUp(r) ==
  /\ reqAt[r] \in {"look", "claim", "lookAgain"}
  /\ Goes(r, reqAt[r], "unavailable")
  /\ late' = IF reqAt[r] = "claim" THEN late \cup {r} ELSE late
  /\ UNCHANGED <<cell, renewing, settling, replayOf, forgotten>>

ApplyLate(r) ==
  /\ r \in late /\ late' = late \ {r}
  /\ cell' = IF cell = Unset THEN InProgress(r) ELSE cell
  /\ UNCHANGED <<reqAt, renewing, settling, replayOf, forgotten>>

\* res.json: the timer stops and the script is sent, but the answer does not wait.
Respond(r, to, script) ==
  /\ Goes(r, "running", to)
  /\ renewing' = renewing \ {r}
  /\ settling' = [settling EXCEPT ![r] = script]
  /\ UNCHANGED <<cell, late, replayOf, forgotten>>

Succeed(r) == Respond(r, "succeeded", "complete")
Fail(r)    == Respond(r, "failed", "delete")

\* Mutant: an answer is stored whoever holds the key.
SettleAnyway(r) ==
  /\ settling[r] # "nothing"
  /\ settling' = [settling EXCEPT ![r] = "nothing"]
  /\ cell' = IF settling[r] = "complete" THEN Completed(r) ELSE Unset
  /\ UNCHANGED <<reqAt, renewing, late, replayOf, forgotten>>

\* COMPLETE_IF_OWNER and DELETE_IF_OWNER.
Settle(r) ==
  /\ settling[r] # "nothing"
  /\ settling' = [settling EXCEPT ![r] = "nothing"]
  /\ cell' = IF cell # InProgress(r) THEN cell
             ELSE IF settling[r] = "complete" THEN Completed(r) ELSE Unset
  /\ UNCHANGED <<reqAt, renewing, late, replayOf, forgotten>>

\* The script fails or is lost: it is logged, and never sent again.
SettleLost(r) ==
  /\ settling[r] # "nothing"
  /\ settling' = [settling EXCEPT ![r] = "nothing"]
  /\ UNCHANGED <<cell, reqAt, renewing, late, replayOf, forgotten>>

\* The client has gone, or a renewal failed or came too late: the timer is cleared, and
\* the handler runs on.
StopRenewing(r) ==
  /\ reqAt[r] = "running" /\ r \in renewing
  /\ renewing' = renewing \ {r}
  /\ UNCHANGED <<cell, reqAt, late, settling, replayOf, forgotten>>

DieRunning(r) ==
  /\ Goes(r, "running", "dead")
  /\ renewing' = renewing \ {r}
  /\ UNCHANGED <<cell, late, settling, replayOf, forgotten>>

\* A claim that nobody renews expires after a minute, an answer after IDEMPOTENCY_TTL.
Expire ==
  /\ cell # Unset
  /\ cell.by \notin renewing
  /\ forgotten' = forgotten \cup {cell.by}
  /\ cell' = Unset
  /\ UNCHANGED <<reqAt, renewing, late, settling, replayOf>>

KeyNext ==
  \/ \E r \in Requests :
       \/ Look(r) \/ Claim(r) \/ LookAgain(r) \/ GiveUp(r) \/ ApplyLate(r)
       \/ Succeed(r) \/ Fail(r) \/ Settle(r) \/ SettleLost(r)
       \/ StopRenewing(r) \/ DieRunning(r)
  \/ Expire

KeySpec == KeyInit /\ [][KeyNext]_keyVars

-----------------------------------------------------------------------------
\* Of the requests with one key at most one runs or has succeeded, as long as its
\* claim and its answer have not expired: also when another one's claim has expired
\* and its owner still runs, answers, and deletes or completes the claim it had.
RunsOnce ==
  \A r, s \in Requests :
    /\ r # s
    /\ {reqAt[r], reqAt[s]} \subseteq {"running", "succeeded"}
    => forgotten \cap {r, s} # {}

\* An answer that has been replayed is the one to be replayed until it expires: no
\* handler whose claim ran out earlier overwrites or deletes it when it ends, and
\* no claim of a request that has given up takes its place.
AnswerLasts ==
  \A r \in Requests :
    replayOf[r] # Unset /\ replayOf[r] \notin forgotten => cell = Completed(replayOf[r])
=============================================================================
