---------------------------- MODULE ServicesProofs ----------------------------
(***************************************************************************)
(* Proofs about a server's requests under an idempotency key, its shutdown *)
(* and its backups, for every set of requests, any bodies and any bounds;  *)
(* and about the instance that puts the smaller components side by side.   *)
(***************************************************************************)
EXTENDS MCServices, SagaProofs, UserProofs

-----------------------------------------------------------------------------
(* Idempotency keys.                                                         *)

\* A request that runs or has succeeded owns the key until its value expires, and a
\* script that is under way belongs to a request that has ended accordingly.
OwnersHoldKey ==
  \A r \in Requests :
    reqAt[r] \in {"running", "succeeded"} /\ r \notin forgotten
      => cell # Unset /\ cell.by = r

ScriptsFit ==
  \A r \in Requests : settling[r] = "delete" => reqAt[r] = "failed"

KeyInv == KeyTypeOK /\ OwnersHoldKey /\ ScriptsFit /\ AnswerLasts

-----------------------------------------------------------------------------
LEMMA KeyInitInv == KeyInit => KeyInv
  <1> SUFFICES ASSUME KeyInit
               PROVE  KeyInv
      OBVIOUS
  <1>1. KeyTypeOK
        BY DEF KeyInit, KeyTypeOK, ReqStates
  <1> QED
      BY <1>1 DEF KeyInit, KeyInv, OwnersHoldKey, ScriptsFit, AnswerLasts

\* A request that moves without touching the key, to a state in which it owns nothing.
LEMMA MovesOn ==
  ASSUME KeyInv, NEW r \in Requests, NEW a \in ReqStates,
         NEW b \in ReqStates \ {"running", "succeeded"},
         Goes(r, a, b), a # "failed",
         UNCHANGED <<cell, settling, forgotten>>
  PROVE  OwnersHoldKey' /\ ScriptsFit' /\ reqAt' \in [Requests -> ReqStates]
  <1>1. /\ reqAt' \in [Requests -> ReqStates]
        /\ reqAt[r] # "failed" /\ reqAt'[r] = b
        /\ \A s \in Requests \ {r} : reqAt'[s] = reqAt[s]
        BY DEF Goes, KeyInv, KeyTypeOK
  <1>2. OwnersHoldKey'
        BY <1>1 DEF KeyInv, OwnersHoldKey
  <1>3. ScriptsFit'
        BY <1>1 DEF KeyInv, ScriptsFit
  <1> QED
      BY <1>1, <1>2, <1>3

\* A replay gives the answer that is stored at the key.
LEMMA ReplayKeeps ==
  ASSUME KeyInv, NEW r \in Requests, NEW a \in {"look", "lookAgain"}, ReplayOrReject(r, a)
  PROVE  KeyInv'
  <1>1. /\ cell \in Cell /\ cell.by \in Requests
        /\ UNCHANGED <<cell, renewing, late, settling, forgotten>>
        BY DEF ReplayOrReject, KeyInv, KeyTypeOK, Cell
  <1>2. CASE /\ cell.state = "COMPLETED" /\ Goes(r, a, "replayed")
             /\ replayOf' = [replayOf EXCEPT ![r] = cell.by]
    <2>1. cell = Completed(cell.by)
          BY <1>1, <1>2 DEF Completed, Cell
    <2>2. AnswerLasts'
          BY <1>1, <1>2, <2>1 DEF KeyInv, KeyTypeOK, AnswerLasts, Completed
    <2>3. OwnersHoldKey' /\ ScriptsFit' /\ reqAt' \in [Requests -> ReqStates]
          BY <1>1, <1>2, MovesOn DEF ReqStates
    <2> QED
        BY <1>1, <1>2, <2>2, <2>3 DEF KeyInv, KeyTypeOK
  <1>3. CASE Goes(r, a, "refused") /\ UNCHANGED replayOf
    <2>1. OwnersHoldKey' /\ ScriptsFit' /\ reqAt' \in [Requests -> ReqStates]
          BY <1>1, <1>3, MovesOn DEF ReqStates
    <2> QED
        BY <1>1, <1>3, <2>1 DEF KeyInv, KeyTypeOK, AnswerLasts, Completed
  <1> QED
      BY <1>2, <1>3 DEF ReplayOrReject

\* A handler answers or dies: its script, if any, fits how it has ended.
LEMMA RespondKeeps ==
  ASSUME KeyInv, NEW r \in Requests,
         Respond(r, "succeeded", "complete") \/ Respond(r, "failed", "delete")
  PROVE  KeyInv'
  <1>1. /\ reqAt[r] = "running" /\ renewing' = renewing \ {r}
        /\ UNCHANGED <<cell, late, replayOf, forgotten>>
        BY DEF Respond, Goes
  <1>2. \/ /\ reqAt' = [reqAt EXCEPT ![r] = "succeeded"]
           /\ settling' = [settling EXCEPT ![r] = "complete"]
        \/ /\ reqAt' = [reqAt EXCEPT ![r] = "failed"]
           /\ settling' = [settling EXCEPT ![r] = "delete"]
        BY DEF Respond, Goes
  <1>3. KeyTypeOK'
        BY <1>1, <1>2 DEF KeyInv, KeyTypeOK, ReqStates
  <1>4. OwnersHoldKey'
        BY <1>1, <1>2 DEF KeyInv, KeyTypeOK, OwnersHoldKey
  <1>5. ScriptsFit'
        BY <1>1, <1>2 DEF KeyInv, KeyTypeOK, ScriptsFit
  <1> QED
      BY <1>1, <1>3, <1>4, <1>5 DEF KeyInv, AnswerLasts, Completed

\* A key that was empty had no owner whose claim or answer has not expired.
LEMMA ClaimKeeps ==
  ASSUME KeyInv, NEW r \in Requests, cell = Unset, cell' = InProgress(r),
         UNCHANGED <<settling, replayOf, forgotten>>, KeyTypeOK',
         \A s \in Requests : s # r => reqAt'[s] = reqAt[s],
         settling[r] # "delete" \/ reqAt'[r] = reqAt[r]
  PROVE  KeyInv'
  <1>1. InProgress(r) \in Cell /\ InProgress(r).by = r
        BY DEF InProgress, Cell
  <1>2. OwnersHoldKey'
        BY <1>1, UnsetIsNoCell DEF KeyInv, OwnersHoldKey
  <1>3. ScriptsFit'
        BY DEF KeyInv, ScriptsFit
  <1>4. AnswerLasts'
    <2>1. \A s \in Requests : replayOf[s] # Unset => Completed(replayOf[s]) # Unset
          BY UnsetIsNoCell DEF KeyInv, KeyTypeOK, Completed, Cell
    <2> QED
        BY <2>1 DEF KeyInv, AnswerLasts, Completed
  <1> QED
      BY <1>2, <1>3, <1>4 DEF KeyInv

\* A script changes the claim of its own request only.
LEMMA SettleKeeps ==
  ASSUME KeyInv, NEW r \in Requests, Settle(r)
  PROVE  KeyInv'
  <1>1. /\ settling' = [settling EXCEPT ![r] = "nothing"]
        /\ UNCHANGED <<reqAt, renewing, late, replayOf, forgotten>>
        /\ cell' = IF cell # InProgress(r) THEN cell
                   ELSE IF settling[r] = "complete" THEN Completed(r) ELSE Unset
        /\ settling[r] \in {"complete", "delete"}
        BY DEF Settle, KeyInv, KeyTypeOK
  <1>2. ScriptsFit'
        BY <1>1 DEF KeyInv, KeyTypeOK, ScriptsFit
  <1>3. /\ InProgress(r).by = r /\ Completed(r).by = r
        /\ Completed(r) \in Cell /\ InProgress(r) \in Cell
        BY DEF InProgress, Completed, Cell
  <1>4. KeyTypeOK'
        BY <1>1, <1>3 DEF KeyInv, KeyTypeOK
  <1>5. OwnersHoldKey'
    <2>1. CASE cell # InProgress(r)
          BY <1>1, <2>1 DEF KeyInv, OwnersHoldKey
    <2>2. CASE cell = InProgress(r) /\ settling[r] = "complete"
          BY <1>1, <1>3, <2>2, UnsetIsNoCell DEF KeyInv, OwnersHoldKey
    <2>3. CASE cell = InProgress(r) /\ settling[r] = "delete"
      <3>1. reqAt[r] = "failed"
            BY <2>3 DEF KeyInv, ScriptsFit
      <3> QED
          BY <1>1, <1>3, <2>3, <3>1 DEF KeyInv, OwnersHoldKey
    <2> QED
        BY <1>1, <2>1, <2>2, <2>3
  <1>6. AnswerLasts'
    <2>1. \A s : Completed(s) # InProgress(r)
          BY DEF Completed, InProgress
    <2>2. \A s \in Requests : replayOf[s] # Unset /\ replayOf[s] \notin forgotten
            => cell = Completed(replayOf[s])
          BY DEF KeyInv, AnswerLasts
    <2> QED
        BY <1>1, <2>1, <2>2 DEF AnswerLasts, Completed
  <1> QED
      BY <1>2, <1>4, <1>5, <1>6 DEF KeyInv

-----------------------------------------------------------------------------
LEMMA KeyStep == KeyInv /\ [KeyNext]_keyVars => KeyInv'
  <1> SUFFICES ASSUME KeyInv, [KeyNext]_keyVars
               PROVE  KeyInv'
      OBVIOUS
  <1> USE DEF ReqStates
  <1>1. ASSUME NEW r \in Requests, NEW a \in {"look", "claim", "lookAgain", "running"},
               NEW b \in {"claim", "lookAgain", "refused", "unavailable", "dead"},
               Goes(r, a, b), UNCHANGED <<cell, settling, replayOf, forgotten>>,
               renewing' \subseteq renewing, late' \subseteq Requests
        PROVE  KeyInv'
    <2>1. OwnersHoldKey' /\ ScriptsFit' /\ reqAt' \in [Requests -> ReqStates]
          BY <1>1, MovesOn
    <2> QED
        BY <1>1, <2>1 DEF KeyInv, KeyTypeOK, AnswerLasts, Completed
  <1>2. ASSUME NEW r \in Requests, Look(r)
        PROVE  KeyInv'
        BY <1>1, <1>2, ReplayKeeps DEF Look, KeyInv, KeyTypeOK
  <1>3. ASSUME NEW r \in Requests, Claim(r)
        PROVE  KeyInv'
    <2>1. CASE cell = Unset
      <3>1. /\ reqAt[r] = "claim" /\ reqAt' = [reqAt EXCEPT ![r] = "running"]
            /\ cell' = InProgress(r) /\ renewing' = renewing \cup {r}
            /\ UNCHANGED <<late, settling, replayOf, forgotten>>
            BY <1>3, <2>1 DEF Claim, Goes
      <3>2. KeyTypeOK'
            BY <3>1 DEF KeyInv, KeyTypeOK, InProgress, Cell
      <3>3. settling[r] # "delete"
            BY <3>1 DEF KeyInv, ScriptsFit
      <3>4. \A s \in Requests : s # r => reqAt'[s] = reqAt[s]
            BY <3>1 DEF KeyInv, KeyTypeOK
      <3> QED
          BY <2>1, <3>1, <3>2, <3>3, <3>4, ClaimKeeps
    <2>2. CASE cell # Unset
          BY <1>1, <1>3, <2>2 DEF Claim, KeyInv, KeyTypeOK
    <2> QED
        BY <2>1, <2>2
  <1>4. ASSUME NEW r \in Requests, LookAgain(r)
        PROVE  KeyInv'
        BY <1>1, <1>4, ReplayKeeps DEF LookAgain, KeyInv, KeyTypeOK
  <1>5. ASSUME NEW r \in Requests, GiveUp(r)
        PROVE  KeyInv'
        BY <1>1, <1>5 DEF GiveUp, KeyInv, KeyTypeOK
  <1>6. ASSUME NEW r \in Requests, ApplyLate(r)
        PROVE  KeyInv'
    <2>1. /\ late' = late \ {r}
          /\ cell' = IF cell = Unset THEN InProgress(r) ELSE cell
          /\ UNCHANGED <<reqAt, renewing, settling, replayOf, forgotten>>
          BY <1>6 DEF ApplyLate
    <2>2. KeyTypeOK'
          BY <2>1 DEF KeyInv, KeyTypeOK, InProgress, Cell
    <2>3. CASE cell = Unset
          BY <2>1, <2>2, <2>3, ClaimKeeps
    <2>4. CASE cell # Unset
          BY <2>1, <2>2, <2>4 DEF KeyInv, OwnersHoldKey, ScriptsFit, AnswerLasts, Completed
    <2> QED
        BY <2>3, <2>4
  <1>7. ASSUME NEW r \in Requests, Succeed(r) \/ Fail(r)
        PROVE  KeyInv'
        BY <1>7, RespondKeeps DEF Succeed, Fail
  <1>8. ASSUME NEW r \in Requests, Settle(r)
        PROVE  KeyInv'
        BY <1>8, SettleKeeps
  <1>9. ASSUME NEW r \in Requests, SettleLost(r)
        PROVE  KeyInv'
        BY <1>9 DEF SettleLost, KeyInv, KeyTypeOK, OwnersHoldKey, ScriptsFit, AnswerLasts,
                    Completed
  <1>10. ASSUME NEW r \in Requests, StopRenewing(r)
         PROVE  KeyInv'
         BY <1>10 DEF StopRenewing, KeyInv, KeyTypeOK, OwnersHoldKey, ScriptsFit, AnswerLasts,
                      Completed
  <1>11. ASSUME NEW r \in Requests, DieRunning(r)
         PROVE  KeyInv'
         BY <1>1, <1>11 DEF DieRunning, KeyInv, KeyTypeOK
  <1>12. CASE Expire
    <2>1. /\ cell \in Cell /\ cell' = Unset /\ forgotten' = forgotten \cup {cell.by}
          /\ UNCHANGED <<reqAt, renewing, late, settling, replayOf>>
          BY <1>12 DEF Expire, KeyInv, KeyTypeOK
    <2>2. KeyTypeOK'
          BY <2>1 DEF KeyInv, KeyTypeOK, Cell
    <2>3. OwnersHoldKey' /\ ScriptsFit'
          BY <2>1 DEF KeyInv, OwnersHoldKey, ScriptsFit
    <2>4. AnswerLasts'
      <3>1. \A s : Completed(s).by = s
            BY DEF Completed
      <3> QED
          BY <2>1, <3>1 DEF KeyInv, AnswerLasts, Completed
    <2> QED
        BY <2>2, <2>3, <2>4 DEF KeyInv
  <1>13. CASE UNCHANGED keyVars
         BY <1>13 DEF keyVars, KeyInv, KeyTypeOK, OwnersHoldKey, ScriptsFit, AnswerLasts,
                      Completed
  <1> QED
      BY <1>2, <1>3, <1>4, <1>5, <1>6, <1>7, <1>8, <1>9, <1>10, <1>11, <1>12, <1>13
      DEF KeyNext

LEMMA KeyInvariant == KeySpec => []KeyInv
  BY KeyInitInv, KeyStep, PTL DEF KeySpec

-----------------------------------------------------------------------------
\* The value at the key, the requests and what they have sent keep their types.
THEOREM KeyTypes == KeySpec => []KeyTypeOK
  <1>1. KeyInv => KeyTypeOK
        BY DEF KeyInv
  <1> QED
      BY <1>1, KeyInvariant, PTL

\* Of any number of requests with one key, at most one runs or has succeeded while its
\* claim and its answer last: expired claims, late commands and scripts of others do
\* not let a second one in (idempotency, CLAIM and the owner scripts).
THEOREM KeyRunsOnce == KeySpec => []RunsOnce
  <1>1. KeyInv => RunsOnce
        BY DEF KeyInv, OwnersHoldKey, RunsOnce
  <1> QED
      BY <1>1, KeyInvariant, PTL

\* A replayed answer stays at the key until it expires (COMPLETE_IF_OWNER and
\* DELETE_IF_OWNER, whichever request they come from, and however late).
THEOREM KeyAnswerLasts == KeySpec => []AnswerLasts
  <1>1. KeyInv => AnswerLasts
        BY DEF KeyInv
  <1> QED
      BY <1>1, KeyInvariant, PTL

-----------------------------------------------------------------------------
(* One server process.                                                       *)

\* What each stage of the shutdown has stopped for good.
StagesHold ==
  /\ phase \in {"stopRelay", "closeServer", "stopQueue", "stopTracing", "disconnect", "quit",
                "finish", "exit0"} => ~ticking
  /\ phase \in {"closeServer", "stopQueue", "stopTracing", "disconnect", "quit", "finish",
                "exit0"} => ~polling /\ ~listening
  /\ phase \in {"stopQueue", "stopTracing", "disconnect", "quit", "finish", "exit0"} =>
       requests = 0 /\ ~workers
  /\ phase \in {"stopTracing", "disconnect", "quit", "finish", "exit0"} => jobs = 0

LEMMA StagesInit == ServerInit => StagesHold
  BY DEF ServerInit, StagesHold

LEMMA StagesStep == StagesHold /\ [ServerNext]_serverVars => StagesHold'
  <1> SUFFICES ASSUME StagesHold, [ServerNext]_serverVars
               PROVE  StagesHold'
      OBVIOUS
  <1> USE DEF StagesHold, links, intake, work, control
  <1>1. CASE Connect \/ Ping \/ Serve \/ StartFails \/ CleanUp
        BY <1>1 DEF Connect, Ping, Serve, StartFails, CleanUp
  <1>2. CASE Work
        BY <1>2 DEF Work, Poll, PollEnds, Accept, Reply, TakeJob, JobEnds
  <1>3. ASSUME NEW s \in Signals, Signal(s)
        PROVE  StagesHold'
        BY <1>3 DEF Signal
  <1>4. CASE RelayStopped \/ ServerClosed \/ QueueStopped \/ TracingStopped
        BY <1>4 DEF RelayStopped, ServerClosed, QueueStopped, TracingStopped
  <1>5. CASE Disconnect \/ Quit \/ Leave \/ ShutdownFails \/ ForceExit
        BY <1>5 DEF Disconnect, Quit, Leave, ShutdownFails, ForceExit
  <1>6. CASE UNCHANGED serverVars
        BY <1>6 DEF serverVars
  <1> QED
      BY <1>1, <1>2, <1>3, <1>4, <1>5, <1>6 DEF ServerNext

\* For any number of requests and jobs: a shutdown that is not forced disconnects from
\* the database only when nothing uses it or can start to (shutdown in server.ts).
THEOREM DatabaseIsLast == ServerSpec => []DatabaseOutlivesWork
  <1>1. StagesHold => DatabaseOutlivesWork
        BY DEF StagesHold, DatabaseOutlivesWork
  <1> QED
      BY <1>1, StagesInit, StagesStep, PTL DEF ServerSpec

\* Flags are flags, and counts are within their bounds.
Flags == {database, store, listening, workers, ticking, polling, forceTimer}

LEMMA FlagsTyped ==
  Flags \subseteq BOOLEAN
    <=> /\ database \in BOOLEAN /\ store \in BOOLEAN /\ listening \in BOOLEAN
        /\ workers \in BOOLEAN /\ ticking \in BOOLEAN /\ polling \in BOOLEAN
        /\ forceTimer \in BOOLEAN
  BY Zenon DEF Flags

LEMMA ServerTypesInit == ServerInit => ServerTypeOK
  <1> SUFFICES ASSUME ServerInit
               PROVE  ServerTypeOK
      OBVIOUS
  <1>1. Flags \subseteq BOOLEAN
        BY Zenon DEF ServerInit, Flags
  <1> QED
      BY <1>1, ServerAssumption DEF ServerInit, ServerTypeOK, Flags

\* What is not a flag.
CountsTyped ==
  /\ phase \in {"connect", "ping", "serve", "running", "cleanUp"} \cup Closing \cup Exits
  /\ requests \in 0 .. MaxRequests /\ jobs \in 0 .. MaxJobs /\ untaken \subseteq Signals

LEMMA CountsStep == CountsTyped /\ [ServerNext]_serverVars => CountsTyped'
  <1> SUFFICES ASSUME CountsTyped, [ServerNext]_serverVars
               PROVE  CountsTyped'
      OBVIOUS
  <1> USE ServerAssumption DEF CountsTyped, links, intake, work, control, Closing, Exits
  <1>1. CASE Connect \/ Ping \/ Serve \/ StartFails \/ CleanUp
        BY <1>1 DEF Connect, Ping, Serve, StartFails, CleanUp
  <1>2. CASE Work
    <2>1. UNCHANGED <<phase, untaken>>
          BY <1>2 DEF Work
    <2>2. requests' \in 0 .. MaxRequests /\ jobs' \in 0 .. MaxJobs
          BY <1>2 DEF Work, Poll, PollEnds, Accept, Reply, TakeJob, JobEnds
    <2> QED
        BY <2>1, <2>2
  <1>3. ASSUME NEW s \in Signals, Signal(s)
        PROVE  CountsTyped'
        BY <1>3 DEF Signal
  <1>4. CASE RelayStopped \/ ServerClosed \/ QueueStopped \/ TracingStopped
        BY <1>4 DEF RelayStopped, ServerClosed, QueueStopped, TracingStopped
  <1>5. CASE Disconnect \/ Quit \/ Leave \/ ShutdownFails \/ ForceExit
        BY <1>5 DEF Disconnect, Quit, Leave, ShutdownFails, ForceExit
  <1>6. CASE UNCHANGED serverVars
        BY <1>6 DEF serverVars
  <1> QED
      BY <1>1, <1>2, <1>3, <1>4, <1>5, <1>6 DEF ServerNext

LEMMA FlagsStep == Flags \subseteq BOOLEAN /\ [ServerNext]_serverVars => (Flags \subseteq BOOLEAN)'
  <1> SUFFICES ASSUME [ServerNext]_serverVars,
                      /\ database \in BOOLEAN /\ store \in BOOLEAN /\ listening \in BOOLEAN
                      /\ workers \in BOOLEAN /\ ticking \in BOOLEAN /\ polling \in BOOLEAN
                      /\ forceTimer \in BOOLEAN
               PROVE  /\ database' \in BOOLEAN /\ store' \in BOOLEAN /\ listening' \in BOOLEAN
                      /\ workers' \in BOOLEAN /\ ticking' \in BOOLEAN /\ polling' \in BOOLEAN
                      /\ forceTimer' \in BOOLEAN
    <2>1. Flags \subseteq BOOLEAN
            => /\ database \in BOOLEAN /\ store \in BOOLEAN /\ listening \in BOOLEAN
               /\ workers \in BOOLEAN /\ ticking \in BOOLEAN /\ polling \in BOOLEAN
               /\ forceTimer \in BOOLEAN
          BY FlagsTyped
    <2> QED
        BY <2>1, Zenon DEF Flags
  <1> USE DEF links, intake, work, control
  <1>1. CASE Connect \/ Ping \/ Serve \/ StartFails \/ CleanUp
        BY <1>1 DEF Connect, Ping, Serve, StartFails, CleanUp
  <1>2. CASE Work
        BY <1>2 DEF Work, Poll, PollEnds, Accept, Reply, TakeJob, JobEnds
  <1>3. ASSUME NEW s \in Signals, Signal(s)
        PROVE  /\ database' \in BOOLEAN /\ store' \in BOOLEAN /\ listening' \in BOOLEAN
               /\ workers' \in BOOLEAN /\ ticking' \in BOOLEAN /\ polling' \in BOOLEAN
               /\ forceTimer' \in BOOLEAN
        BY <1>3 DEF Signal
  <1>4. CASE RelayStopped \/ ServerClosed \/ QueueStopped \/ TracingStopped
        BY <1>4 DEF RelayStopped, ServerClosed, QueueStopped, TracingStopped
  <1>5. CASE Disconnect \/ Quit \/ Leave \/ ShutdownFails \/ ForceExit
        BY <1>5 DEF Disconnect, Quit, Leave, ShutdownFails, ForceExit
  <1>6. CASE UNCHANGED serverVars
        BY <1>6 DEF serverVars
  <1> QED
      BY <1>1, <1>2, <1>3, <1>4, <1>5, <1>6 DEF ServerNext

LEMMA ServerTypesStep == ServerTypeOK /\ [ServerNext]_serverVars => ServerTypeOK'
  <1>1. ServerTypeOK <=> Flags \subseteq BOOLEAN /\ CountsTyped
        BY DEF ServerTypeOK, Flags, CountsTyped
  <1>2. ServerTypeOK' <=> (Flags \subseteq BOOLEAN)' /\ CountsTyped'
        BY <1>1, PTL
  <1> QED
      BY <1>1, <1>2, CountsStep, FlagsStep

\* The phase, the links, the intake and the work of a server keep their types.
THEOREM ServerTypes == ServerSpec => []ServerTypeOK
  BY ServerTypesInit, ServerTypesStep, PTL DEF ServerSpec

-----------------------------------------------------------------------------
(* The portfolio backup.                                                     *)

Restoring == {"decrypt", "start", "restore", "query", "vouch"}

\* A run works on an archive, which is there once it is to be restored, and has no
\* receipt then.
RunHasArchive ==
  /\ backupPc # "idle" => chosen \in Archives
  /\ backupPc \in {"forget"} \cup Restoring => disk[chosen] # "none"
  /\ backupPc \in Restoring => chosen \notin receipt

ArchivesMarked ==
  /\ disk \in [Archives -> {"none", "whole", "spoiled"}]
  /\ verdict \in [Archives -> {"none", "begun", "failed", "passed"}]
  /\ receipt \subseteq Archives

BackupInv == ArchivesMarked /\ RunHasArchive /\ ReceiptIsOfLastRun

LEMMA BackupInitInv == BackupInit => BackupInv
  BY DEF BackupInit, BackupInv, ArchivesMarked, RunHasArchive, ReceiptIsOfLastRun, Restoring

LEMMA BackupStep == BackupInv /\ [BackupNext]_backupVars => BackupInv'
  <1> SUFFICES ASSUME BackupInv, [BackupNext]_backupVars
               PROVE  BackupInv'
      OBVIOUS
  <1> USE DEF BackupInv, ArchivesMarked, RunHasArchive, ReceiptIsOfLastRun, Restoring,
              BackupGoes
  <1>1. ASSUME NEW a \in Archives, StartBackup(a) \/ StartVerify(a)
        PROVE  BackupInv'
        BY <1>1 DEF StartBackup, StartVerify
  <1>2. ASSUME NEW a \in Archives, Spoil(a)
        PROVE  BackupInv'
        BY <1>2 DEF Spoil
  <1>3. CASE Dump \/ Encrypt \/ Decrypt \/ StartTarget \/ Restore \/ Query
        BY <1>3 DEF Dump, Encrypt, Decrypt, StartTarget, Restore, Query
  <1>4. CASE Publish
        BY <1>4 DEF Publish
  <1>5. CASE RemoveReceipt
        BY <1>5 DEF RemoveReceipt
  <1>6. CASE WriteReceipt
        BY <1>6 DEF WriteReceipt, CleanedUp
  <1>7. CASE RunFails
        BY <1>7 DEF RunFails, CleanedUp
  <1>8. CASE RunKilled
        BY <1>8 DEF RunKilled, CleanedUp
  <1>9. CASE UNCHANGED backupVars
        BY <1>9 DEF backupVars
  <1> QED
      BY <1>1, <1>2, <1>3, <1>4, <1>5, <1>6, <1>7, <1>8, <1>9 DEF BackupNext

\* What a run has on the disk and in memory while it lasts.
RunTyped ==
  /\ backupPc \in {"idle", "dump", "encrypt", "publish", "forget", "decrypt", "start",
                   "restore", "query", "vouch"}
  /\ chosen \in Archives \cup {NoArchive}
  /\ scratch \subseteq {"dump", "encrypted", "restored"}

LEMMA RunTypesStep == RunTyped /\ [BackupNext]_backupVars => RunTyped'
  <1> SUFFICES ASSUME RunTyped, [BackupNext]_backupVars
               PROVE  RunTyped'
      OBVIOUS
  <1> USE DEF RunTyped, BackupGoes, CleanedUp
  <1>1. ASSUME NEW a \in Archives, StartBackup(a) \/ StartVerify(a) \/ Spoil(a)
        PROVE  RunTyped'
        BY <1>1 DEF StartBackup, StartVerify, Spoil
  <1>2. CASE Dump \/ Encrypt \/ Publish \/ RemoveReceipt
        BY <1>2 DEF Dump, Encrypt, Publish, RemoveReceipt
  <1>3. CASE Decrypt \/ StartTarget \/ Restore \/ Query
        BY <1>3 DEF Decrypt, StartTarget, Restore, Query
  <1>4. CASE WriteReceipt \/ RunFails \/ RunKilled
        BY <1>4 DEF WriteReceipt, RunFails, RunKilled
  <1>5. CASE UNCHANGED backupVars
        BY <1>5 DEF backupVars
  <1> QED
      BY <1>1, <1>2, <1>3, <1>4, <1>5 DEF BackupNext

RunFlags == container \in BOOLEAN /\ leftovers \in BOOLEAN

LEMMA RunFlagsStep == RunFlags /\ [BackupNext]_backupVars => RunFlags'
  <1> SUFFICES ASSUME RunFlags, [BackupNext]_backupVars
               PROVE  RunFlags'
      OBVIOUS
  <1> USE DEF RunFlags, BackupGoes, CleanedUp
  <1>1. ASSUME NEW a \in Archives, StartBackup(a) \/ StartVerify(a) \/ Spoil(a)
        PROVE  RunFlags'
        BY <1>1 DEF StartBackup, StartVerify, Spoil
  <1>2. CASE Dump \/ Encrypt \/ Publish \/ RemoveReceipt
        BY <1>2 DEF Dump, Encrypt, Publish, RemoveReceipt
  <1>3. CASE Decrypt \/ StartTarget \/ Restore \/ Query
        BY <1>3 DEF Decrypt, StartTarget, Restore, Query
  <1>4. CASE WriteReceipt \/ RunFails
        BY <1>4 DEF WriteReceipt, RunFails
  <1>5. CASE RunKilled
        BY <1>5, Zenon DEF RunKilled
  <1>6. CASE UNCHANGED backupVars
        BY <1>6 DEF backupVars
  <1> QED
      BY <1>1, <1>2, <1>3, <1>4, <1>5, <1>6 DEF BackupNext

LEMMA RunInit == BackupInit => RunTyped /\ RunFlags
  BY DEF BackupInit, RunTyped, RunFlags

\* Archives, receipts and what a run leaves keep their types.
THEOREM BackupTypes == BackupSpec => []BackupTypeOK
  <1>1. BackupInv /\ RunTyped /\ RunFlags => BackupTypeOK
        BY DEF BackupInv, ArchivesMarked, RunTyped, RunFlags, BackupTypeOK
  <1> QED
      BY <1>1, BackupInitInv, BackupStep, RunInit, RunTypesStep, RunFlagsStep, PTL
      DEF BackupSpec

\* For any number of archives and runs: a receipt vouches for the last run that worked
\* on its archive (verifyArchive in portfolio-backup.cjs).
THEOREM ReceiptsAreGenuine == BackupSpec => []ReceiptIsOfLastRun
  <1>1. BackupInv => ReceiptIsOfLastRun
        BY DEF BackupInv
  <1> QED
      BY <1>1, BackupInitInv, BackupStep, PTL DEF BackupSpec
-----------------------------------------------------------------------------
(* Side by side.                                                             *)

ServicesInv ==
  /\ KeyInv /\ CancelInv /\ CheckoutSagaInv /\ AccountsInv /\ MailInv /\ SessionsInv
  /\ CartInv /\ ServerTypeOK /\ BackupInv /\ RunTyped /\ RunFlags

\* A component moves or stands still, and keeps its invariant in either case.
LEMMA ServicesStep == ServicesInv /\ [ServicesNext]_Everything => ServicesInv'
  <1>1. [ServicesNext]_Everything =>
          /\ [KeyNext]_keyVars /\ [CancelNext]_cancelVars
          /\ [CheckoutSagaNext]_checkoutSagaVars /\ [AccountsNext]_accountVars
          /\ [SessionsNext]_sessionVars /\ [CartNext]_cartVars
          /\ [ServerNext]_serverVars /\ [BackupNext]_backupVars
        BY Zenon DEF ServicesNext, Everything, sagaVars, userVars, machineVars
  <1> QED
      BY <1>1, KeyStep, CancelStep, CheckoutSagaStep, AccountsStep, MailStep, SessionsStep,
         CartStep, ServerTypesStep, BackupStep, RunTypesStep, RunFlagsStep
      DEF ServicesInv

\* Whichever of the components moves, every variable keeps its type.
THEOREM ServicesTypesHold == ServicesSpec => []ServicesTypeOK
  <1>1. ServicesInit => ServicesInv
        BY KeyInitInv, CancelInitInv, CheckoutSagaInitInv, AccountsInitInv, MailInitInv,
           SessionsInitInv, CartInitInv, ServerTypesInit, BackupInitInv, RunInit
        DEF ServicesInit, ServicesInv
  <1>2. ServicesInv => ServicesTypeOK
        BY MailTypes DEF ServicesInv, ServicesTypeOK, KeyInv, CancelInv, CheckoutSagaInv,
           SessionsInv, CartInv, BackupInv, ArchivesMarked, RunTyped, RunFlags, BackupTypeOK
  <1> QED
      BY <1>1, <1>2, ServicesStep, PTL DEF ServicesSpec
=============================================================================
