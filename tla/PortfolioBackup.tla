---------------------------- MODULE PortfolioBackup ----------------------------
(***************************************************************************)
(* The portfolio backup script: dump, encrypt, publish, then restore the    *)
(* archive into a disposable database and write a receipt beside it; or     *)
(* only the second half, for an archive that is there. One run at a time.   *)
(* A step may fail and a run may be killed between any two of them.         *)
(***************************************************************************)
EXTENDS Integers, FiniteSets

CONSTANTS Archives,    \* their random names
          MaxSpoiled,  \* bound: archives damaged on the disk
          NoArchive

VARIABLES disk,      \* disk[a]: the archive file
          receipt,   \* archives with a .verified.json
          backupPc,  \* where the run is
          chosen,    \* the archive it works on
          scratch,   \* what it has in its temporary directory
          container, \* its restore database
          verdict,   \* verdict[a]: how the last run that worked on it has ended
          leftovers  \* a killed run has left its scratch files or its container

backupVars == <<disk, receipt, backupPc, chosen, scratch, container, verdict, leftovers>>

BackupTypeOK ==
  /\ disk \in [Archives -> {"none", "whole", "spoiled"}]
  /\ receipt \subseteq Archives
  /\ backupPc \in {"idle", "dump", "encrypt", "publish", "forget", "decrypt", "start",
                   "restore", "query", "vouch"}
  /\ chosen \in Archives \cup {NoArchive}
  /\ scratch \subseteq {"dump", "encrypted", "restored"}
  /\ container \in BOOLEAN /\ leftovers \in BOOLEAN
  /\ verdict \in [Archives -> {"none", "begun", "failed", "passed"}]

BackupInit ==
  /\ disk = [a \in Archives |-> "none"] /\ receipt = {}
  /\ backupPc = "idle" /\ chosen = NoArchive
  /\ scratch = {} /\ container = FALSE /\ leftovers = FALSE
  /\ verdict = [a \in Archives |-> "none"]

-----------------------------------------------------------------------------
BackupGoes(from, to) ==
  /\ backupPc = from /\ backupPc' = to
  /\ UNCHANGED leftovers

\* run("backup"), under a new name; run("verify"), of an archive that is there.
StartBackup(a) ==
  /\ BackupGoes("idle", "dump")
  /\ disk[a] = "none" /\ chosen' = a
  /\ UNCHANGED <<disk, receipt, scratch, container, verdict>>

StartVerify(a) ==
  /\ BackupGoes("idle", "forget")
  /\ disk[a] # "none" /\ chosen' = a
  /\ UNCHANGED <<disk, receipt, scratch, container, verdict>>

Dump ==
  /\ BackupGoes("dump", "encrypt") /\ scratch' = scratch \cup {"dump"}
  /\ UNCHANGED <<disk, receipt, chosen, container, verdict>>

\* archive("encrypt") writes a temporary file, beside the archive, ...
Encrypt ==
  /\ BackupGoes("encrypt", "publish") /\ scratch' = scratch \cup {"encrypted"}
  /\ UNCHANGED <<disk, receipt, chosen, container, verdict>>

\* ... and links it under the archive's name when it is complete.
Publish ==
  /\ BackupGoes("publish", "forget")
  /\ disk' = [disk EXCEPT ![chosen] = "whole"]
  /\ scratch' = scratch \ {"encrypted"}
  /\ UNCHANGED <<receipt, chosen, container, verdict>>

\* Mutant: the old receipt is only replaced by the new one.
KeepReceipt ==
  /\ BackupGoes("forget", "decrypt")
  /\ verdict' = [verdict EXCEPT ![chosen] = "begun"]
  /\ UNCHANGED <<disk, receipt, chosen, scratch, container>>

RemoveReceipt ==
  /\ BackupGoes("forget", "decrypt")
  /\ receipt' = receipt \ {chosen}
  /\ verdict' = [verdict EXCEPT ![chosen] = "begun"]
  /\ UNCHANGED <<disk, chosen, scratch, container>>

\* The archive is authenticated before its content is published to the next step.
Decrypt ==
  /\ BackupGoes("decrypt", "start") /\ disk[chosen] = "whole"
  /\ scratch' = scratch \cup {"restored"}
  /\ UNCHANGED <<disk, receipt, chosen, container, verdict>>

StartTarget ==
  /\ BackupGoes("start", "restore") /\ container' = TRUE
  /\ UNCHANGED <<disk, receipt, chosen, scratch, verdict>>

Restore ==
  /\ BackupGoes("restore", "query")
  /\ UNCHANGED <<disk, receipt, chosen, scratch, container, verdict>>

Query ==
  /\ BackupGoes("query", "vouch")
  /\ UNCHANGED <<disk, receipt, chosen, scratch, container, verdict>>

\* The finally block.
CleanedUp == scratch' = {} /\ container' = FALSE /\ chosen' = NoArchive

WriteReceipt ==
  /\ BackupGoes("vouch", "idle") /\ CleanedUp
  /\ receipt' = receipt \cup {chosen}
  /\ verdict' = [verdict EXCEPT ![chosen] = "passed"]
  /\ UNCHANGED disk

\* Any step throws, and decrypting a damaged archive always does.
RunFails ==
  /\ backupPc # "idle" /\ BackupGoes(backupPc, "idle") /\ CleanedUp
  /\ verdict' = [verdict EXCEPT ![chosen] = IF @ = "begun" THEN "failed" ELSE @]
  /\ UNCHANGED <<disk, receipt>>

\* A killed run cleans nothing up, and the next one knows nothing of it.
RunKilled ==
  /\ backupPc # "idle" /\ backupPc' = "idle"
  /\ leftovers' = (leftovers \/ container \/ scratch # {})
  /\ CleanedUp
  /\ UNCHANGED <<disk, receipt, verdict>>

Spoil(a) ==
  /\ disk[a] = "whole" /\ disk' = [disk EXCEPT ![a] = "spoiled"]
  /\ Cardinality({b \in Archives : disk[b] = "spoiled"}) < MaxSpoiled
  /\ UNCHANGED <<receipt, backupPc, chosen, scratch, container, verdict, leftovers>>

BackupNext ==
  \/ \E a \in Archives : StartBackup(a) \/ StartVerify(a) \/ Spoil(a)
  \/ Dump \/ Encrypt \/ Publish
  \/ RemoveReceipt \/ Decrypt \/ StartTarget \/ Restore \/ Query \/ WriteReceipt
  \/ RunFails \/ RunKilled

BackupSpec == BackupInit /\ [][BackupNext]_backupVars

-----------------------------------------------------------------------------
\* A receipt is beside an archive only if the last run that worked on that archive
\* restored it: a run that fails or is killed leaves none from an earlier one.
ReceiptIsOfLastRun == \A a \in receipt : disk[a] # "none" /\ verdict[a] = "passed"
=============================================================================
