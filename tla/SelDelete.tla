----------------------------- MODULE SelDelete -----------------------------
(***************************************************************************)
(* The SEL of a build with SEL_LOGGER_ENABLE_SEL_DELETE (src/sel_logger.cpp*)
(* lines 106-274): records are added, deleted one by one, or all cleared.  *)
(*                                                                         *)
(* nextRecordsCache is a stack of the ids to use next: its bottom is the   *)
(* lowest id never used since the last Clear, everything above it is the   *)
(* id of a deleted record.  /var/log/next_records holds a copy of it for   *)
(* the next start of the daemon.                                           *)
(*                                                                         *)
(* The daemon has one thread, so its handlers exclude each other, but      *)
(* rsyslog, logrotate and systemd act between any two of their system      *)
(* calls, and the daemon may die there: one action is what a handler does  *)
(* up to the next point where one of those can tell.                       *)
(***************************************************************************)
EXTENDS SelLogFiles, Sequences

VARIABLES
  nextRecordsCache, \* in memory, the back of the vector last
  backup,           \* the ids in next_records
  created,          \* next_records exists
  recordId,         \* result of the last getNewRecordId
  targetId,         \* the id SELDelete was called with
  slot,             \* the file SELDelete rewrites (Orphan: it lost its name)
  temp,             \* the lines SELDelete copied to selLogDir/temp
  damaged           \* history: the ids can no longer be trusted, see UniqueIds

pool     == <<nextRecordsCache, backup, created>>
deletion == <<targetId, slot, temp>>
daemonVars == <<pool, deletion, pc, recordId, selLogFiles, damaged>>
vars == <<fileVars, daemonVars>>

(* down: not running; create: initializeRecordId made an empty             *)
(* next_records; idle: in io.run(); backup: getNewRecordId truncated       *)
(* next_records; send: before sd_journal_send; remove, reset, clear: in    *)
(* clearSelLogFiles; list, scan, truncate, rewrite, free: in               *)
(* selDeleteRecord.                                                        *)
States == {"down", "create", "idle", "backup", "send", "remove", "reset", "clear",
           "list", "scan", "truncate", "rewrite", "free"}

(* next_records is truncated and its new content is still in a stream      *)
(* buffer of the daemon.                                                   *)
Truncated == {"create", "backup", "clear"}

TypeOK ==
  /\ FilesTypeOK
  /\ {nextRecordsCache, backup} \subseteq Seq(1 .. selInvalidRecID)
  /\ created \in BOOLEAN
  /\ pc \in States /\ selLogFiles \subseteq Slots
  /\ {recordId, targetId} \subseteq 0 .. selInvalidRecID
  /\ pc \in {"backup", "send"} => recordId \in RecordIds
  /\ pc \in {"truncate", "rewrite", "free"} => targetId \in RecordIds
  /\ slot \in Slots \cup {Orphan}
  /\ pc = "truncate" => slot \in Slots
  /\ pc = "rewrite" => slot \in exists \cup {Orphan}
  /\ temp \subseteq Record
  /\ damaged \in BOOLEAN

Init ==
  /\ FilesInit
  /\ nextRecordsCache = <<>> /\ backup = <<>> /\ created = FALSE
  /\ recordId = 0 /\ targetId = 0 /\ slot = 0 /\ temp = {}
  /\ damaged = FALSE

Top(s) == s[Len(s)]
Pop(s) == SubSeq(s, 1, Len(s) - 1)

IsFullNever(s) == FALSE                  \* mutant: the SEL is never full
IsFullFront(s) == s[1] = selInvalidRecID \* mutant: front() for back()
IsFull(s)      == Top(s) = selInvalidRecID

UseUpPeek(s) == IF Len(s) = 1 THEN <<Top(s) + 1>> ELSE s      \* mutant: no pop_back
UseUpSame(s) == IF Len(s) = 1 THEN <<Top(s)>>     ELSE Pop(s) \* mutant: no + 1
UseUp(s)     == IF Len(s) = 1 THEN <<Top(s) + 1>> ELSE Pop(s)

-----------------------------------------------------------------------------
(* Starting: initializeRecordId.                                           *)

Start ==
  /\ pc = "down" /\ created
  /\ nextRecordsCache' = backup
  /\ pc' = "idle"
  /\ UNCHANGED <<fileVars, backup, created, deletion, recordId, selLogFiles, damaged>>

CreateBackup ==
  /\ pc = "down" /\ ~created
  /\ created' = TRUE
  /\ pc' = "create"
  /\ UNCHANGED <<fileVars, nextRecordsCache, backup, deletion, recordId, selLogFiles,
                 damaged>>

StartFromOne ==
  /\ pc = "create"
  /\ backup' = <<1>>
  /\ nextRecordsCache' = backup'
  /\ pc' = "idle"
  /\ UNCHANGED <<fileVars, created, deletion, recordId, selLogFiles, damaged>>

-----------------------------------------------------------------------------
(* IpmiSelAdd and IpmiSelAddOem: getNewRecordId, then sd_journal_send.     *)

(* SEL full: the id is not used up and nothing is sent.                    *)
Refuse ==
  /\ pc = "idle" /\ nextRecordsCache # <<>>
  /\ IsFull(nextRecordsCache)
  /\ recordId' = selInvalidRecID
  /\ UNCHANGED <<fileVars, pool, deletion, pc, selLogFiles, damaged>>

GetNewRecordId ==
  /\ pc = "idle" /\ nextRecordsCache # <<>>
  /\ ~IsFull(nextRecordsCache)
  /\ recordId' = Top(nextRecordsCache)
  /\ nextRecordsCache' = UseUp(nextRecordsCache)
  /\ backup' = <<>> \* backupCacheToFile opens the file for writing
  /\ pc' = "backup"
  /\ UNCHANGED <<fileVars, created, deletion, selLogFiles, damaged>>

BackupCache ==
  /\ pc = "backup"
  /\ backup' = nextRecordsCache
  /\ pc' = "send"
  /\ UNCHANGED <<fileVars, nextRecordsCache, created, deletion, recordId, selLogFiles,
                 damaged>>

SendRecord ==
  /\ pc = "send"
  /\ Send(recordId)
  /\ pc' = "idle"
  /\ UNCHANGED <<pool, deletion, recordId, selLogFiles, damaged>>

-----------------------------------------------------------------------------
(* Clear: clearSelLogFiles, after ClearBegin and ClearRemove.              *)

ClearReload ==
  /\ pc = "remove" /\ selLogFiles = {}
  /\ RequestReload
  /\ pc' = "reset"
  /\ UNCHANGED <<pool, deletion, recordId, selLogFiles, damaged>>

ClearReset ==
  /\ pc = "reset"
  /\ nextRecordsCache' = <<1>>
  /\ backup' = <<>>
  /\ created' = TRUE
  /\ erased' = sent
  /\ damaged' = FALSE
  /\ pc' = "clear"
  /\ UNCHANGED <<journal, exists, logs, rsyslogFile, reload, sent, deletion, recordId,
                 selLogFiles>>

ClearBackup ==
  /\ pc = "clear"
  /\ backup' = <<1>>
  /\ pc' = "idle"
  /\ UNCHANGED <<fileVars, nextRecordsCache, created, deletion, recordId, selLogFiles,
                 damaged>>

-----------------------------------------------------------------------------
(* SELDelete: selDeleteRecord and selDeleteTargetRecord.                   *)

Hits(s) == {e \in logs[s] : e.id = targetId}

EndDelete == targetId' = 0 /\ slot' = 0 /\ temp' = {} /\ selLogFiles' = {}

(* last_write_time throws, and the call fails, unless ipmi_sel exists.     *)
DeleteNoLog == pc = "idle" /\ 0 \notin exists /\ UNCHANGED vars

DeleteBegin(id) ==
  /\ pc = "idle" /\ 0 \in exists
  /\ targetId' = id
  /\ pc' = "list"
  /\ UNCHANGED <<fileVars, pool, slot, temp, recordId, selLogFiles, damaged>>

(* getSELLogFiles; logrotate may have come first.                          *)
DeleteList ==
  /\ pc = "list"
  /\ selLogFiles' = exists
  /\ pc' = "scan"
  /\ UNCHANGED <<fileVars, pool, deletion, recordId, damaged>>

DeleteScanMiss ==
  /\ pc = "scan" /\ selLogFiles # {}
  /\ First(selLogFiles) \in exists
  /\ Hits(First(selLogFiles)) = {}
  /\ selLogFiles' = Rest(selLogFiles)
  /\ UNCHANGED <<fileVars, pool, deletion, pc, recordId, damaged>>

DeleteScanHit ==
  /\ pc = "scan" /\ selLogFiles # {}
  /\ First(selLogFiles) \in exists
  /\ Hits(First(selLogFiles)) # {}
  /\ slot' = First(selLogFiles)
  /\ temp' = logs[slot'] \ Hits(slot')
  /\ damaged' = (damaged \/ Current(Hits(slot')) = {})
  /\ selLogFiles' = {}
  /\ pc' = "truncate"
  /\ UNCHANGED <<fileVars, pool, recordId, targetId>>

(* Every file was read, or one is gone since they were listed:             *)
(* ResourceNotFound.                                                       *)
DeleteNotFound ==
  /\ pc = "scan" /\ (selLogFiles # {} => First(selLogFiles) \notin exists)
  /\ EndDelete
  /\ pc' = "idle"
  /\ UNCHANGED <<fileVars, pool, recordId, damaged>>

(* The file that has the name now is opened for writing.                   *)
DeleteTruncate ==
  /\ pc = "truncate"
  /\ exists' = exists \cup {slot}
  /\ logs' = [logs EXCEPT ![slot] = {}]
  /\ pc' = "rewrite"
  /\ UNCHANGED <<journal, rsyslogFile, reload, sent, erased, pool, deletion, recordId,
                 selLogFiles, damaged>>

(* temp is copied over the start of the file; of the lines rsyslog has     *)
(* appended since, those that do not fit under it are left.                *)
DeleteRewrite ==
  /\ pc = "rewrite"
  /\ \E k \in IF temp = {} THEN {0} ELSE 0 .. sent :
       logs' = [s \in Slots |->
                  IF s = slot THEN temp \cup {e \in logs[s] : e.n > k} ELSE logs[s]]
  /\ pc' = "free"
  /\ UNCHANGED <<journal, exists, rsyslogFile, reload, sent, erased, pool, deletion,
                 recordId, selLogFiles, damaged>>

DeleteFreeInMemory == \* mutant: next_records is not updated
  /\ pc = "free"
  /\ nextRecordsCache' = Append(nextRecordsCache, targetId)
  /\ EndDelete
  /\ pc' = "idle"
  /\ UNCHANGED <<fileVars, backup, created, recordId, damaged>>

DeleteFree ==
  /\ pc = "free"
  /\ nextRecordsCache' = Append(nextRecordsCache, targetId)
  /\ backup' = Append(backup, targetId)
  /\ EndDelete
  /\ pc' = "idle"
  /\ UNCHANGED <<fileVars, created, recordId, damaged>>

-----------------------------------------------------------------------------
(* The end of the process; systemd starts it again (Restart=always).       *)

Die ==
  /\ nextRecordsCache' = <<>>
  /\ EndDelete
  /\ pc' = "down"
  /\ UNCHANGED <<fileVars, backup, created, recordId>>

Crash ==
  /\ pc # "down" /\ "crash" \in Allowed
  /\ damaged' = (damaged \/ pc \in Truncated)
  /\ Die

(* nextRecordsCache.back() of a vector that never held anything.           *)
AddToEmptyCache ==
  /\ pc = "idle" /\ nextRecordsCache = <<>>
  /\ Die
  /\ UNCHANGED damaged

(* An open stream follows its file: the rewriting of SELDelete too.        *)
Rotate ==
  /\ RotateFiles
  /\ slot' = IF pc = "rewrite" /\ slot \in Slots THEN slot + 1 ELSE slot
  /\ damaged' = (damaged \/ pc = "truncate")
  /\ UNCHANGED <<pool, pc, recordId, targetId, temp, selLogFiles>>

-----------------------------------------------------------------------------
Clear == (ClearBegin \/ ClearRemove) /\ UNCHANGED <<pool, deletion, recordId, damaged>>

Daemon ==
  \/ Start \/ CreateBackup \/ StartFromOne
  \/ BackupCache \/ SendRecord
  \/ Clear \/ ClearReload \/ ClearReset \/ ClearBackup
  \/ DeleteList \/ DeleteScanMiss \/ DeleteScanHit \/ DeleteNotFound
  \/ DeleteTruncate \/ DeleteRewrite \/ DeleteFree

Clients ==
  \/ Refuse \/ GetNewRecordId \/ AddToEmptyCache \/ DeleteNoLog
  \/ \E id \in 0 .. selInvalidRecID : DeleteBegin(id)

Rsyslog == (Flush \/ Reload) /\ UNCHANGED daemonVars

Next == Daemon \/ Clients \/ Rsyslog \/ Crash \/ Rotate

Spec == Init /\ [][Next]_vars

(* The event loop never stops halfway through a handler: every system call *)
(* of a handler returns.  Clients owe the daemon nothing.                  *)
FairSpec == Spec /\ WF_vars(pc # "idle" /\ Daemon)

-----------------------------------------------------------------------------
(* The ids a pool still offers: those stacked on it and all from its       *)
(* bottom upwards.                                                         *)
FreeIds(s) == {i \in RecordIds : \/ \E k \in DOMAIN s : s[k] = i
                                 \/ s # <<>> /\ i >= s[1]}

(* The pool the daemon has, or would have after a restart.                 *)
FreePool ==
  IF ~created \/ pc = "create" THEN RecordIds
  ELSE FreeIds(IF pc = "down" THEN backup ELSE nextRecordsCache)

Pool == INSTANCE RecordIdPool WITH held <- RecordIds \ FreePool, trusted <- ~damaged

(* getNewRecordId, SELDelete and Clear keep the promise of RecordIdPool: a *)
(* stack and its copy on disk behave, through crashes and restarts, as the *)
(* set of ids that are not in use; "full" is only said when none is free.  *)
PoolSpec == Pool!Spec

(* Since the last Clear no two records share an id, in the journal or in   *)
(* the log files: "Two byte unique SEL Record ID" (README.md:18).  It holds*)
(* until a crash leaves next_records truncated, logrotate renames the file *)
(* SELDelete is about to rewrite, or SELDelete is given the id of a record *)
(* that was sent before the Clear and reached a file after it.             *)
UniqueSinceClear ==
  \A e, f \in Current(Visible) : e.id = f.id => e = f
UniqueIds == ~damaged => UniqueSinceClear

(* The same of all lines of the log files, those from before a Clear that  *)
(* rsyslog wrote after it included.                                        *)
UniqueLogged == \A e, f \in Logged : e.id = f.id => e = f

(* An id offered for the next Add is on no record that can still be read   *)
(* or is on its way to a file.                                             *)
FreeIdsUnheld ==
  ~damaged => \A e \in Current(Visible) : e.id \notin FreePool

(* Between two requests a crash costs nothing: initializeRecordId would    *)
(* read back exactly the vector the daemon has in memory.                  *)
RestartKeepsPool == pc = "idle" => backup = nextRecordsCache

(* Each request, and each start, is answered: no handler waits for rsyslog *)
(* or for another client, whatever those do meanwhile.                     *)
HandlersFinish == pc # "idle" ~> pc = "idle"

(* "Go over all the ipmi_sel files to remove the entry with the target ID" *)
(* (sel_logger.cpp:199): the file about to be emptied holds nothing but    *)
(* that entry and what was copied to temp.                                 *)
DeleteKeepsOthers ==
  pc = "truncate" => \A e \in logs[slot] : e \in temp \/ e.id = targetId
=============================================================================
