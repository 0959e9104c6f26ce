----------------------------- MODULE SelCounter -----------------------------
(***************************************************************************)
(* The SEL of the default build (src/sel_logger.cpp lines 276-349): ids    *)
(* come from a counter that is kept in memory only.  A starting daemon     *)
(* takes it from the last line of the newest log file; Clear sets it to 0. *)
(*                                                                         *)
(* As in SelDelete, an action is what a handler does up to the next point  *)
(* where rsyslog, logrotate, systemd or a crash can come between.          *)
(***************************************************************************)
EXTENDS SelLogFiles

VARIABLES
  recordId, \* the counter: the id of the last record
  slot,     \* the newest file a starting daemon found
  damaged   \* history: a start could not see the last id given

daemonVars == <<recordId, pc, selLogFiles, slot, damaged>>
vars == <<fileVars, daemonVars>>

(* down: not running; read: initializeRecordId listed the files; idle: in  *)
(* io.run(); remove, reload: in clearSelLogFiles.                          *)
States == {"down", "read", "idle", "remove", "reload"}

TypeOK ==
  /\ FilesTypeOK
  /\ recordId \in 0 .. selInvalidRecID
  /\ pc \in States /\ selLogFiles \subseteq Slots
  /\ slot \in Slots
  /\ damaged \in BOOLEAN

Init == FilesInit /\ recordId = 0 /\ slot = 0 /\ damaged = FALSE

-----------------------------------------------------------------------------
(* Starting: initializeRecordId.                                           *)

(* Every current record is written, and the last one is in this file.      *)
LastIn(file) == \A e \in Current(Visible) : \E f \in file : e.n <= f.n

OldestFile(S) == CHOOSE s \in S : \A t \in S : s >= t \* mutant: back() for front()
NewestFile(S) == First(S)

StartEmpty ==
  /\ pc = "down" /\ exists = {}
  /\ recordId' = 0
  /\ damaged' = (damaged \/ ~LastIn({}))
  /\ pc' = "idle"
  /\ UNCHANGED <<fileVars, selLogFiles, slot>>

StartList ==
  /\ pc = "down" /\ exists # {}
  /\ slot' = NewestFile(exists)
  /\ damaged' = (damaged \/ ~LastIn(logs[First(exists)]))
  /\ pc' = "read"
  /\ UNCHANGED <<fileVars, recordId, selLogFiles>>

FirstEntry(s)  == CHOOSE e \in logs[s] : \A f \in logs[s] : e.n <= f.n \* mutant
NewestEntry(s) == CHOOSE e \in logs[s] : \A f \in logs[s] : e.n >= f.n

(* The file may be empty, or gone since it was listed: the counter is 0.   *)
StartRead ==
  /\ pc = "read"
  /\ recordId' = IF logs[slot] = {} THEN 0 ELSE NewestEntry(slot).id
  /\ slot' = 0
  /\ pc' = "idle"
  /\ UNCHANGED <<fileVars, selLogFiles, damaged>>

-----------------------------------------------------------------------------
(* IpmiSelAdd and IpmiSelAddOem: getNewRecordId, then sd_journal_send.     *)

CountOn(i) == i + 1 \* mutant: no clamp
NextId(i)  == IF i + 1 >= selInvalidRecID THEN selInvalidRecID ELSE i + 1

Add ==
  /\ pc = "idle"
  /\ recordId' = NextId(recordId)
  /\ IF recordId' < selInvalidRecID THEN Send(recordId') ELSE UNCHANGED fileVars
  /\ UNCHANGED <<pc, selLogFiles, slot, damaged>>

-----------------------------------------------------------------------------
(* Clear: clearSelLogFiles, after ClearBegin and ClearRemove.              *)

ClearReset ==
  /\ pc = "remove" /\ selLogFiles = {}
  /\ recordId' = 0
  /\ erased' = sent
  /\ damaged' = FALSE
  /\ pc' = "reload"
  /\ UNCHANGED <<journal, exists, logs, rsyslogFile, reload, sent, selLogFiles, slot>>

ClearReload ==
  /\ pc = "reload"
  /\ RequestReload
  /\ pc' = "idle"
  /\ UNCHANGED <<recordId, selLogFiles, slot, damaged>>

-----------------------------------------------------------------------------
(* The daemon dies between two steps; systemd starts it again.             *)
Crash ==
  /\ pc # "down" /\ "crash" \in Allowed
  /\ pc' = "down"
  /\ recordId' = 0 /\ slot' = 0 /\ selLogFiles' = {}
  /\ UNCHANGED <<fileVars, damaged>>

(* The file whose name a starting daemon has found is another one now.     *)
Rotate ==
  /\ RotateFiles
  /\ damaged' = (damaged \/ pc = "read")
  /\ UNCHANGED <<recordId, pc, selLogFiles, slot>>

Daemon ==
  \/ StartEmpty \/ StartList \/ StartRead
  \/ Add
  \/ (ClearBegin \/ ClearRemove) /\ UNCHANGED <<recordId, slot, damaged>>
  \/ ClearReset \/ ClearReload

Rsyslog == (Flush \/ Reload) /\ UNCHANGED daemonVars

Next == Daemon \/ Crash \/ Rsyslog \/ Rotate

Spec == Init /\ [][Next]_vars

-----------------------------------------------------------------------------
(* Since the last Clear, ids grow in the order the records were sent, in   *)
(* the journal and across the rotated files: the order of "ipmitool sel    *)
(* list" is the order of events, over restarts, rotations and full logs.   *)
(* It holds until a start that cannot see the last record: it is not yet   *)
(* written, or not in the newest file, or that file is renamed meanwhile.  *)
IdsAscend ==
  ~damaged => \A e, f \in Current(Visible) : e.n < f.n => e.id < f.id

(* The daemon, once started, knows of every id in use: the counter is at   *)
(* or above each record that can still be read, or is on its way to a file.*)
CounterCoversRecords ==
  ~damaged /\ pc \notin {"down", "read"} =>
     \A e \in Current(Visible) : e.id <= recordId

(* "Two byte unique SEL Record ID" (README.md:18).                         *)
UniqueSinceClear ==
  \A e, f \in Current(Visible) : e.id = f.id => e = f

(* "Reload rsyslog so it knows to start new log files" (lines 166 and 334):*)
(* a record sent after a Clear has been answered is written to a file that *)
(* has a name.                                                             *)
FlushedIsLogged ==
  [][\A e \in Current(journal) : pc = "idle" => e \in journal' \cup Logged']_vars
=============================================================================
