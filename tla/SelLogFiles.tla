---------------------------- MODULE SelLogFiles ----------------------------
(***************************************************************************)
(* The way of a SEL record from sel-logger to disk, and what the two builds*)
(* of the daemon that keep a log of their own have in common.              *)
(*                                                                         *)
(* sel-logger hands a record to the systemd journal (sd_journal_send);     *)
(* rsyslog reads the journal in order and appends one line per record to   *)
(* /var/log/ipmi_sel (rsyslog/phosphor-sel-logger.conf); logrotate renames *)
(* that file to ipmi_sel.1, ipmi_sel.2, ...  Slot 0 stands for ipmi_sel,   *)
(* slot s for ipmi_sel.s.                                                  *)
(*                                                                         *)
(* A record is its id and the position n at which it was sent.  A file is  *)
(* the set of its records: rsyslog appends in the order of the journal and *)
(* nothing reorders lines, so their order is the order of n.               *)
(***************************************************************************)
EXTENDS Integers, FiniteSets

CONSTANTS
  selInvalidRecID, \* 0xFFFF in the code: what an Add answers when the SEL is full
  NumLogs,         \* ipmi_sel and its rotated generations
  MaxSent,         \* bound on the records sent
  Allowed          \* which of "crash", "rotate" and "clear" may happen

ASSUME IdAssumption  == selInvalidRecID \in Nat /\ selInvalidRecID >= 2
ASSUME LogAssumption == NumLogs \in Nat \ {0}

VARIABLES
  journal,     \* records sent to the journal that rsyslog has not read yet
  exists,      \* slots whose file exists
  logs,        \* the records each file holds
  rsyslogFile, \* the file rsyslog has open: a slot, Orphan or Closed
  reload,      \* systemd has a reload of rsyslog.service queued
  sent,        \* history: number of records sent so far
  erased,      \* history: value of sent when Clear last restarted the ids
  pc,          \* what the daemon does next
  selLogFiles  \* the slots its current handler has still to visit

fileVars == <<journal, exists, logs, rsyslogFile, reload, sent, erased>>

Slots     == 0 .. NumLogs - 1
RecordIds == 1 .. selInvalidRecID - 1
Record    == [id : RecordIds, n : Nat \ {0}]

Closed == -1      \* rsyslog opens ipmi_sel at its next write
Orphan == NumLogs \* rsyslog still writes to a file that has no name any more

FilesTypeOK ==
  /\ journal \subseteq Record
  /\ exists \subseteq Slots
  /\ logs \in [Slots -> SUBSET Record]
  /\ \A s \in Slots \ exists : logs[s] = {}
  /\ rsyslogFile \in Slots \cup {Closed, Orphan}
  /\ rsyslogFile \in Slots => rsyslogFile \in exists
  /\ reload \in BOOLEAN
  /\ sent \in Nat
  /\ erased \in 0 .. sent

(* A device that boots for the first time: no SEL record, no log file.     *)
FilesInit ==
  /\ journal = {} /\ sent = 0 /\ erased = 0
  /\ exists = {} /\ logs = [s \in Slots |-> {}]
  /\ rsyslogFile = Closed /\ reload = FALSE
  /\ pc = "down" /\ selLogFiles = {}

Logged  == UNION {logs[s] : s \in Slots}
Visible == journal \cup Logged

(* Records sent since the ids were last restarted.                         *)
Current(R) == {e \in R : e.n > erased}

(* getSELLogFiles sorts the names it finds: ipmi_sel, ipmi_sel.1, ...      *)
First(S) == CHOOSE s \in S : \A t \in S : s <= t
RestAll(S) == S \* mutant: the loop over the files does not advance
Rest(S) == S \ {First(S)}

-----------------------------------------------------------------------------
(* What the daemon does to the files.                                      *)

(* sd_journal_send, whose result is not looked at.                         *)
Send(id) ==
  \/ /\ sent < MaxSent
     /\ journal' = journal \cup {[id |-> id, n |-> sent + 1]}
     /\ sent' = sent + 1
     /\ UNCHANGED <<exists, logs, rsyslogFile, reload, erased>>
  \/ UNCHANGED fileVars

ClearBegin ==
  /\ pc = "idle"
  /\ "clear" \in Allowed
  /\ selLogFiles' = exists
  /\ pc' = "remove"
  /\ UNCHANGED fileVars

(* std::filesystem::remove: a file that is gone already is not an error,   *)
(* and a file rsyslog has open lives on without a name.                    *)
ClearRemove ==
  /\ pc = "remove"
  /\ selLogFiles # {}
  /\ exists' = exists \ {First(selLogFiles)}
  /\ logs' = [logs EXCEPT ![First(selLogFiles)] = {}]
  /\ rsyslogFile' = IF rsyslogFile = First(selLogFiles) THEN Orphan ELSE rsyslogFile
  /\ selLogFiles' = Rest(selLogFiles)
  /\ UNCHANGED <<journal, reload, sent, erased, pc>>

(* ReloadUnit("rsyslog.service"): systemd queues the job and answers, or   *)
(* the call fails and the exception is only printed.                       *)
RequestReload ==
  /\ reload' \in {reload, TRUE}
  /\ UNCHANGED <<journal, exists, logs, rsyslogFile, sent, erased>>

-----------------------------------------------------------------------------
(* What rsyslog and logrotate do.                                          *)

(* rsyslog takes the oldest record of the journal and appends its line,    *)
(* creating ipmi_sel if need be.  Lines for a file without a name are lost.*)
Flush ==
  \E e \in journal :
    /\ \A f \in journal : e.n <= f.n
    /\ journal' = journal \ {e}
    /\ rsyslogFile' = IF rsyslogFile = Closed THEN 0 ELSE rsyslogFile
    /\ exists' = exists \cup ({rsyslogFile'} \cap Slots)
    /\ logs' = [s \in Slots |-> logs[s] \cup (IF s = rsyslogFile' THEN {e} ELSE {})]
    /\ UNCHANGED <<reload, sent, erased>>

(* The queued reload runs: rsyslog closes its file.                        *)
Reload ==
  /\ reload
  /\ reload' = FALSE
  /\ rsyslogFile' = Closed
  /\ UNCHANGED <<journal, exists, logs, sent, erased>>

(* logrotate renames every generation, drops the last, may create an empty *)
(* ipmi_sel, and asks rsyslog to reopen its file.                          *)
RotateFiles ==
  /\ "rotate" \in Allowed
  /\ 0 \in exists
  /\ \E new \in SUBSET {0} : exists' = new \cup {s \in Slots : s - 1 \in exists}
  /\ logs' = [s \in Slots |-> IF s = 0 THEN {} ELSE logs[s - 1]]
  /\ rsyslogFile' = IF rsyslogFile \in Slots THEN rsyslogFile + 1 ELSE rsyslogFile
  /\ reload' = TRUE
  /\ UNCHANGED <<journal, sent, erased>>
=============================================================================
