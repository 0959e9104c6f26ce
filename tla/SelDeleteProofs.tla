--------------------------- MODULE SelDeleteProofs ---------------------------
(***************************************************************************)
(* Proofs about SelDelete, for every capacity of the SEL, every number of  *)
(* log files and every bound.                                              *)
(*                                                                         *)
(* UniqueIds alone is not inductive: that a new id is unused follows from  *)
(* what the stack of free ids looks like, and that a deleted id is unused  *)
(* from where the record was when SELDelete read the file it was in.  IInv *)
(* says both.                                                              *)
(***************************************************************************)
EXTENDS SelDelete, SelLogFilesProofs, SequenceTheorems

(* Names for groups of variables are looked through everywhere.            *)
USE DEF pool, deletion, EndDelete

(* Every record there is, the copy SELDelete keeps included; and of those  *)
(* the ones sent since the last Clear.                                     *)
All == Visible \cup temp
Cur == Current(All)

Fresh(i) == \A e \in Cur : e.id # i

(* A stack of free ids: its bottom is the lowest id not given out yet, the *)
(* others are below that and each is there once.                           *)
Stack(s) ==
  /\ s # <<>>
  /\ \A k \in 2 .. Len(s) : s[k] < s[1]
  /\ \A k, l \in 1 .. Len(s) : s[k] = s[l] => k = l

GivenOut(i, s) == i < s[1] /\ \A k \in 1 .. Len(s) : s[k] # i

Good(s) == Stack(s) /\ \A e \in Cur : GivenOut(e.id, s)

SentInv == \A e \in All : e.n <= sent
BootInv ==
  /\ ~created => pc = "down"
  /\ ~created \/ pc = "create" => All = {}
SyncInv ==
  /\ pc \notin Truncated \cup {"down"} => backup = nextRecordsCache
  /\ pc = "clear" => nextRecordsCache = <<1>>

UniqueInv == \A e, f \in Cur : e.id = f.id => e = f
ApartInv ==
  \A e \in Cur : \A s \in Slots :
    e \in logs[s] => e \notin journal /\ \A t \in Slots \ {s} : e \notin logs[t]
CacheInv == pc \notin {"down", "create"} => Good(nextRecordsCache)
BackupInv == pc = "down" /\ created => Good(backup)
AddInv ==
  pc \in {"backup", "send"} => Fresh(recordId) /\ GivenOut(recordId, nextRecordsCache)
DeleteInv ==
  /\ pc \in {"truncate", "rewrite", "free"} => GivenOut(targetId, nextRecordsCache)
  /\ pc \in {"rewrite", "free"} => Fresh(targetId)
TempInv ==
  pc \in {"truncate", "rewrite"} =>
    \A e \in Cur :
      e \in temp => e \notin journal /\ \A t \in Slots \ {slot} : e \notin logs[t]
TargetInv ==
  pc = "truncate" =>
    \A e \in Cur : e.id = targetId => e \in logs[slot] /\ e \notin temp

TrustInv ==
  /\ UniqueInv
  /\ ApartInv
  /\ CacheInv
  /\ BackupInv
  /\ AddInv
  /\ DeleteInv
  /\ TempInv
  /\ TargetInv

IInv ==
  /\ TypeOK
  /\ SentInv
  /\ BootInv
  /\ SyncInv
  /\ ~damaged => TrustInv

-----------------------------------------------------------------------------
(* Type correctness.                                                       *)

(* Taking an id from a stack that is not full leaves a stack of ids.       *)
LEMMA UseUpType ==
  ASSUME NEW s \in Seq(1 .. selInvalidRecID), s # <<>>, ~IsFull(s)
  PROVE  /\ Top(s) \in RecordIds
         /\ UseUp(s) \in Seq(1 .. selInvalidRecID)
<1>1. Len(s) \in Nat \ {0}
  BY EmptySeq
<1>2. \A k \in 1 .. Len(s) : s[k] \in 1 .. selInvalidRecID
  BY ElementOfSeq
<1>3. Top(s) \in RecordIds
  BY <1>1, <1>2, IdAssumption DEF IsFull, RecordIds, Top
<1>4. CASE Len(s) = 1
  <2>1. Top(s) + 1 \in 1 .. selInvalidRecID
    BY <1>3, IdAssumption DEF RecordIds
  <2> QED BY <1>3, <1>4, <2>1 DEF UseUp
<1>5. CASE Len(s) # 1
  <2>1. SubSeq(s, 1, Len(s) - 1) \in Seq(1 .. selInvalidRecID)
    BY <1>1, <1>2, SubSeqProperties
  <2> QED BY <1>3, <1>5, <2>1 DEF UseUp, Pop
<1> QED BY <1>3, <1>4, <1>5

LEMMA TypeInit == Init => TypeOK
<1> SUFFICES ASSUME Init PROVE TypeOK
  OBVIOUS
<1>1. FilesTypeOK
  BY FilesTypeInit DEF Init
<1>2. /\ nextRecordsCache \in Seq(1 .. selInvalidRecID)
      /\ backup \in Seq(1 .. selInvalidRecID)
  BY EmptySeq DEF Init
<1>3. recordId \in 0 .. selInvalidRecID /\ targetId \in 0 .. selInvalidRecID
  BY IdAssumption DEF Init
<1>4. slot \in Slots
  BY SlotFacts DEF Init
<1> QED BY <1>1, <1>2, <1>3, <1>4 DEF Init, FilesInit, TypeOK, States

LEMMA EndDeleteType ==
  EndDelete =>
    targetId' \in 0 .. selInvalidRecID /\ slot' \in Slots /\ temp' = {} /\ selLogFiles' = {}
BY IdAssumption, SlotFacts

LEMMA DieType == TypeOK /\ Die /\ damaged' \in BOOLEAN => TypeOK'
<1> SUFFICES ASSUME TypeOK, Die, damaged' \in BOOLEAN PROVE TypeOK'
  OBVIOUS
<1>1. nextRecordsCache' \in Seq(1 .. selInvalidRecID)
  BY EmptySeq DEF Die
<1>2. FilesTypeOK'
  BY DEF Die, TypeOK, FilesTypeOK, fileVars
<1> QED BY <1>1, <1>2, EndDeleteType DEF Die, TypeOK, States, fileVars

LEMMA TypeNext == TypeOK /\ [Next]_vars => TypeOK'
<1> SUFFICES ASSUME TypeOK, [Next]_vars PROVE TypeOK'
  OBVIOUS
<1> USE DEF TypeOK, States, daemonVars
<1>1. CASE Start
  BY <1>1 DEF Start, fileVars, FilesTypeOK
<1>2. CASE CreateBackup
  BY <1>2, EmptySeq DEF CreateBackup, fileVars, FilesTypeOK
<1>3. CASE StartFromOne
  BY <1>3, IdAssumption DEF StartFromOne, fileVars, FilesTypeOK
<1>4. CASE Refuse
  BY <1>4, IdAssumption DEF Refuse, fileVars, FilesTypeOK
<1>5. CASE GetNewRecordId
  <2>1. recordId' \in RecordIds /\ nextRecordsCache' \in Seq(1 .. selInvalidRecID)
    BY <1>5, UseUpType DEF GetNewRecordId
  <2>2. recordId' \in 0 .. selInvalidRecID
    BY <2>1, IdAssumption DEF RecordIds
  <2>3. backup' \in Seq(1 .. selInvalidRecID)
    BY <1>5, EmptySeq DEF GetNewRecordId
  <2> QED BY <1>5, <2>1, <2>2, <2>3 DEF GetNewRecordId, fileVars, FilesTypeOK
<1>6. CASE BackupCache
  BY <1>6 DEF BackupCache, fileVars, FilesTypeOK
<1>7. CASE SendRecord
  <2>1. FilesTypeOK'
    BY <1>7 DEF SendRecord, Send, FilesTypeOK, Record, fileVars
  <2> QED BY <1>7, <2>1 DEF SendRecord, Send, fileVars
<1>8. CASE Clear /\ ClearBegin
  BY <1>8 DEF Clear, ClearBegin, fileVars, FilesTypeOK
<1>9. CASE Clear /\ ClearRemove
  BY <1>9, ClearRemoveType DEF Clear, ClearRemove, Rest
<1>10. CASE ClearReload
  <2>1. FilesTypeOK'
    BY <1>10 DEF ClearReload, RequestReload, FilesTypeOK
  <2> QED BY <1>10, <2>1 DEF ClearReload
<1>11. CASE ClearReset
  <2>1. nextRecordsCache' \in Seq(1 .. selInvalidRecID)
    BY <1>11, IdAssumption DEF ClearReset
  <2>2. backup' \in Seq(1 .. selInvalidRecID)
    BY <1>11, EmptySeq DEF ClearReset
  <2>3. erased' \in 0 .. sent'
    BY <1>11 DEF ClearReset, FilesTypeOK
  <2>4. FilesTypeOK'
    BY <1>11, <2>3 DEF ClearReset, FilesTypeOK
  <2> QED BY <1>11, <2>1, <2>2, <2>4 DEF ClearReset
<1>12. CASE ClearBackup
  <2>1. backup' \in Seq(1 .. selInvalidRecID)
    BY <1>12, IdAssumption DEF ClearBackup
  <2> QED BY <1>12, <2>1 DEF ClearBackup, fileVars, FilesTypeOK
<1>13. CASE DeleteNoLog
  BY <1>13 DEF DeleteNoLog, vars, fileVars, FilesTypeOK
<1>14. ASSUME NEW id \in 0 .. selInvalidRecID, DeleteBegin(id) PROVE TypeOK'
  BY <1>14 DEF DeleteBegin, fileVars, FilesTypeOK
<1>15. CASE DeleteList
  BY <1>15 DEF DeleteList, fileVars, FilesTypeOK
<1>16. CASE DeleteScanMiss
  BY <1>16 DEF DeleteScanMiss, Rest, fileVars, FilesTypeOK
<1>17. CASE DeleteScanHit
  <2>1. slot' \in exists /\ slot' \in Slots
    BY <1>17 DEF DeleteScanHit, FilesTypeOK
  <2>2. temp' \subseteq Record
    BY <1>17, <2>1 DEF DeleteScanHit, FilesTypeOK
  <2>3. PICK e \in logs[slot'] : e.id = targetId
    BY <1>17 DEF DeleteScanHit, Hits
  <2>4. targetId \in RecordIds
    BY <2>1, <2>3 DEF FilesTypeOK, Record
  <2> QED BY <1>17, <2>1, <2>2, <2>4 DEF DeleteScanHit, fileVars, FilesTypeOK
<1>18. CASE DeleteNotFound
  BY <1>18, EndDeleteType DEF DeleteNotFound, fileVars, FilesTypeOK
<1>19. CASE DeleteTruncate
  <2>1. FilesTypeOK'
    BY <1>19 DEF DeleteTruncate, FilesTypeOK
  <2> QED BY <1>19, <2>1 DEF DeleteTruncate
<1>20. CASE DeleteRewrite
  <2>1. PICK k : logs' = [s \in Slots |->
                  IF s = slot THEN temp \cup {e \in logs[s] : e.n > k} ELSE logs[s]]
    BY <1>20 DEF DeleteRewrite
  <2>2. FilesTypeOK'
    BY <1>20, <2>1, LogAssumption DEF DeleteRewrite, FilesTypeOK, Slots, Orphan
  <2> QED BY <1>20, <2>2 DEF DeleteRewrite
<1>21. CASE DeleteFree
  <2>1. targetId \in 1 .. selInvalidRecID
    BY <1>21, IdAssumption DEF DeleteFree, RecordIds
  <2>2. /\ nextRecordsCache' \in Seq(1 .. selInvalidRecID)
        /\ backup' \in Seq(1 .. selInvalidRecID)
    BY <1>21, <2>1, AppendProperties DEF DeleteFree
  <2> QED BY <1>21, <2>2, EndDeleteType DEF DeleteFree, fileVars, FilesTypeOK
<1>22. CASE Crash
  BY <1>22, DieType DEF Crash
<1>23. CASE AddToEmptyCache
  BY <1>23, DieType DEF AddToEmptyCache
<1>24. CASE Rsyslog
  <2>1. FilesTypeOK'
    BY <1>24, FlushType, SlotFacts DEF Rsyslog, Reload, FilesTypeOK
  <2>2. exists \subseteq exists'
    BY <1>24 DEF Rsyslog, Reload, Flush
  <2> QED BY <1>24, <2>1, <2>2 DEF Rsyslog
<1>25. CASE Rotate
  <2>1. FilesTypeOK'
    BY <1>25, RotateType DEF Rotate
  <2>2. /\ slot' \in Slots \cup {Orphan}
        /\ pc = "truncate" => slot' \in Slots
        /\ pc = "rewrite" => slot' \in exists' \cup {Orphan}
    BY <1>25, LogAssumption DEF Rotate, RotateFiles, Slots, Orphan, FilesTypeOK
  <2> QED BY <1>25, <2>1, <2>2 DEF Rotate
<1>26. CASE UNCHANGED vars
  BY <1>26 DEF vars, fileVars, FilesTypeOK
<1> QED
  BY <1>1, <1>2, <1>3, <1>4, <1>5, <1>6, <1>7, <1>8, <1>9, <1>10, <1>11,
     <1>12, <1>13, <1>14, <1>15, <1>16, <1>17, <1>18, <1>19, <1>20, <1>21, <1>22,
     <1>23, <1>24, <1>25, <1>26 DEF Next, Daemon, Clear, Clients

(* Every variable keeps its type, whatever the daemon, its clients, rsyslog*)
(* and logrotate do.                                                       *)
THEOREM TypeCorrect == Spec => []TypeOK
<1> QED BY TypeInit, TypeNext, PTL DEF Spec

-----------------------------------------------------------------------------
(* What is given out and what is on the stack.                             *)

(* Giving out the top of a stack leaves a stack that the id is not on, and *)
(* that no other id has come onto.                                         *)
LEMMA StackUseUp ==
  ASSUME NEW s \in Seq(1 .. selInvalidRecID), Stack(s), ~IsFull(s)
  PROVE  /\ Stack(UseUp(s))
         /\ GivenOut(Top(s), UseUp(s))
         /\ \A i \in RecordIds : GivenOut(i, s) => GivenOut(i, UseUp(s)) /\ i # Top(s)
<1>1. Len(s) \in Nat \ {0}
  BY EmptySeq DEF Stack
<1>2. \A k \in 1 .. Len(s) : s[k] \in 1 .. selInvalidRecID
  BY ElementOfSeq
<1>3. CASE Len(s) = 1
  <2>1. UseUp(s) = <<s[1] + 1>>
    BY <1>3 DEF UseUp, Top
  <2>2. Len(UseUp(s)) = 1 /\ UseUp(s)[1] = s[1] + 1 /\ UseUp(s) # <<>>
    BY <2>1
  <2>3. s[1] \in Nat
    BY <1>2, <1>3, IdAssumption
  <2> QED BY <1>3, <2>2, <2>3, IdAssumption DEF Stack, GivenOut, Top, RecordIds
<1>4. CASE Len(s) # 1
  <2>1. UseUp(s) = SubSeq(s, 1, Len(s) - 1)
    BY <1>4 DEF UseUp, Pop
  <2>2. /\ UseUp(s) \in Seq(1 .. selInvalidRecID)
        /\ Len(UseUp(s)) = Len(s) - 1
        /\ \A k \in 1 .. Len(s) - 1 : UseUp(s)[k] = s[k]
    <3> DEFINE n == Len(s)
    <3>0. n \in Nat \ {0} /\ n # 1
      BY <1>1, <1>4
    <3>1. 1 \in Int /\ n - 1 \in Int /\ 1 <= n - 1
      <4> HIDE DEF n
      <4> QED BY <3>0
    <3>2. \A k \in 1 .. Len(s) - 1 : s[k] \in 1 .. selInvalidRecID
      BY <1>1, <1>2
    <3>3. /\ SubSeq(s, 1, Len(s) - 1) \in Seq(1 .. selInvalidRecID)
          /\ Len(SubSeq(s, 1, Len(s) - 1)) = (Len(s) - 1) - 1 + 1
          /\ \A k \in 1 .. (Len(s) - 1) - 1 + 1 :
               SubSeq(s, 1, Len(s) - 1)[k] = s[1 + k - 1]
      BY <3>1, <3>2, SubSeqProperties
    <3> QED BY <1>1, <2>1, <3>3
  <2>3. UseUp(s) # <<>>
    BY <1>1, <1>4, <2>2, EmptySeq
  <2> QED BY <1>1, <1>2, <1>4, <2>2, <2>3, IdAssumption
          DEF Stack, GivenOut, Top, RecordIds
<1> QED BY <1>3, <1>4

(* An id that was given out can be put back on the stack.                  *)
LEMMA StackAppend ==
  ASSUME NEW s \in Seq(1 .. selInvalidRecID), Stack(s),
         NEW i \in RecordIds, GivenOut(i, s)
  PROVE  /\ Stack(Append(s, i))
         /\ \A j \in RecordIds \ {i} : GivenOut(j, s) => GivenOut(j, Append(s, i))
<1>1. Len(s) \in Nat \ {0}
  BY EmptySeq DEF Stack
<1>2. i \in 1 .. selInvalidRecID
  BY IdAssumption DEF RecordIds
<1>3. /\ Append(s, i) # <<>>
      /\ Len(Append(s, i)) = Len(s) + 1
      /\ \A k \in 1 .. Len(s) : Append(s, i)[k] = s[k]
      /\ Append(s, i)[Len(s) + 1] = i
  BY <1>2, AppendProperties
<1> QED BY <1>1, <1>3 DEF Stack, GivenOut

LEMMA StackOne ==
  /\ Stack(<<1>>)
  /\ <<1>> \in Seq(1 .. selInvalidRecID)
BY IdAssumption DEF Stack

-----------------------------------------------------------------------------
(* Records: only sd_journal_send adds one.                                 *)

LEMMA AllNext ==
  ASSUME TypeOK, [Next]_vars, ~SendRecord
  PROVE  All' \subseteq All /\ sent' = sent
<1> USE DEF All, Visible, Logged
<1>1. CASE UNCHANGED <<journal, logs, temp, sent>>
  BY <1>1
<1>2. CASE Daemon /\ ~UNCHANGED <<journal, logs, temp, sent>>
  <2>1. CASE Clear /\ ClearRemove
    BY <2>1 DEF Clear, ClearRemove, TypeOK, FilesTypeOK
  <2>2. CASE DeleteScanHit
    <3>1. temp' \subseteq logs[slot'] /\ slot' \in Slots
      BY <2>2 DEF DeleteScanHit, TypeOK, FilesTypeOK
    <3> QED BY <2>2, <3>1 DEF DeleteScanHit, fileVars
  <2>3. CASE DeleteTruncate
    BY <2>3 DEF DeleteTruncate, TypeOK, FilesTypeOK
  <2>4. CASE DeleteRewrite
    BY <2>4 DEF DeleteRewrite
  <2>5. CASE DeleteList \/ DeleteScanMiss \/ DeleteNotFound \/ DeleteFree
    BY <1>2, <2>5
       DEF DeleteList, DeleteScanMiss, DeleteNotFound, DeleteFree, EndDelete, fileVars
  <2>6. CASE Start \/ CreateBackup \/ StartFromOne \/ BackupCache
    BY <1>2, <2>6 DEF Start, CreateBackup, StartFromOne, BackupCache, fileVars
  <2>7. CASE (Clear /\ ClearBegin) \/ ClearReload \/ ClearReset \/ ClearBackup
    BY <1>2, <2>7
       DEF Clear, ClearBegin, ClearReload, RequestReload, ClearReset, ClearBackup, fileVars
  <2> QED BY <1>2, <2>1, <2>2, <2>3, <2>4, <2>5, <2>6, <2>7 DEF Daemon, Clear
<1>3. CASE Clients /\ ~UNCHANGED <<journal, logs, temp, sent>>
  BY <1>3 DEF Clients, Refuse, GetNewRecordId, AddToEmptyCache, Die, ClearBegin,
              DeleteNoLog, DeleteBegin, vars, fileVars, daemonVars
<1>4. CASE Crash
  BY <1>4 DEF Crash, Die, fileVars
<1>5. CASE Rsyslog
  BY <1>5 DEF Rsyslog, Flush, Reload, daemonVars
<1>6. CASE Rotate
  BY <1>6, LogAssumption DEF Rotate, RotateFiles, Slots
<1> QED BY <1>1, <1>2, <1>3, <1>4, <1>5, <1>6 DEF Next, vars, fileVars, daemonVars

LEMMA SentNext == TypeOK /\ SentInv /\ [Next]_vars => SentInv'
<1> SUFFICES ASSUME TypeOK, SentInv, [Next]_vars PROVE SentInv'
  OBVIOUS
<1>1. CASE SendRecord
  <2>1. \/ All' = All /\ sent' = sent
        \/ All' = All \cup {[id |-> recordId, n |-> sent + 1]} /\ sent' = sent + 1
    BY <1>1 DEF SendRecord, Send, All, Visible, Logged, fileVars
  <2>2. \A e \in All : e.n \in Nat
    BY DEF All, Visible, Logged, TypeOK, FilesTypeOK, Record
  <2> QED BY <2>1, <2>2 DEF SentInv, TypeOK, FilesTypeOK
<1>2. CASE ~SendRecord
  BY <1>2, AllNext DEF SentInv
<1> QED BY <1>1, <1>2

(* Current records only get fewer, and all together with Clear.            *)
LEMMA CurNext ==
  ASSUME TypeOK, SentInv, [Next]_vars, ~SendRecord
  PROVE  Cur' \subseteq Cur
<1>1. All' \subseteq All
  BY AllNext
<1>2. CASE ClearReset
  <2>1. \A e \in All' : ~(e.n > erased')
    <3>1. \A e \in All : e.n \in Nat /\ e.n <= sent
      BY DEF SentInv, All, Visible, Logged, TypeOK, FilesTypeOK, Record
    <3> QED BY <1>1, <1>2, <3>1 DEF ClearReset, TypeOK, FilesTypeOK
  <2> QED BY <2>1 DEF Cur, Current
<1>3. CASE ~ClearReset
  <2>1. erased' = erased
    BY <1>3 DEF Next, Daemon, Clear, Clients, Start, CreateBackup, StartFromOne,
         BackupCache, SendRecord, Send, ClearRemove,
         ClearReload, RequestReload, ClearBackup, DeleteScanMiss, DeleteScanHit,
         DeleteNotFound, DeleteTruncate, DeleteRewrite, DeleteFree, Refuse,
         GetNewRecordId, AddToEmptyCache, Die, ClearBegin, DeleteNoLog, DeleteBegin, DeleteList,
         Crash, Rsyslog, Flush, Reload, Rotate, RotateFiles, vars, fileVars
  <2> QED BY <1>1, <2>1 DEF Cur, Current
<1> QED BY <1>2, <1>3

LEMMA BootSyncNext ==
  TypeOK /\ BootInv /\ SyncInv /\ [Next]_vars => BootInv' /\ SyncInv'
<1> SUFFICES ASSUME TypeOK, BootInv, SyncInv, [Next]_vars
             PROVE  BootInv' /\ SyncInv'
  OBVIOUS
<1>1. CASE SendRecord
  BY <1>1 DEF SendRecord, BootInv, SyncInv, Truncated
<1>2. CASE ~SendRecord
  <2>1. All' \subseteq All
    BY <1>2, AllNext
  <2>2. BootInv'
    BY <1>2, <2>1
       DEF BootInv, Next, Daemon, Clear, Clients, Start, CreateBackup, StartFromOne,
         BackupCache, ClearRemove, ClearReload, ClearReset, ClearBackup,
         DeleteScanMiss, DeleteScanHit, DeleteNotFound, DeleteTruncate,
         DeleteRewrite, DeleteFree, Refuse, GetNewRecordId, AddToEmptyCache, Die,
         ClearBegin, DeleteNoLog, DeleteBegin, DeleteList, Crash, Rsyslog, Rotate, vars,
         daemonVars
  <2>3. SyncInv'
    <3>1. CASE Start \/ StartFromOne \/ BackupCache \/ ClearBackup
      BY <3>1 DEF SyncInv, Truncated, Start, StartFromOne, BackupCache, ClearBackup
    <3>2. CASE DeleteFree
      BY <3>2 DEF SyncInv, Truncated, DeleteFree
    <3>3. CASE CreateBackup \/ GetNewRecordId \/ ClearReset \/ Crash \/ AddToEmptyCache
      BY <3>3 DEF SyncInv, Truncated, CreateBackup, GetNewRecordId, ClearReset,
                  Crash, AddToEmptyCache, Die
    <3>4. CASE /\ UNCHANGED <<backup, nextRecordsCache>>
               /\ pc \notin Truncated \cup {"down"} /\ pc' # "clear"
      BY <3>4 DEF SyncInv
    <3>5. CASE UNCHANGED <<backup, nextRecordsCache, pc>>
      BY <3>5 DEF SyncInv
    <3> QED BY <1>2, <3>1, <3>2, <3>3, <3>4, <3>5
       DEF Next, Daemon, Clear, Clients, ClearRemove, ClearReload,
         DeleteScanMiss, DeleteScanHit, DeleteNotFound, DeleteTruncate,
         DeleteRewrite, Refuse, ClearBegin, DeleteNoLog, DeleteBegin, DeleteList, Rsyslog,
         Rotate, Truncated, vars, daemonVars
  <2> QED BY <2>2, <2>3
<1> QED BY <1>1, <1>2

-----------------------------------------------------------------------------
(* Each part of TrustInv, over a step that does not lose trust.            *)

LEMMA SendCur ==
  SendRecord => Cur' \subseteq Cur \cup {[id |-> recordId, n |-> sent + 1]}
BY DEF SendRecord, Send, Cur, Current, All, Visible, Logged, fileVars

LEMMA CurType == TypeOK => \A e \in Cur : e.id \in RecordIds
BY DEF Cur, Current, All, Visible, Logged, TypeOK, FilesTypeOK, Record

LEMMA UniqueNext ==
  ASSUME IInv, TrustInv, [Next]_vars
  PROVE  UniqueInv'
<1>1. CASE SendRecord
  <2>1. Fresh(recordId)
    BY <1>1 DEF SendRecord, TrustInv, AddInv
  <2> QED BY <1>1, <2>1, SendCur DEF UniqueInv, TrustInv, Fresh
<1>2. CASE ~SendRecord
  BY <1>2, CurNext DEF IInv, TrustInv, UniqueInv
<1> QED BY <1>1, <1>2

LEMMA ApartNext ==
  ASSUME IInv, TrustInv, [Next]_vars
  PROVE  ApartInv'
<1> USE DEF TrustInv, ApartInv
<1>1. CASE SendRecord
  <2> DEFINE new == [id |-> recordId, n |-> sent + 1]
  <2>1. /\ journal' = journal \/ journal' = journal \cup {new}
        /\ logs' = logs /\ Cur' \subseteq Cur \cup {new}
    BY <1>1, SendCur DEF SendRecord, Send, fileVars
  <2>2. \A s \in Slots : new \notin logs[s]
    BY DEF IInv, SentInv, All, Visible, Logged, TypeOK, FilesTypeOK
  <2> QED BY <2>1, <2>2
<1>2. CASE ~SendRecord
  <2>0. Cur' \subseteq Cur
    BY <1>2, CurNext DEF IInv
  <2>1. CASE UNCHANGED <<journal, logs>>
    BY <2>0, <2>1
  <2>2. CASE ClearRemove
    BY <2>0, <2>2 DEF ClearRemove, IInv, TypeOK, FilesTypeOK
  <2>3. CASE DeleteTruncate
    BY <2>0, <2>3 DEF DeleteTruncate, IInv, TypeOK, FilesTypeOK
  <2>4. CASE DeleteRewrite
    <3>1. \A s \in Slots : logs'[s] \subseteq IF s = slot THEN logs[s] \cup temp ELSE logs[s]
      BY <2>4 DEF DeleteRewrite
    <3>2. \A e \in Cur : e \in temp =>
            e \notin journal /\ \A t \in Slots \ {slot} : e \notin logs[t]
      BY <2>4 DEF DeleteRewrite, TempInv
    <3>3. journal' = journal
      BY <2>4 DEF DeleteRewrite
    <3> QED BY <2>0, <3>1, <3>2, <3>3
  <2>5. CASE Rsyslog
    BY <2>0, <2>5 DEF Rsyslog, Flush, Reload
  <2>6. CASE Rotate
    <3>1. /\ journal' = journal
          /\ \A s \in Slots : s # 0 => s - 1 \in Slots /\ logs'[s] = logs[s - 1]
          /\ logs'[0] = {}
      BY <2>6, LogAssumption DEF Rotate, RotateFiles, Slots
    <3>2. \A s, t \in Slots : s # t => s - 1 # t - 1
      BY DEF Slots
    <3> QED BY <2>0, <3>1, <3>2
  <2> QED BY <1>2, <2>1, <2>2, <2>3, <2>4, <2>5, <2>6
     DEF Next, Daemon, Clear, Clients, Start, CreateBackup, StartFromOne, BackupCache,
       ClearReload, RequestReload, ClearReset, ClearBackup,
       DeleteScanMiss, DeleteScanHit, DeleteNotFound, DeleteFree, Refuse,
       GetNewRecordId, AddToEmptyCache, Die, ClearBegin, DeleteNoLog, DeleteBegin, DeleteList,
       Crash, vars, fileVars
<1> QED BY <1>1, <1>2

LEMMA CacheNext ==
  ASSUME IInv, TrustInv, [Next]_vars, ~ClearReset
  PROVE  CacheInv'
<1> USE DEF TrustInv, CacheInv
<1>0. \A e \in Cur : e.id \in RecordIds
  BY CurType DEF IInv
<1>1. CASE SendRecord
  <2>1. GivenOut(recordId, nextRecordsCache) /\ Good(nextRecordsCache)
    BY <1>1 DEF SendRecord, AddInv
  <2>2. nextRecordsCache' = nextRecordsCache
    BY <1>1 DEF SendRecord
  <2> QED BY <1>1, <2>1, <2>2, SendCur DEF Good
<1>2. CASE ~SendRecord
  <2>0. Cur' \subseteq Cur
    BY <1>2, CurNext DEF IInv
  <2>1. CASE Start
    BY <2>0, <2>1 DEF Start, BackupInv, Good
  <2>2. CASE StartFromOne
    <3>1. Cur = {}
      BY <2>2 DEF StartFromOne, IInv, BootInv, Cur, Current
    <3> QED BY <2>0, <2>2, <3>1, StackOne DEF StartFromOne, Good
  <2>3. CASE GetNewRecordId
    <3>1. Good(nextRecordsCache) /\ ~IsFull(nextRecordsCache)
      BY <2>3 DEF GetNewRecordId
    <3>2. nextRecordsCache \in Seq(1 .. selInvalidRecID)
      BY DEF IInv, TypeOK
    <3>3. /\ Stack(UseUp(nextRecordsCache))
          /\ \A e \in Cur : GivenOut(e.id, UseUp(nextRecordsCache))
      BY <1>0, <3>1, <3>2, StackUseUp DEF Good
    <3> QED BY <2>0, <2>3, <3>3 DEF GetNewRecordId, Good
  <2>4. CASE DeleteFree
    <3>1. /\ Good(nextRecordsCache)
          /\ Fresh(targetId) /\ GivenOut(targetId, nextRecordsCache)
      BY <2>4 DEF DeleteFree, DeleteInv
    <3>2. nextRecordsCache \in Seq(1 .. selInvalidRecID) /\ targetId \in RecordIds
      BY <2>4 DEF DeleteFree, IInv, TypeOK
    <3>3. /\ Stack(Append(nextRecordsCache, targetId))
          /\ \A e \in Cur : GivenOut(e.id, Append(nextRecordsCache, targetId))
      BY <1>0, <3>1, <3>2, StackAppend DEF Good, Fresh
    <3> QED BY <2>0, <2>4, <3>3 DEF DeleteFree, Good
  <2>5. CASE pc' \in {"down", "create"}
    BY <2>5
  <2>6. CASE nextRecordsCache' = nextRecordsCache /\ pc \notin {"down", "create"}
    BY <2>0, <2>6 DEF Good
  <2> QED BY <1>2, <2>1, <2>2, <2>3, <2>4, <2>5, <2>6
     DEF Next, Daemon, Clear, Clients, CreateBackup, BackupCache, ClearRemove,
       ClearReload, ClearReset, ClearBackup, DeleteScanMiss, DeleteScanHit,
       DeleteNotFound, DeleteTruncate, DeleteRewrite, Refuse, AddToEmptyCache, Die,
       ClearBegin, DeleteNoLog, DeleteBegin, DeleteList, Crash, Rsyslog, Rotate, vars, daemonVars
<1> QED BY <1>1, <1>2

LEMMA BackupNext ==
  ASSUME IInv, TrustInv, [Next]_vars, ~damaged'
  PROVE  BackupInv'
<1> SUFFICES ASSUME pc' = "down", created' PROVE Good(backup)'
  BY DEF BackupInv
<1>0. ~SendRecord /\ Cur' \subseteq Cur
  BY CurNext DEF IInv, SendRecord
<1>1. CASE Crash
  <2>1. pc \notin Truncated \cup {"down"}
    BY <1>1 DEF Crash
  <2>2. Good(nextRecordsCache) /\ backup = nextRecordsCache
    BY <2>1 DEF Truncated, TrustInv, CacheInv, IInv, SyncInv
  <2> QED BY <1>0, <1>1, <2>2 DEF Crash, Die, Good
<1>2. CASE AddToEmptyCache
  BY <1>2 DEF AddToEmptyCache, TrustInv, CacheInv, Good, Stack
<1>3. CASE UNCHANGED <<pc, backup, created>>
  BY <1>0, <1>3 DEF TrustInv, BackupInv, Good
<1> QED BY <1>0, <1>1, <1>2, <1>3
   DEF Next, Daemon, Clear, Clients, Start, CreateBackup, StartFromOne, BackupCache,
     ClearRemove, ClearReload, ClearReset, ClearBackup, DeleteScanMiss,
     DeleteScanHit, DeleteNotFound, DeleteTruncate, DeleteRewrite, DeleteFree,
     Refuse, GetNewRecordId, ClearBegin, DeleteNoLog, DeleteBegin, DeleteList, Rsyslog, Rotate,
     vars, daemonVars

LEMMA AddNext ==
  ASSUME IInv, TrustInv, [Next]_vars
  PROVE  AddInv'
<1> SUFFICES ASSUME pc' \in {"backup", "send"}
             PROVE  (Fresh(recordId) /\ GivenOut(recordId, nextRecordsCache))'
  BY DEF AddInv
<1>0. ~SendRecord /\ Cur' \subseteq Cur
  BY CurNext DEF IInv, SendRecord
<1>1. CASE GetNewRecordId
  <2>1. /\ Good(nextRecordsCache) /\ ~IsFull(nextRecordsCache)
        /\ recordId' = Top(nextRecordsCache)
        /\ nextRecordsCache' = UseUp(nextRecordsCache)
    BY <1>1 DEF GetNewRecordId, TrustInv, CacheInv
  <2>2. nextRecordsCache \in Seq(1 .. selInvalidRecID)
    BY DEF IInv, TypeOK
  <2>3. /\ GivenOut(Top(nextRecordsCache), UseUp(nextRecordsCache))
        /\ \A e \in Cur : e.id # Top(nextRecordsCache)
    BY <2>1, <2>2, StackUseUp, CurType DEF Good, IInv
  <2> QED BY <1>0, <2>1, <2>3 DEF Fresh, GivenOut
<1>2. CASE UNCHANGED <<recordId, nextRecordsCache>> /\ pc \in {"backup", "send"}
  BY <1>0, <1>2 DEF TrustInv, AddInv, Fresh, GivenOut
<1> QED BY <1>0, <1>1, <1>2
   DEF Next, Daemon, Clear, Clients, Start, CreateBackup, StartFromOne, BackupCache,
     ClearRemove, ClearReload, ClearReset, ClearBackup, DeleteScanMiss,
     DeleteScanHit, DeleteNotFound, DeleteTruncate, DeleteRewrite, DeleteFree,
     Refuse, AddToEmptyCache, Die, ClearBegin, DeleteNoLog, DeleteBegin, DeleteList, Crash,
     Rsyslog, Rotate, vars, daemonVars

LEMMA DeleteNext ==
  ASSUME IInv, TrustInv, [Next]_vars, ~damaged'
  PROVE  DeleteInv'
<1> SUFFICES ASSUME pc' \in {"truncate", "rewrite", "free"} PROVE DeleteInv'
  BY DEF DeleteInv
<1>0. ~SendRecord /\ Cur' \subseteq Cur
  BY CurNext DEF IInv, SendRecord
<1>1. CASE DeleteScanHit
  <2>1. PICK e \in Current(Hits(slot')) : TRUE
    BY <1>1 DEF DeleteScanHit
  <2>2. slot' \in Slots
    BY <1>1 DEF DeleteScanHit, IInv, TypeOK, FilesTypeOK
  <2>3. e \in Cur /\ e.id = targetId
    BY <2>1, <2>2 DEF Hits, Cur, Current, All, Visible, Logged
  <2>4. Good(nextRecordsCache)
    BY <1>1 DEF DeleteScanHit, TrustInv, CacheInv
  <2> QED BY <1>1, <2>3, <2>4 DEF DeleteScanHit, DeleteInv, Good, GivenOut
<1>2. CASE DeleteTruncate
  <2>1. slot \in Slots
    BY <1>2 DEF DeleteTruncate, IInv, TypeOK
  <2>2. /\ logs'[slot] = {} /\ \A t \in Slots \ {slot} : logs'[t] = logs[t]
        /\ journal' = journal /\ temp' = temp /\ erased' = erased
    BY <1>2, <2>1 DEF DeleteTruncate, IInv, TypeOK, FilesTypeOK
  <2>3. \A e \in Cur : e.id = targetId =>
          e \in logs[slot] /\ e \notin temp /\ e \notin journal
            /\ \A t \in Slots \ {slot} : e \notin logs[t]
    BY <1>2, <2>1 DEF DeleteTruncate, TrustInv, TargetInv, ApartInv
  <2>4. \A e \in Cur' : e.id # targetId
    <3>1. \A e \in Cur' : e \in journal' \/ e \in temp' \/ \E t \in Slots : e \in logs'[t]
      BY DEF Cur, Current, All, Visible, Logged
    <3> QED BY <1>0, <2>2, <2>3, <3>1
  <2> QED BY <1>2, <2>4 DEF DeleteTruncate, TrustInv, DeleteInv, Fresh, GivenOut
<1>3. CASE DeleteRewrite
  BY <1>0, <1>3 DEF DeleteRewrite, TrustInv, DeleteInv, Fresh, GivenOut
<1>4. CASE UNCHANGED <<pc, targetId, nextRecordsCache>>
  BY <1>0, <1>4 DEF TrustInv, DeleteInv, Fresh, GivenOut
<1> QED BY <1>0, <1>1, <1>2, <1>3, <1>4
   DEF Next, Daemon, Clear, Clients, Start, CreateBackup, StartFromOne, BackupCache,
     ClearRemove, ClearReload, ClearReset, ClearBackup, DeleteScanMiss,
     DeleteNotFound, DeleteFree, Refuse, GetNewRecordId, AddToEmptyCache, Die,
     ClearBegin, DeleteNoLog, DeleteBegin, DeleteList, Crash, Rsyslog, Rotate, vars, daemonVars

LEMMA TempNext ==
  ASSUME IInv, TrustInv, [Next]_vars, ~damaged'
  PROVE  TempInv'
<1> SUFFICES ASSUME pc' \in {"truncate", "rewrite"} PROVE TempInv'
  BY DEF TempInv
<1>0. ~SendRecord /\ Cur' \subseteq Cur
  BY CurNext DEF IInv, SendRecord
<1> USE DEF TempInv
<1>1. CASE DeleteScanHit
  <2>1. slot' \in Slots /\ temp' \subseteq logs[slot']
    BY <1>1 DEF DeleteScanHit, IInv, TypeOK, FilesTypeOK
  <2> QED BY <1>0, <1>1, <2>1 DEF DeleteScanHit, TrustInv, ApartInv, fileVars
<1>2. CASE DeleteTruncate
  <2>1. \A t \in Slots \ {slot} : logs'[t] = logs[t]
    BY <1>2 DEF DeleteTruncate, IInv, TypeOK, FilesTypeOK
  <2> QED BY <1>0, <1>2, <2>1 DEF DeleteTruncate, TrustInv
<1>3. CASE Rsyslog
  BY <1>0, <1>3 DEF Rsyslog, Flush, Reload, daemonVars, TrustInv
<1>4. CASE Rotate
  <2>1. pc = "rewrite" /\ pc' = pc /\ temp' = temp
    BY <1>4 DEF Rotate
  <2>2. slot' = IF slot \in Slots THEN slot + 1 ELSE slot
    BY <1>4, <2>1 DEF Rotate
  <2>3. /\ journal' = journal
        /\ \A t \in Slots : t # 0 => t - 1 \in Slots /\ logs'[t] = logs[t - 1]
        /\ logs'[0] = {}
    BY <1>4, LogAssumption DEF Rotate, RotateFiles, Slots
  <2>4. \A t \in Slots \ {slot'} : t # 0 => t - 1 \in Slots \ {slot}
    BY <2>2, <2>3, LogAssumption DEF Slots
  <2> QED BY <1>0, <2>1, <2>3, <2>4 DEF TrustInv
<1>5. CASE UNCHANGED vars
  BY <1>0, <1>5 DEF vars, fileVars, daemonVars, TrustInv
<1> QED BY <1>0, <1>1, <1>2, <1>3, <1>4, <1>5
   DEF Next, Daemon, Clear, Clients, Start, CreateBackup, StartFromOne, BackupCache,
     ClearRemove, ClearReload, ClearReset, ClearBackup, DeleteScanMiss,
     DeleteNotFound, DeleteRewrite, DeleteFree, Refuse, GetNewRecordId,
     AddToEmptyCache, Die, ClearBegin, DeleteNoLog, DeleteBegin, DeleteList, Crash, vars

LEMMA TargetNext ==
  ASSUME IInv, TrustInv, [Next]_vars, ~damaged'
  PROVE  TargetInv'
<1> SUFFICES ASSUME pc' = "truncate" PROVE TargetInv'
  BY DEF TargetInv
<1>0. ~SendRecord /\ Cur' \subseteq Cur
  BY CurNext DEF IInv, SendRecord
<1>1. CASE DeleteScanHit
  <2>1. slot' \in Slots
    BY <1>1 DEF DeleteScanHit, IInv, TypeOK, FilesTypeOK
  <2>2. PICK e \in Current(Hits(slot')) : TRUE
    BY <1>1 DEF DeleteScanHit
  <2>3. e \in Cur /\ e.id = targetId /\ e \in logs[slot'] /\ e \notin temp'
    BY <1>1, <2>1, <2>2
       DEF DeleteScanHit, Hits, Cur, Current, All, Visible, Logged
  <2>4. \A f \in Cur : f.id = targetId => f = e
    BY <2>3 DEF TrustInv, UniqueInv
  <2>5. logs' = logs /\ targetId' = targetId
    BY <1>1 DEF DeleteScanHit, fileVars
  <2> QED BY <1>0, <2>3, <2>4, <2>5 DEF TargetInv
<1>2. CASE Rsyslog
  <2>1. pc = "truncate" /\ UNCHANGED <<slot, temp, targetId>> /\ slot \in Slots
    BY <1>2 DEF Rsyslog, daemonVars, IInv, TypeOK
  <2>2. logs[slot] \subseteq logs'[slot]
    BY <1>2, <2>1 DEF Rsyslog, Flush, Reload
  <2> QED BY <1>0, <2>1, <2>2 DEF TrustInv, TargetInv
<1>3. CASE UNCHANGED vars
  BY <1>0, <1>3 DEF vars, fileVars, daemonVars, TrustInv, TargetInv
<1> QED BY <1>0, <1>1, <1>2, <1>3
   DEF Next, Daemon, Clear, Clients, Start, CreateBackup, StartFromOne, BackupCache,
     ClearRemove, ClearReload, ClearReset, ClearBackup, DeleteScanMiss,
     DeleteNotFound, DeleteTruncate, DeleteRewrite, DeleteFree, Refuse,
     GetNewRecordId, AddToEmptyCache, Die, ClearBegin, DeleteNoLog, DeleteBegin, DeleteList,
     Crash, Rotate, vars

(* Clear starts over: there is no current record, and every id is free.    *)
LEMMA ClearTrust ==
  ASSUME IInv, ClearReset
  PROVE  TrustInv'
<1>1. Cur' = {}
  <2>1. SentInv'
    BY SentNext DEF IInv, Next, Daemon
  <2>2. sent' \in Nat /\ erased' = sent' /\ \A e \in All' : e.n \in Nat
    BY DEF ClearReset, IInv, TypeOK, FilesTypeOK, All, Visible, Logged, Record
  <2> QED BY <2>1, <2>2 DEF SentInv, Cur, Current
<1>2. pc' = "clear" /\ nextRecordsCache' = <<1>>
  BY DEF ClearReset
<1>3. CacheInv'
  BY <1>1, <1>2, StackOne DEF CacheInv, Good
<1>4. UniqueInv' /\ ApartInv' /\ TempInv' /\ TargetInv'
  BY <1>1 DEF UniqueInv, ApartInv, TempInv, TargetInv
<1>5. BackupInv' /\ AddInv' /\ DeleteInv'
  BY <1>2 DEF BackupInv, AddInv, DeleteInv
<1> QED BY <1>3, <1>4, <1>5 DEF TrustInv

-----------------------------------------------------------------------------
(* The inductive invariant, and what follows from it.                      *)

LEMMA IInvInit == Init => IInv
<1> SUFFICES ASSUME Init PROVE IInv
  OBVIOUS
<1>1. All = {} /\ Cur = {}
  BY DEF Init, FilesInit, All, Visible, Logged, Cur, Current
<1>2. SentInv /\ BootInv /\ SyncInv
  BY <1>1 DEF Init, FilesInit, SentInv, BootInv, SyncInv, Truncated
<1>3. TrustInv
  BY <1>1 DEF Init, FilesInit, TrustInv, UniqueInv, ApartInv, CacheInv, BackupInv, AddInv,
              DeleteInv, TempInv, TargetInv
<1> QED BY <1>2, <1>3, TypeInit DEF IInv

LEMMA IInvNext == IInv /\ [Next]_vars => IInv'
<1> SUFFICES ASSUME IInv, [Next]_vars PROVE IInv'
  OBVIOUS
<1>1. TypeOK' /\ SentInv' /\ BootInv' /\ SyncInv'
  BY TypeNext, SentNext, BootSyncNext DEF IInv
<1>2. ASSUME ~damaged' PROVE TrustInv'
  <2>1. CASE ClearReset
    BY <2>1, ClearTrust
  <2>2. CASE ~ClearReset
    <3>1. ~damaged
      BY <1>2, <2>2
         DEF Next, Daemon, Clear, Clients, Start, CreateBackup, StartFromOne, BackupCache,
           SendRecord, ClearRemove, ClearReload, ClearBackup,
           DeleteScanMiss, DeleteScanHit, DeleteNotFound, DeleteTruncate,
           DeleteRewrite, DeleteFree, Refuse, GetNewRecordId, AddToEmptyCache, Die,
           ClearBegin, DeleteNoLog, DeleteBegin, DeleteList, Crash, Rsyslog, Rotate, vars,
           daemonVars
    <3>2. TrustInv
      BY <3>1 DEF IInv
    <3> QED
      BY <1>2, <2>2, <3>2, UniqueNext, ApartNext, CacheNext, BackupNext, AddNext,
         DeleteNext, TempNext, TargetNext DEF TrustInv
  <2> QED BY <2>1, <2>2
<1> QED BY <1>1, <1>2 DEF IInv

LEMMA Invariance == Spec => []IInv
<1> QED BY IInvInit, IInvNext, PTL DEF Spec

(* No two records since the last Clear share an id, unless an id was lost  *)
(* in one of the ways "damaged" records.                                   *)
THEOREM IdsAreUnique == Spec => []UniqueIds
<1>1. IInv => UniqueIds
  BY DEF IInv, TrustInv, UniqueInv, UniqueIds, UniqueSinceClear, Cur, Current, All
<1> QED BY <1>1, Invariance, PTL

(* What initializeRecordId would read back is what the daemon has.         *)
THEOREM RestartsKeepThePool == Spec => []RestartKeepsPool
<1>1. IInv => RestartKeepsPool
  BY DEF IInv, SyncInv, Truncated, RestartKeepsPool
<1> QED BY <1>1, Invariance, PTL

LEMMA GivenOutNotFree ==
  ASSUME NEW s \in Seq(1 .. selInvalidRecID), Stack(s),
         NEW i \in RecordIds, GivenOut(i, s)
  PROVE  i \notin FreeIds(s)
<1>1. Len(s) \in Nat \ {0} /\ DOMAIN s = 1 .. Len(s)
  BY EmptySeq, LenProperties DEF Stack
<1>2. s[1] \in Nat /\ i \in Nat
  BY <1>1, ElementOfSeq, IdAssumption DEF RecordIds
<1> QED BY <1>1, <1>2 DEF GivenOut, FreeIds

(* No id that is offered next is on a record that is still there.          *)
THEOREM FreeIdsAreUnheld == Spec => []FreeIdsUnheld
<1>1. ASSUME IInv, ~damaged, NEW e \in Current(Visible) PROVE e.id \notin FreePool
  <2>1. e \in Cur /\ All # {}
    BY DEF Cur, Current, All
  <2>2. created /\ pc # "create"
    BY <1>1, <2>1 DEF IInv, BootInv
  <2>3. e.id \in RecordIds
    BY <1>1, <2>1, CurType DEF IInv
  <2> DEFINE stack == IF pc = "down" THEN backup ELSE nextRecordsCache
  <2>4. Stack(stack) /\ GivenOut(e.id, stack)
    BY <1>1, <2>1, <2>2 DEF IInv, TrustInv, BackupInv, CacheInv, Good
  <2>5. stack \in Seq(1 .. selInvalidRecID)
    BY <1>1 DEF IInv, TypeOK
  <2>6. e.id \notin FreeIds(stack)
    <3> HIDE DEF stack
    <3> QED BY <2>3, <2>4, <2>5, GivenOutNotFree
  <2> QED BY <2>2, <2>6 DEF FreePool
<1>2. IInv => FreeIdsUnheld
  BY <1>1 DEF FreeIdsUnheld
<1> QED BY <1>2, Invariance, PTL

-----------------------------------------------------------------------------
(* The stack implements RecordIdPool.                                      *)

LEMMA FreeUseUp ==
  ASSUME NEW s \in Seq(1 .. selInvalidRecID), Stack(s), ~IsFull(s)
  PROVE  Top(s) \in FreeIds(s) /\ FreeIds(UseUp(s)) = FreeIds(s) \ {Top(s)}
<1>1. Len(s) \in Nat \ {0} /\ DOMAIN s = 1 .. Len(s)
  BY EmptySeq, LenProperties DEF Stack
<1>2. \A k \in 1 .. Len(s) : s[k] \in 1 .. selInvalidRecID
  BY ElementOfSeq
<1>3. Top(s) \in RecordIds
  BY UseUpType DEF Stack
<1>4. Top(s) \in FreeIds(s)
  BY <1>1, <1>3 DEF FreeIds, Top
<1>5. CASE Len(s) = 1
  <2>1. UseUp(s) = <<s[1] + 1>> /\ Top(s) = s[1] /\ s[1] \in Nat
    BY <1>2, <1>5, IdAssumption DEF UseUp, Top
  <2>2. UseUp(s) # <<>> /\ DOMAIN UseUp(s) = {1} /\ UseUp(s)[1] = s[1] + 1
    BY <2>1
  <2>3. \A i \in RecordIds : i \in FreeIds(s) <=> i >= s[1]
    BY <1>1, <1>5, <2>1 DEF FreeIds, Stack, RecordIds
  <2>4. \A i \in RecordIds : i \in FreeIds(UseUp(s)) <=> i >= s[1] + 1
    BY <2>1, <2>2 DEF FreeIds, RecordIds
  <2>5. \A i \in RecordIds : i >= s[1] + 1 <=> i >= s[1] /\ i # s[1]
    BY <2>1, IdAssumption DEF RecordIds
  <2>6. FreeIds(s) \subseteq RecordIds /\ FreeIds(UseUp(s)) \subseteq RecordIds
    BY DEF FreeIds
  <2> QED BY <1>4, <2>1, <2>3, <2>4, <2>5, <2>6
<1>6. CASE Len(s) # 1
  <2> DEFINE n == Len(s)
  <2>1. n \in Nat \ {0} /\ n # 1
    BY <1>1, <1>6
  <2>2. UseUp(s) = SubSeq(s, 1, n - 1)
    BY <1>6 DEF UseUp, Pop
  <2>3. /\ Len(UseUp(s)) = n - 1
        /\ UseUp(s) \in Seq(1 .. selInvalidRecID)
        /\ \A k \in 1 .. n - 1 : UseUp(s)[k] = s[k]
    <3>1. \A k \in 1 .. n - 1 : s[k] \in 1 .. selInvalidRecID
      BY <1>2, <2>1
    <3>2. 1 \in Int /\ n - 1 \in Int /\ 1 <= n - 1
      <4> HIDE DEF n
      <4> QED BY <2>1
    <3>3. /\ SubSeq(s, 1, n - 1) \in Seq(1 .. selInvalidRecID)
          /\ Len(SubSeq(s, 1, n - 1)) = (n - 1) - 1 + 1
          /\ \A k \in 1 .. (n - 1) - 1 + 1 : SubSeq(s, 1, n - 1)[k] = s[1 + k - 1]
      BY <3>1, <3>2, SubSeqProperties
    <3> QED BY <2>1, <2>2, <3>3
  <2>4. DOMAIN UseUp(s) = 1 .. n - 1 /\ UseUp(s) # <<>> /\ UseUp(s)[1] = s[1]
    BY <2>1, <2>3, LenProperties, EmptySeq
  <2>5. \A k \in 1 .. n - 1 : s[k] # Top(s)
    BY <2>1 DEF Stack, Top
  <2>6. Top(s) < s[1]
    <3>1. n \in 2 .. n
      <4> HIDE DEF n
      <4> QED BY <2>1
    <3> QED BY <3>1 DEF Stack, Top
  <2>7. \A k \in 1 .. n : k \in 1 .. n - 1 \/ s[k] = Top(s)
    BY <2>1 DEF Top
  <2>8. ASSUME NEW i \in RecordIds
        PROVE  i \in FreeIds(UseUp(s)) <=> i \in FreeIds(s) /\ i # Top(s)
    <3>1. i \in FreeIds(UseUp(s)) <=> (\E k \in 1 .. n - 1 : s[k] = i) \/ i >= s[1]
      BY <2>3, <2>4 DEF FreeIds
    <3>2. i \in FreeIds(s) <=> (\E k \in 1 .. n : s[k] = i) \/ i >= s[1]
      BY <1>1 DEF FreeIds, Stack
    <3>3. (\E k \in 1 .. n - 1 : s[k] = i) <=> (\E k \in 1 .. n : s[k] = i) /\ i # Top(s)
      BY <2>1, <2>5, <2>7
    <3>4. i >= s[1] => i # Top(s)
      BY <1>1, <1>2, <1>3, <2>6, IdAssumption DEF RecordIds
    <3> QED BY <3>1, <3>2, <3>3, <3>4
  <2>9. FreeIds(s) \subseteq RecordIds /\ FreeIds(UseUp(s)) \subseteq RecordIds
    BY DEF FreeIds
  <2> QED BY <1>4, <2>8, <2>9
<1> QED BY <1>5, <1>6

LEMMA FreeAppend ==
  ASSUME NEW s \in Seq(1 .. selInvalidRecID), Stack(s), NEW i \in RecordIds
  PROVE  FreeIds(Append(s, i)) = FreeIds(s) \cup {i}
<1>1. Len(s) \in Nat \ {0} /\ DOMAIN s = 1 .. Len(s)
  BY EmptySeq, LenProperties DEF Stack
<1>2. i \in 1 .. selInvalidRecID
  BY IdAssumption DEF RecordIds
<1>3. /\ Append(s, i) # <<>>
      /\ Append(s, i) \in Seq(1 .. selInvalidRecID)
      /\ Len(Append(s, i)) = Len(s) + 1
      /\ \A k \in 1 .. Len(s) : Append(s, i)[k] = s[k]
      /\ Append(s, i)[Len(s) + 1] = i
  BY <1>2, AppendProperties
<1>4. DOMAIN Append(s, i) = 1 .. Len(s) + 1
  BY <1>3, LenProperties
<1>5. Append(s, i)[1] = s[1]
  BY <1>1, <1>3
<1>6. \A j \in RecordIds :
        (\E k \in 1 .. Len(s) + 1 : Append(s, i)[k] = j)
          <=> (\E k \in 1 .. Len(s) : s[k] = j) \/ j = i
  BY <1>1, <1>3
<1> QED BY <1>1, <1>3, <1>4, <1>5, <1>6 DEF FreeIds, Stack

LEMMA FreeOne == FreeIds(<<1>>) = RecordIds
BY IdAssumption DEF FreeIds, RecordIds

LEMMA FreeFull ==
  ASSUME NEW s \in Seq(1 .. selInvalidRecID), Stack(s), IsFull(s)
  PROVE  FreeIds(s) = {}
<1>1. Len(s) \in Nat \ {0} /\ DOMAIN s = 1 .. Len(s)
  BY EmptySeq, LenProperties DEF Stack
<1>2. s[1] \in 1 .. selInvalidRecID /\ s[Len(s)] = selInvalidRecID
  <2>1. \A k \in 1 .. Len(s) : s[k] \in 1 .. selInvalidRecID
    BY ElementOfSeq
  <2> QED BY <1>1, <2>1 DEF IsFull, Top
<1>3. Len(s) = 1
  BY <1>1, <1>2, IdAssumption DEF Stack
<1> QED BY <1>1, <1>2, <1>3, IdAssumption DEF FreeIds, RecordIds

LEMMA PoolInit == Init => Pool!Init
BY DEF Init, Pool!Init, FreePool, Pool!Ids, RecordIds

(* The pool a crash leaves behind is the one that was in memory.           *)
LEMMA PoolKept ==
  ASSUME IInv, ~damaged, ~damaged', [Next]_vars, ~ClearReset, ~GetNewRecordId,
         ~DeleteFree
  PROVE  FreePool' = FreePool
<1> USE DEF FreePool
<1>1. CASE Start \/ CreateBackup
  BY <1>1 DEF Start, CreateBackup
<1>2. CASE StartFromOne
  BY <1>2, FreeOne DEF StartFromOne, IInv, BootInv
<1>3. CASE Crash
  <2>1. pc \notin Truncated \cup {"down"} /\ created
    BY <1>3 DEF Crash, IInv, BootInv
  <2>2. backup = nextRecordsCache /\ pc \notin {"down", "create"}
    BY <2>1 DEF IInv, SyncInv, Truncated
  <2> QED BY <1>3, <2>1, <2>2 DEF Crash, Die
<1>4. CASE AddToEmptyCache
  BY <1>4 DEF AddToEmptyCache, IInv, TrustInv, CacheInv, Good, Stack
<1>5. CASE UNCHANGED <<pc, created, backup, nextRecordsCache>>
  BY <1>5
<1>6. CASE /\ UNCHANGED <<created, nextRecordsCache>>
           /\ {pc, pc'} \cap {"down", "create"} = {}
  BY <1>6
<1> QED BY <1>1, <1>2, <1>3, <1>4, <1>5, <1>6
   DEF Next, Daemon, Clear, Clients, BackupCache, SendRecord, ClearRemove,
     ClearReload, ClearBackup, DeleteScanMiss, DeleteScanHit, DeleteNotFound,
     DeleteTruncate, DeleteRewrite, Refuse, ClearBegin, DeleteNoLog, DeleteBegin, DeleteList,
     Rsyslog, Rotate, vars, daemonVars

LEMMA PoolNext == IInv /\ [Next]_vars => [Pool!Next]_Pool!vars
<1> SUFFICES ASSUME IInv, [Next]_vars PROVE [Pool!Next]_Pool!vars
  OBVIOUS
<1> DEFINE s == nextRecordsCache
<1>0. s \in Seq(1 .. selInvalidRecID) /\ FreePool \subseteq RecordIds
  BY DEF IInv, TypeOK, FreePool, FreeIds
<1>1. CASE damaged'
  BY <1>1 DEF Pool!Next
<1>2. CASE ClearReset
  <2>1. FreePool' = RecordIds
    BY <1>2, FreeOne DEF ClearReset, FreePool
  <2>2. recordId' = recordId /\ ~damaged'
    BY <1>2 DEF ClearReset
  <2> QED BY <2>1, <2>2 DEF Pool!Next, Pool!Clear
<1>3. CASE ~damaged' /\ ~ClearReset
  <2>1. ~damaged
    BY <1>3
       DEF Next, Daemon, Clear, Clients, Start, CreateBackup, StartFromOne, BackupCache,
         SendRecord, ClearRemove, ClearReload, ClearBackup,
         DeleteScanMiss, DeleteScanHit, DeleteNotFound, DeleteTruncate,
         DeleteRewrite, DeleteFree, Refuse, GetNewRecordId, AddToEmptyCache, Die,
         ClearBegin, DeleteNoLog, DeleteBegin, DeleteList, Crash, Rsyslog, Rotate, vars,
         daemonVars
  <2>2. pc \notin {"down", "create"} => created /\ Stack(s) /\ FreePool = FreeIds(s)
    BY <2>1 DEF IInv, BootInv, TrustInv, CacheInv, Good, FreePool
  <2>3. CASE GetNewRecordId
    <3>1. /\ pc = "idle" /\ ~IsFull(s) /\ recordId' = Top(s) /\ s' = UseUp(s)
          /\ pc' = "backup" /\ created' = created
      BY <2>3 DEF GetNewRecordId
    <3>2. Top(s) \in FreePool /\ FreePool' = FreePool \ {Top(s)}
      <4>1. FreePool' = FreeIds(UseUp(s))
        BY <2>2, <3>1 DEF FreePool
      <4> HIDE DEF s
      <4> QED BY <1>0, <2>2, <3>1, <4>1, FreeUseUp
    <3>3. /\ recordId' \in Pool!Ids \ (RecordIds \ FreePool)
          /\ RecordIds \ FreePool' = (RecordIds \ FreePool) \cup {recordId'}
      BY <1>0, <3>1, <3>2 DEF Pool!Ids, RecordIds
    <3> QED BY <1>3, <2>1, <3>3 DEF Pool!Next, Pool!Issue
  <2>4. CASE DeleteFree
    <3>1. /\ pc = "free" /\ s' = Append(s, targetId) /\ recordId' = recordId
          /\ pc' = "idle" /\ created' = created
      BY <2>4 DEF DeleteFree
    <3>2. targetId \in RecordIds /\ GivenOut(targetId, s)
      BY <2>1, <3>1 DEF IInv, TypeOK, TrustInv, DeleteInv
    <3>3. targetId \notin FreePool /\ FreePool' = FreePool \cup {targetId}
      <4>1. FreePool' = FreeIds(Append(s, targetId))
        BY <2>2, <3>1 DEF FreePool
      <4> HIDE DEF s
      <4> QED BY <1>0, <2>2, <3>1, <3>2, <4>1, FreeAppend, GivenOutNotFree
    <3>4. /\ targetId \in RecordIds \ FreePool
          /\ RecordIds \ FreePool' = (RecordIds \ FreePool) \ {targetId}
      BY <3>2, <3>3
    <3> QED BY <1>3, <2>1, <3>1, <3>4 DEF Pool!Next, Pool!Release
  <2>5. CASE ~GetNewRecordId /\ ~DeleteFree
    <3>1. FreePool' = FreePool
      BY <1>3, <2>1, <2>5, PoolKept
    <3>2. CASE Refuse
      <4>1. FreePool = {} /\ recordId' = selInvalidRecID
        BY <1>0, <2>2, <3>2, FreeFull DEF Refuse
      <4> QED BY <1>3, <2>1, <3>1, <4>1
              DEF Pool!Next, Pool!Refuse, Pool!Ids, RecordIds
    <3>3. CASE ~Refuse
      <4>1. recordId' = recordId
        BY <1>3, <2>5, <3>3
           DEF Next, Daemon, Clear, Clients, Start, CreateBackup, StartFromOne, BackupCache,
             SendRecord, ClearRemove, ClearReload, ClearBackup,
             DeleteScanMiss, DeleteScanHit, DeleteNotFound, DeleteTruncate,
             DeleteRewrite, AddToEmptyCache, Die, ClearBegin, DeleteNoLog,
             DeleteBegin, DeleteList, Crash, Rsyslog, Rotate, vars, daemonVars
      <4> QED BY <1>3, <2>1, <3>1, <4>1 DEF Pool!vars
    <3> QED BY <3>2, <3>3
  <2> QED BY <2>3, <2>4, <2>5
<1> QED BY <1>1, <1>2, <1>3

(* The vector, its copy on disk and the handlers that change them give ids *)
(* out as RecordIdPool does.                                               *)
THEOREM ImplementsPool == Spec => PoolSpec
<1> QED BY PoolInit, PoolNext, Invariance, PTL DEF Spec, PoolSpec, Pool!Spec

-----------------------------------------------------------------------------
(* Answering                                                               *)

(* A bound on the steps the daemon has left to the end of its handler.     *)
StepsLeft ==
  CASE pc = "remove"   -> Cardinality(selLogFiles) + 3
    [] pc = "list"     -> NumLogs + 5
    [] pc = "scan"     -> Cardinality(selLogFiles) + 4
    [] pc = "truncate" -> 3
    [] pc \in {"down", "backup", "reset", "rewrite"} -> 2
    [] pc \in {"create", "send", "clear", "free"}    -> 1
    [] OTHER           -> 0

HandlersAdvance ==
  [][pc # "idle" /\ ~Crash =>
       IF Daemon THEN StepsLeft' < StepsLeft ELSE StepsLeft' = StepsLeft]_vars

LEMMA FilesCount ==
  ASSUME NEW S \in SUBSET Slots
  PROVE  IsFiniteSet(S) /\ Cardinality(S) \in 0 .. NumLogs
<1>1. NumLogs \in Nat /\ NumLogs - 1 \in Int
  BY LogAssumption
<1>2. IsFiniteSet(Slots) /\ Cardinality(Slots) <= NumLogs
  <2>1. IsFiniteSet(0 .. NumLogs - 1)
        /\ Cardinality(0 .. NumLogs - 1) = IF 0 > NumLogs - 1 THEN 0 ELSE NumLogs - 1 - 0 + 1
    BY <1>1, FS_Interval
  <2> QED BY <1>1, <2>1 DEF Slots
<1>3. IsFiniteSet(S) /\ Cardinality(S) <= Cardinality(Slots)
  BY <1>2, FS_Subset
<1>4. Cardinality(S) \in Nat /\ Cardinality(Slots) \in Nat
  BY <1>2, <1>3, FS_CardinalityType
<1> QED BY <1>1, <1>2, <1>3, <1>4

LEMMA FilesLeft ==
  ASSUME TypeOK
  PROVE  /\ Cardinality(selLogFiles) \in 0 .. NumLogs
         /\ selLogFiles # {} =>
              Cardinality(Rest(selLogFiles)) = Cardinality(selLogFiles) - 1
<1>1. selLogFiles \in SUBSET Slots
  BY DEF TypeOK
<1>2. IsFiniteSet(selLogFiles) /\ Cardinality(selLogFiles) \in 0 .. NumLogs
  BY <1>1, FilesCount
<1>3. ASSUME selLogFiles # {}
      PROVE  Cardinality(Rest(selLogFiles)) = Cardinality(selLogFiles) - 1
  <2>1. First(selLogFiles) \in selLogFiles
    BY <1>1, <1>3, FirstInSet
  <2> QED BY <1>2, <2>1, FS_RemoveElement DEF Rest
<1> QED BY <1>2, <1>3

LEMMA DaemonAdvances ==
  ASSUME TypeOK, pc # "idle", Daemon
  PROVE  StepsLeft' < StepsLeft
<1>0. Cardinality(selLogFiles) \in Nat
  BY FilesLeft
<1>1. CASE Start \/ CreateBackup \/ StartFromOne
  BY <1>1 DEF Start, CreateBackup, StartFromOne, StepsLeft
<1>2. CASE BackupCache \/ SendRecord
  BY <1>2 DEF BackupCache, SendRecord, StepsLeft
<1>3. CASE ClearRemove
  <2>1. /\ pc = "remove" /\ pc' = "remove" /\ selLogFiles # {}
        /\ selLogFiles' = Rest(selLogFiles)
    BY <1>3 DEF ClearRemove
  <2>2. Cardinality(selLogFiles') = Cardinality(selLogFiles) - 1
    BY <2>1, FilesLeft
  <2> QED BY <1>0, <2>1, <2>2 DEF StepsLeft
<1>4. CASE ClearBegin
  BY <1>4 DEF ClearBegin
<1>5. CASE ClearReload \/ ClearReset \/ ClearBackup
  BY <1>0, <1>5 DEF ClearReload, ClearReset, ClearBackup, StepsLeft
<1>6. CASE DeleteList
  <2>1. Cardinality(exists) \in 0 .. NumLogs
    BY FilesCount DEF TypeOK, FilesTypeOK
  <2> QED BY <1>6, <2>1, LogAssumption DEF DeleteList, StepsLeft
<1>7. CASE DeleteScanMiss
  <2>1. /\ pc = "scan" /\ pc' = "scan" /\ selLogFiles # {}
        /\ selLogFiles' = Rest(selLogFiles)
    BY <1>7 DEF DeleteScanMiss
  <2>2. Cardinality(selLogFiles') = Cardinality(selLogFiles) - 1
    BY <2>1, FilesLeft
  <2> QED BY <1>0, <2>1, <2>2 DEF StepsLeft
<1>8. CASE DeleteScanHit \/ DeleteNotFound
  BY <1>0, <1>8 DEF DeleteScanHit, DeleteNotFound, StepsLeft
<1>9. CASE DeleteTruncate \/ DeleteRewrite \/ DeleteFree
  BY <1>9 DEF DeleteTruncate, DeleteRewrite, DeleteFree, StepsLeft
<1> QED BY <1>1, <1>2, <1>3, <1>4, <1>5, <1>6, <1>7, <1>8, <1>9 DEF Daemon, Clear

(* What the prover can reach of HandlersFinish: each step of the daemon    *)
(* leaves fewer of at most NumLogs + 5, until the request is answered or   *)
(* the process ends, and no step of rsyslog, logrotate or a client adds to *)
(* them.                                                                   *)
THEOREM RequestsAreShort == Spec => [](StepsLeft \in 0 .. NumLogs + 5) /\ HandlersAdvance
<1>1. TypeOK => StepsLeft \in 0 .. NumLogs + 5
  BY FilesLeft, LogAssumption DEF StepsLeft
<1>2. TypeOK /\ [Next]_vars =>
        [pc # "idle" /\ ~Crash =>
           IF Daemon THEN StepsLeft' < StepsLeft ELSE StepsLeft' = StepsLeft]_vars
  <2> SUFFICES ASSUME TypeOK, Next, pc # "idle", ~Crash
               PROVE  IF Daemon THEN StepsLeft' < StepsLeft ELSE StepsLeft' = StepsLeft
    OBVIOUS
  <2>1. CASE Daemon
    BY <2>1, DaemonAdvances
  <2>2. CASE ~Daemon
    <3>1. Rsyslog \/ Rotate
      BY <2>2 DEF Next, Clients, Refuse, GetNewRecordId, AddToEmptyCache, DeleteNoLog, DeleteBegin
    <3>2. pc' = pc /\ selLogFiles' = selLogFiles
      BY <3>1 DEF Rsyslog, Rotate, daemonVars
    <3> QED BY <2>2, <3>2 DEF StepsLeft
  <2> QED BY <2>1, <2>2
<1> QED BY <1>1, <1>2, TypeCorrect, PTL DEF Spec, HandlersAdvance
=============================================================================
