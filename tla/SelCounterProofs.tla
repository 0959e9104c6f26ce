--------------------------- MODULE SelCounterProofs ---------------------------
(***************************************************************************)
(* Proofs about SelCounter, for every capacity of the SEL, every number of *)
(* log files and every bound.                                              *)
(*                                                                         *)
(* That ids ascend needs the counter to be at or above every id in use,    *)
(* which a starting daemon learns from the file it has found: as long as   *)
(* it has not read it, the last record must be in it.                      *)
(***************************************************************************)
EXTENDS SelCounter, SelLogFilesProofs

(* No record is from the future, and no two are the same send.             *)
SentInv == \A e \in Visible : e.n <= sent
SendInv == \A e, f \in Visible : e.n = f.n => e = f

AscendInv == \A e, f \in Current(Visible) : e.n < f.n => e.id < f.id
CoverInv ==
  pc \notin {"down", "read"} => \A e \in Current(Visible) : e.id <= recordId
ReadInv == pc = "read" => LastIn(logs[slot])

IInv ==
  /\ TypeOK
  /\ SentInv
  /\ SendInv
  /\ ~damaged => AscendInv /\ CoverInv /\ ReadInv

-----------------------------------------------------------------------------
(* Type correctness, which rests on files being bounded: the newest record *)
(* of a file is one of its records.                                        *)

LEMMA VisibleType ==
  TypeOK => /\ Visible \subseteq Record
            /\ \A s \in Slots : logs[s] \subseteq Visible
BY DEF TypeOK, FilesTypeOK, Visible, Logged

LEMMA NewestInFile ==
  ASSUME TypeOK, SentInv, NEW s \in Slots, logs[s] # {}
  PROVE  /\ NewestEntry(s) \in logs[s]
         /\ \A f \in logs[s] : NewestEntry(s).n >= f.n
<1>1. logs[s] \subseteq Record /\ \A e \in logs[s] : e.n <= sent
  BY VisibleType DEF SentInv
<1>2. sent \in Nat
  BY DEF TypeOK, FilesTypeOK
<1>3. \E e \in logs[s] : \A f \in logs[s] : e.n >= f.n
  BY <1>1, <1>2, NewestExists
<1> QED BY <1>3 DEF NewestEntry

LEMMA TypeInit == Init => TypeOK
<1> SUFFICES ASSUME Init PROVE TypeOK
  OBVIOUS
<1>1. FilesTypeOK
  BY FilesTypeInit DEF Init
<1>2. recordId \in 0 .. selInvalidRecID
  BY IdAssumption DEF Init
<1>3. slot \in Slots
  BY SlotFacts DEF Init
<1> QED BY <1>1, <1>2, <1>3 DEF Init, FilesInit, TypeOK, States

LEMMA TypeNext == TypeOK /\ SentInv /\ [Next]_vars => TypeOK'
<1> SUFFICES ASSUME TypeOK, SentInv, [Next]_vars PROVE TypeOK'
  OBVIOUS
<1> USE DEF TypeOK, States, daemonVars
<1>1. CASE StartEmpty
  BY <1>1, IdAssumption DEF StartEmpty, fileVars, FilesTypeOK
<1>2. CASE StartList
  <2>1. slot' \in Slots
    BY <1>2, FirstInSet DEF StartList, NewestFile, FilesTypeOK
  <2> QED BY <1>2, <2>1 DEF StartList, fileVars, FilesTypeOK
<1>3. CASE StartRead
  <2>1. recordId' \in 0 .. selInvalidRecID
    <3>1. CASE logs[slot] = {}
      BY <1>3, <3>1, IdAssumption DEF StartRead
    <3>2. CASE logs[slot] # {}
      <4>1. NewestEntry(slot) \in Record
        BY <3>2, NewestInFile DEF FilesTypeOK
      <4> QED BY <1>3, <3>2, <4>1, IdAssumption DEF StartRead, Record, RecordIds
    <3> QED BY <3>1, <3>2
  <2> QED BY <1>3, <2>1, SlotFacts DEF StartRead, fileVars, FilesTypeOK
<1>4. CASE Add
  <2>1. recordId' \in 0 .. selInvalidRecID
    BY <1>4, IdAssumption DEF Add, NextId
  <2>2. FilesTypeOK'
    <3>1. CASE recordId' < selInvalidRecID
      <4>1. recordId' \in RecordIds
        BY <1>4, <3>1, IdAssumption DEF Add, NextId, RecordIds
      <4> QED BY <1>4, <3>1, <4>1 DEF Add, Send, FilesTypeOK, Record, fileVars
    <3>2. CASE ~(recordId' < selInvalidRecID)
      BY <1>4, <3>2 DEF Add, FilesTypeOK, fileVars
    <3> QED BY <3>1, <3>2
  <2> QED BY <1>4, <2>1, <2>2 DEF Add
<1>5. CASE ClearBegin /\ UNCHANGED <<recordId, slot, damaged>>
  BY <1>5 DEF ClearBegin, fileVars, FilesTypeOK
<1>6. CASE ClearRemove /\ UNCHANGED <<recordId, slot, damaged>>
  BY <1>6, ClearRemoveType DEF ClearRemove, Rest
<1>7. CASE ClearReset
  <2>1. erased' \in 0 .. sent'
    BY <1>7 DEF ClearReset, FilesTypeOK
  <2>2. FilesTypeOK'
    BY <1>7, <2>1 DEF ClearReset, FilesTypeOK
  <2>3. recordId' \in 0 .. selInvalidRecID
    BY <1>7, IdAssumption DEF ClearReset
  <2> QED BY <1>7, <2>2, <2>3 DEF ClearReset
<1>8. CASE ClearReload
  <2>1. FilesTypeOK'
    BY <1>8 DEF ClearReload, RequestReload, FilesTypeOK
  <2> QED BY <1>8, <2>1 DEF ClearReload
<1>9. CASE Crash
  BY <1>9, IdAssumption, SlotFacts DEF Crash, fileVars, FilesTypeOK
<1>10. CASE Rsyslog
  <2>1. CASE Flush
    BY <1>10, <2>1, FlushType DEF Rsyslog
  <2>2. CASE Reload
    <3>1. FilesTypeOK'
      BY <2>2, SlotFacts DEF Reload, FilesTypeOK
    <3> QED BY <1>10, <3>1 DEF Rsyslog
  <2> QED BY <1>10, <2>1, <2>2 DEF Rsyslog
<1>11. CASE Rotate
  BY <1>11, RotateType DEF Rotate
<1>12. CASE UNCHANGED vars
  BY <1>12 DEF vars, fileVars, FilesTypeOK
<1> QED BY <1>1, <1>2, <1>3, <1>4, <1>5, <1>6, <1>7, <1>8, <1>9, <1>10, <1>11,
           <1>12 DEF Next, Daemon

-----------------------------------------------------------------------------
(* Records come into being by Add alone, with the next position.           *)

LEMMA VisibleNext ==
  ASSUME TypeOK, [Next]_vars, ~Add
  PROVE  Visible' \subseteq Visible /\ sent' = sent
<1> USE DEF Visible, Logged
<1>1. CASE ClearRemove
  BY <1>1 DEF ClearRemove, TypeOK, FilesTypeOK
<1>2. CASE Rsyslog
  BY <1>2 DEF Rsyslog, Flush, Reload
<1>3. CASE Rotate
  BY <1>3, LogAssumption DEF Rotate, RotateFiles, Slots
<1> QED BY <1>1, <1>2, <1>3
        DEF Next, Daemon, Crash, StartEmpty, StartList, StartRead, ClearBegin,
            ClearReset, ClearReload, RequestReload, vars, fileVars

LEMMA VisibleAdd ==
  ASSUME Add
  PROVE  /\ erased' = erased
         /\ \/ Visible' = Visible /\ sent' = sent
            \/ /\ recordId' < selInvalidRecID
               /\ Visible' = Visible \cup {[id |-> recordId', n |-> sent + 1]}
               /\ sent' = sent + 1
BY DEF Add, Send, Visible, Logged, fileVars

LEMMA SentNext ==
  TypeOK /\ SentInv /\ SendInv /\ [Next]_vars => SentInv' /\ SendInv'
<1> SUFFICES ASSUME TypeOK, SentInv, SendInv, [Next]_vars PROVE SentInv' /\ SendInv'
  OBVIOUS
<1>1. CASE Add
  <2>1. \A e \in Visible : e.n \in Nat /\ e.n < sent + 1
    BY VisibleType DEF SentInv, Record, TypeOK, FilesTypeOK
  <2> QED BY <1>1, <2>1, VisibleAdd DEF SentInv, SendInv, TypeOK, FilesTypeOK
<1>2. CASE ~Add
  BY <1>2, VisibleNext DEF SentInv, SendInv
<1> QED BY <1>1, <1>2

(* Current records only get fewer, and all together with Clear.            *)
LEMMA CurrentNext ==
  ASSUME TypeOK, SentInv, [Next]_vars, ~Add
  PROVE  /\ Current(Visible)' \subseteq Current(Visible)
         /\ ClearReset => Current(Visible)' = {}
<1>1. Visible' \subseteq Visible
  BY VisibleNext
<1>2. CASE ClearReset
  <2>1. \A e \in Visible : e.n \in Nat /\ ~(e.n > erased')
    BY <1>2, VisibleType DEF ClearReset, SentInv, Record, TypeOK, FilesTypeOK
  <2> QED BY <1>1, <2>1 DEF Current
<1>3. CASE ~ClearReset
  <2>1. erased' = erased
    BY <1>3 DEF Next, Daemon, StartEmpty, StartList, StartRead, ClearBegin,
         ClearRemove, ClearReload, RequestReload, Crash, Rsyslog, Flush, Reload,
         Rotate, RotateFiles, vars, fileVars
  <2> QED BY <1>1, <1>3, <2>1 DEF Current
<1> QED BY <1>2, <1>3

-----------------------------------------------------------------------------
(* The counter.                                                            *)

(* A record that is added is above all the others.                         *)
LEMMA AscendCoverAdd ==
  ASSUME TypeOK, SentInv, AscendInv, CoverInv, Add
  PROVE  AscendInv' /\ CoverInv'
<1>1. \A e \in Current(Visible) : e.id \in Nat /\ e.n \in Nat /\ e.n < sent + 1 /\ e.id <= recordId
  BY VisibleType DEF Current, SentInv, CoverInv, Add, Record, RecordIds, TypeOK, FilesTypeOK
<1>2. recordId \in Nat /\ recordId' \in Nat /\ recordId <= recordId'
  BY IdAssumption DEF Add, NextId, TypeOK
<1>3. recordId' < selInvalidRecID => recordId < recordId'
  BY IdAssumption DEF Add, NextId, TypeOK
<1>4. sent \in Nat
  BY DEF TypeOK, FilesTypeOK
<1>5. CASE Visible' = Visible /\ sent' = sent
  <2>1. Current(Visible)' = Current(Visible)
    BY <1>5, VisibleAdd DEF Current
  <2> QED BY <1>1, <1>2, <2>1 DEF AscendInv, CoverInv
<1>6. CASE /\ recordId' < selInvalidRecID
           /\ Visible' = Visible \cup {[id |-> recordId', n |-> sent + 1]}
  <2>1. Current(Visible)'
          \subseteq Current(Visible) \cup {[id |-> recordId', n |-> sent + 1]}
    BY <1>6, VisibleAdd DEF Current
  <2>2. AscendInv'
    <3> SUFFICES ASSUME NEW e \in Current(Visible)', NEW f \in Current(Visible)',
                        e.n < f.n
                 PROVE  e.id < f.id
      BY DEF AscendInv
    <3> DEFINE new == [id |-> recordId', n |-> sent + 1]
    <3>1. new.id = recordId' /\ new.n = sent + 1
      OBVIOUS
    <3>2. e \in Current(Visible) \cup {new} /\ f \in Current(Visible) \cup {new}
      BY <2>1
    <3> HIDE DEF new
    <3>3. CASE e = new
      BY <1>1, <1>4, <3>1, <3>2, <3>3
    <3>4. CASE e \in Current(Visible) /\ f = new
      BY <1>1, <1>2, <1>3, <1>6, <3>1, <3>4
    <3>5. CASE e \in Current(Visible) /\ f \in Current(Visible)
      BY <3>5 DEF AscendInv
    <3> QED BY <3>2, <3>3, <3>4, <3>5
  <2>3. CoverInv'
    BY <1>1, <1>2, <1>6, <2>1 DEF CoverInv
  <2> QED BY <2>2, <2>3
<1> QED BY <1>5, <1>6, VisibleAdd

(* The newest record of the file with the last record has the largest id.  *)
LEMMA CoverRead ==
  ASSUME TypeOK, SentInv, SendInv, AscendInv, ReadInv, StartRead
  PROVE  \A e \in Current(Visible) : e.id <= recordId'
<1> SUFFICES ASSUME NEW e \in Current(Visible) PROVE e.id <= recordId'
  OBVIOUS
<1>1. slot \in Slots /\ logs[slot] \subseteq Visible /\ Visible \subseteq Record
  BY VisibleType DEF TypeOK
<1>2. PICK f \in logs[slot] : e.n <= f.n
  BY DEF ReadInv, LastIn, StartRead
<1> DEFINE m == NewestEntry(slot)
<1>3. m \in logs[slot] /\ m.n >= f.n
  BY <1>1, <1>2, NewestInFile
<1>4. recordId' = m.id
  BY <1>2 DEF StartRead
<1>5. e \in Visible /\ e.n > erased
  BY DEF Current
<1>6. e.n \in Nat /\ f.n \in Nat /\ m.n \in Nat /\ erased \in Nat /\ e.id \in Nat /\ m.id \in Nat
  BY <1>1, <1>2, <1>3, <1>5 DEF Record, RecordIds, TypeOK, FilesTypeOK
<1>7. m \in Current(Visible)
  <2> HIDE DEF m
  <2>1. m.n > erased
    BY <1>2, <1>3, <1>5, <1>6
  <2> QED BY <1>1, <1>3, <2>1 DEF Current
<1>8. CASE e.n = m.n
  <2> HIDE DEF m
  <2> QED BY <1>1, <1>3, <1>4, <1>5, <1>6, <1>8 DEF SendInv
<1>9. CASE e.n < m.n
  <2> HIDE DEF m
  <2> QED BY <1>4, <1>6, <1>7, <1>9 DEF AscendInv
<1> HIDE DEF m
<1> QED BY <1>2, <1>3, <1>6, <1>8, <1>9

LEMMA AscendNext ==
  ASSUME TypeOK, SentInv, AscendInv, CoverInv, [Next]_vars
  PROVE  AscendInv'
<1>1. CASE Add
  BY <1>1, AscendCoverAdd
<1>2. CASE ~Add
  BY <1>2, CurrentNext DEF AscendInv
<1> QED BY <1>1, <1>2

LEMMA CoverNext ==
  ASSUME IInv, ~damaged, ~damaged', [Next]_vars
  PROVE  CoverInv'
<1>1. CASE Add
  BY <1>1, AscendCoverAdd DEF IInv
<1>2. CASE ~Add
  <2> SUFFICES ASSUME pc' \notin {"down", "read"}
               PROVE  \A e \in Current(Visible)' : e.id <= recordId'
    BY DEF CoverInv
  <2>1. /\ Current(Visible)' \subseteq Current(Visible)
        /\ ClearReset => Current(Visible)' = {}
    BY <1>2, CurrentNext DEF IInv
  <2>2. CASE StartEmpty
    BY <2>1, <2>2 DEF StartEmpty, LastIn
  <2>3. CASE StartRead
    BY <2>1, <2>3, CoverRead DEF IInv
  <2>4. CASE ClearReset
    BY <2>1, <2>4
  <2>5. CASE pc \notin {"down", "read"} /\ recordId' = recordId
    BY <2>1, <2>5 DEF IInv, CoverInv
  <2> QED BY <1>2, <2>2, <2>3, <2>4, <2>5
          DEF Next, Daemon, StartList, ClearBegin, ClearRemove, ClearReload,
              Crash, Rsyslog, Rotate, daemonVars, vars
<1> QED BY <1>1, <1>2

LEMMA ReadNext ==
  ASSUME IInv, ~damaged, ~damaged', [Next]_vars
  PROVE  ReadInv'
<1> SUFFICES ASSUME pc' = "read"
             PROVE  \A e \in Current(Visible)' : \E f \in logs'[slot'] : e.n <= f.n
  BY DEF ReadInv, LastIn
<1>1. ~Add
  BY DEF Add
<1>2. Current(Visible)' \subseteq Current(Visible)
  BY <1>1, CurrentNext DEF IInv
<1>3. CASE StartList
  BY <1>2, <1>3 DEF StartList, NewestFile, LastIn, fileVars
<1>4. CASE Rsyslog
  <2>1. pc = "read" /\ slot' = slot /\ slot \in Slots
    BY <1>4 DEF Rsyslog, daemonVars, IInv, TypeOK
  <2>2. logs[slot] \subseteq logs'[slot]
    BY <1>4, <2>1 DEF Rsyslog, Flush, Reload
  <2> QED BY <1>2, <2>1, <2>2 DEF IInv, ReadInv, LastIn
<1>5. CASE UNCHANGED vars
  BY <1>2, <1>5 DEF vars, fileVars, daemonVars, IInv, ReadInv, LastIn
<1> QED BY <1>1, <1>3, <1>4, <1>5
        DEF Next, Daemon, StartEmpty, StartRead, ClearBegin, ClearRemove, ClearReset,
            ClearReload, Crash, Rotate

(* Only Clear makes up for a start that could not see the last record.     *)
LEMMA ClearTrust ==
  ASSUME IInv, damaged, ~damaged', [Next]_vars
  PROVE  AscendInv' /\ CoverInv' /\ ReadInv'
<1>1. ClearReset
  BY DEF Next, Daemon, StartEmpty, StartList, StartRead, Add, ClearReload, Crash,
         Rsyslog, Rotate, daemonVars, vars
<1>2. Current(Visible)' = {}
  BY <1>1, CurrentNext DEF IInv, Add, ClearReset
<1> QED BY <1>1, <1>2 DEF AscendInv, CoverInv, ReadInv, ClearReset

LEMMA IInvInit == Init => IInv
<1> SUFFICES ASSUME Init PROVE IInv
  OBVIOUS
<1>1. Visible = {}
  BY DEF Init, FilesInit, Visible, Logged
<1> QED BY <1>1, TypeInit DEF IInv, SentInv, SendInv, AscendInv, CoverInv, ReadInv,
           Current, Init, FilesInit

LEMMA IInvNext == IInv /\ [Next]_vars => IInv'
<1> SUFFICES ASSUME IInv, [Next]_vars PROVE IInv'
  OBVIOUS
<1>1. TypeOK' /\ SentInv' /\ SendInv'
  BY TypeNext, SentNext DEF IInv
<1>2. ASSUME ~damaged' PROVE AscendInv' /\ CoverInv' /\ ReadInv'
  <2>1. CASE damaged
    BY <1>2, <2>1, ClearTrust
  <2>2. CASE ~damaged
    BY <1>2, <2>2, AscendNext, CoverNext, ReadNext DEF IInv
  <2> QED BY <2>1, <2>2
<1> QED BY <1>1, <1>2 DEF IInv

LEMMA Invariance == Spec => []IInv
<1> QED BY IInvInit, IInvNext, PTL DEF Spec

-----------------------------------------------------------------------------
(* Every variable keeps its type, whatever the daemon, rsyslog and         *)
(* logrotate do.                                                           *)
THEOREM TypeCorrect == Spec => []TypeOK
<1>1. IInv => TypeOK
  BY DEF IInv
<1> QED BY <1>1, Invariance, PTL

(* Since the last Clear, ids grow in the order the records were sent,      *)
(* unless a start could not see the last record.                           *)
THEOREM IdsDoAscend == Spec => []IdsAscend
<1>1. IInv => IdsAscend
  BY DEF IInv, AscendInv, IdsAscend
<1> QED BY <1>1, Invariance, PTL

(* The counter of a running daemon is at or above every id in use, with    *)
(* the same exception.                                                     *)
THEOREM CounterIsAbove == Spec => []CounterCoversRecords
<1>1. IInv => CounterCoversRecords
  BY DEF IInv, CoverInv, CounterCoversRecords
<1> QED BY <1>1, Invariance, PTL
=============================================================================
