-------------------------- MODULE SelLogFilesProofs --------------------------
(***************************************************************************)
(* What the proofs about both builds of the daemon need to know of the log *)
(* files: the actions of SelLogFiles keep their types and bring no record  *)
(* into being, the newest file and the newest record of a file exist.      *)
(***************************************************************************)
EXTENDS SelLogFiles, FiniteSetTheorems, TLAPS

LEMMA SlotFacts == 0 \in Slots /\ Closed \notin Slots /\ Orphan \notin Slots
BY LogAssumption DEF Slots, Closed, Orphan

LEMMA FilesTypeInit == FilesInit => FilesTypeOK
<1> SUFFICES ASSUME FilesInit PROVE FilesTypeOK
  OBVIOUS
<1>1. logs \in [Slots -> SUBSET Record] /\ \A s \in Slots : logs[s] = {}
  BY DEF FilesInit
<1>2. rsyslogFile = Closed /\ Closed \notin Slots
  BY SlotFacts DEF FilesInit
<1>3. erased \in 0 .. sent
  BY DEF FilesInit
<1> QED BY <1>1, <1>2, <1>3 DEF FilesInit, FilesTypeOK

(* What rsyslog, logrotate and Clear do to the files keeps their types.    *)
LEMMA FlushType == FilesTypeOK /\ Flush => FilesTypeOK'
<1> SUFFICES ASSUME FilesTypeOK, Flush PROVE FilesTypeOK'
  OBVIOUS
<1>1. PICK e \in journal :
        /\ journal' = journal \ {e}
        /\ rsyslogFile' = IF rsyslogFile = Closed THEN 0 ELSE rsyslogFile
        /\ exists' = exists \cup ({rsyslogFile'} \cap Slots)
        /\ logs' = [s \in Slots |-> logs[s] \cup (IF s = rsyslogFile' THEN {e} ELSE {})]
        /\ UNCHANGED <<reload, sent, erased>>
  BY DEF Flush
<1> QED BY <1>1, LogAssumption DEF FilesTypeOK, Slots, Closed, Orphan

LEMMA ClearRemoveType == FilesTypeOK /\ ClearRemove => FilesTypeOK'
BY SlotFacts DEF FilesTypeOK, ClearRemove, Rest

LEMMA RotateType == FilesTypeOK /\ RotateFiles => FilesTypeOK'
<1> SUFFICES ASSUME FilesTypeOK, RotateFiles PROVE FilesTypeOK'
  OBVIOUS
<1>0. \A s \in Slots : s # 0 => s - 1 \in Slots
  BY LogAssumption DEF Slots
<1>1. logs' \in [Slots -> SUBSET Record]
  BY <1>0 DEF FilesTypeOK, RotateFiles
<1>2. PICK new \in SUBSET {0} : exists' = new \cup {s \in Slots : s - 1 \in exists}
  BY DEF RotateFiles
<1>3. exists' \subseteq Slots
  BY <1>2, SlotFacts
<1>4. \A s \in Slots \ exists' : logs'[s] = {}
  BY <1>0, <1>2 DEF FilesTypeOK, RotateFiles
<1>5. /\ rsyslogFile' \in Slots \cup {Closed, Orphan}
      /\ rsyslogFile' \in Slots => rsyslogFile' \in exists'
  BY <1>2, LogAssumption DEF FilesTypeOK, RotateFiles, Slots, Closed, Orphan
<1> QED BY <1>1, <1>3, <1>4, <1>5 DEF FilesTypeOK, RotateFiles

-----------------------------------------------------------------------------
(* Every set of natural numbers has a least one.  The theorem of the       *)
(* library takes a predicate; this one takes a set, and follows from the   *)
(* finite sets being well founded: the least number is that with the       *)
(* smallest set of numbers up to it.                                       *)
Upto(k) == 0 .. k

LEMMA LeastNumber ==
  ASSUME NEW S, S \subseteq Nat, S # {}
  PROVE  \E m \in S : \A k \in S : m <= k
<1> DEFINE T == {Upto(k) : k \in S}
<1>1. T \subseteq FiniteSubsetsOf(Nat) /\ T # {}
  <2>1. \A k \in S : IsFiniteSet(Upto(k))
    BY FS_Interval DEF Upto
  <2>2. \A k \in S : Upto(k) \in SUBSET Nat
    BY DEF Upto
  <2> QED BY <2>1, <2>2, Zenon DEF FiniteSubsetsOf
<1>2. PICK X \in T : \A Y \in T : ~ (<<Y, X>> \in StrictSubsetOrdering(Nat))
  <2> HIDE DEF T
  <2> QED BY <1>1, WFMin, FS_StrictSubsetOrderingWellFounded
<1>3. PICK m \in S : X = Upto(m)
  OBVIOUS
<1>4. SUFFICES ASSUME NEW k \in S, k < m PROVE FALSE
  OBVIOUS
<1>5. /\ Upto(k) \subseteq Upto(m) /\ m \in Upto(m) /\ m \notin Upto(k)
      /\ Upto(k) \in SUBSET Nat /\ Upto(m) \in SUBSET Nat
  BY <1>4 DEF Upto
<1>6. <<Upto(k), X>> \in StrictSubsetOrdering(Nat)
  BY <1>3, <1>5 DEF StrictSubsetOrdering
<1> QED BY <1>2, <1>6

(* The first of a set of files is one of them.                             *)
LEMMA FirstInSet ==
  ASSUME NEW S, S \subseteq Slots, S # {}
  PROVE  First(S) \in S
<1>1. S \subseteq Nat
  BY DEF Slots
<1>2. \E m \in S : \A k \in S : m <= k
  BY <1>1, LeastNumber
<1> QED BY <1>2 DEF First

(* A file that is not empty has a newest record.                           *)
LEMMA NewestExists ==
  ASSUME NEW R, R \subseteq Record, R # {},
         NEW k \in Nat, \A e \in R : e.n <= k
  PROVE  \E e \in R : \A f \in R : e.n >= f.n
<1> DEFINE S == {k - e.n : e \in R}
<1>1. \A e \in R : e.n \in Nat
  BY DEF Record
<1>2. S \subseteq Nat /\ S # {}
  BY <1>1
<1>3. PICK m \in S : \A l \in S : m <= l
  <2> HIDE DEF S
  <2> QED BY <1>2, LeastNumber
<1>4. PICK e \in R : m = k - e.n
  OBVIOUS
<1>5. ASSUME NEW f \in R PROVE e.n >= f.n
  <2>1. k - e.n <= k - f.n
    BY <1>3, <1>4
  <2> QED BY <1>1, <2>1
<1> QED BY <1>5
=============================================================================
