--------------------------- MODULE ThresholdProofs ---------------------------
(***************************************************************************)
(* Proofs about ThresholdMonitor, for every set of sensors and events, and *)
(* every bound.                                                            *)
(*                                                                         *)
(* That the SEL tells the conditions is a fact about moments of rest.  The *)
(* invariant says what holds on the way: the last signal that waits tells  *)
(* the condition; when none waits, the handler's set does; and the SEL     *)
(* tells what the set does, but for the signal in work.                    *)
(***************************************************************************)
EXTENDS ThresholdMonitor, QueueProofs

Message == Signal \cup {Garbage}

(* The signals about k; those that tell its condition; k is in work.       *)
About(k)    == {m \in Signal : Key(m) = k}
Telling(k)  == {m \in Signal : m.assert <=> condition[k]}
Handling(k) == pc \in {"getAll", "get"} /\ Key(msg) = k

DownInv == pc = "down" => queue = <<>>

MsgInv ==
  pc \in {"getAll", "get"} =>
    msg # Garbage /\ (Key(msg) \in assertedEvents <=> msg.assert)

LastSays == \A k \in Keys : LastIs(queue, About(k), Telling(k))

SetInv ==
  \A k \in Keys :
    (k \notin missed \/ Handling(k)) /\ NoneIn(queue, About(k))
      => (condition[k] <=> k \in assertedEvents)

SelInv ==
  \A k \in Keys \ missed :
    LastRecord(k) <=> (IF Handling(k) THEN ~msg.assert ELSE k \in assertedEvents)

IInv == TypeOK /\ DownInv /\ MsgInv /\ LastSays /\ SetInv /\ SelInv

-----------------------------------------------------------------------------
(* Signals and keys.                                                       *)

LEMMA SignalFacts ==
  ASSUME NEW s \in Signal
  PROVE  /\ Key(s) \in Keys /\ s # Garbage
         /\ s.assert \in BOOLEAN /\ PathAndEvent(s) = {Key(s)}
<1>1. s.path \in Paths /\ s.event \in Events /\ s.assert \in BOOLEAN
  BY DEF Signal
<1>2. s # Garbage
  BY DEF Signal, Garbage
<1> QED BY <1>1, <1>2 DEF Key, Keys, PathAndEvent

LEMMA SignalOf ==
  ASSUME NEW p \in Paths, NEW e \in Events, NEW a \in BOOLEAN
  PROVE  /\ [path |-> p, event |-> e, assert |-> a] \in Signal
         /\ Key([path |-> p, event |-> e, assert |-> a]) = <<p, e>>
         /\ [path |-> p, event |-> e, assert |-> a].assert = a
BY DEF Signal, Key

LEMMA QueueFacts ==
  ASSUME TypeOK
  PROVE  /\ queue \in Seq(Message) /\ Len(queue) \in Nat
         /\ \A i \in DOMAIN queue : queue[i] \in Message
BY SeqFacts DEF TypeOK, Message

LEMMA HeadFacts ==
  ASSUME TypeOK, queue # <<>>
  PROVE  /\ Head(queue) \in Message
         /\ Tail(queue) \in Seq(Message) /\ Len(Tail(queue)) = Len(queue) - 1
BY QueueFacts, TailFacts

LEMMA SelFacts ==
  ASSUME TypeOK
  PROVE  /\ Len(sel) \in Nat /\ DOMAIN sel = 1 .. Len(sel)
         /\ \A i \in DOMAIN sel : sel[i] \in Signal
BY LenProperties, ElementOfSeq DEF TypeOK

(* A record is removed: those after it move up.                            *)
LEMMA RemoveFacts ==
  ASSUME TypeOK, NEW i \in DOMAIN sel
  PROVE  /\ RemoveAt(sel, i) \in Seq(Signal)
         /\ Len(RemoveAt(sel, i)) = Len(sel) - 1
         /\ DOMAIN RemoveAt(sel, i) = 1 .. Len(sel) - 1
         /\ \A j \in 1 .. Len(sel) - 1 :
              RemoveAt(sel, i)[j] = IF j < i THEN sel[j] ELSE sel[j + 1]
<1> DEFINE n == Len(sel)
           a == SubSeq(sel, 1, i - 1)
           b == SubSeq(sel, i + 1, n)
<1>1. n \in Nat /\ i \in 1 .. n /\ \A j \in 1 .. n : sel[j] \in Signal
  BY SelFacts
<1> HIDE DEF n
<1>2. /\ a \in Seq(Signal) /\ Len(a) = i - 1
      /\ \A j \in 1 .. i - 1 : a[j] = sel[j]
  <2>1. 1 \in Int /\ i - 1 \in Int /\ \A j \in 1 .. i - 1 : sel[j] \in Signal
    BY <1>1
  <2>2. /\ a \in Seq(Signal) /\ Len(a) = IF 1 <= i - 1 THEN i - 1 - 1 + 1 ELSE 0
        /\ \A j \in 1 .. i - 1 - 1 + 1 : a[j] = sel[1 + j - 1]
    BY <2>1, SubSeqProperties
  <2> HIDE DEF a
  <2> QED BY <1>1, <2>2
<1>3. /\ b \in Seq(Signal) /\ Len(b) = n - i
      /\ \A j \in 1 .. n - i : b[j] = sel[i + j]
  <2>1. i + 1 \in Int /\ n \in Int /\ \A j \in i + 1 .. n : sel[j] \in Signal
    BY <1>1
  <2>2. /\ b \in Seq(Signal) /\ Len(b) = IF i + 1 <= n THEN n - (i + 1) + 1 ELSE 0
        /\ \A j \in 1 .. n - (i + 1) + 1 : b[j] = sel[i + 1 + j - 1]
    BY <2>1, SubSeqProperties
  <2> HIDE DEF b
  <2> QED BY <1>1, <2>2
<1>4. RemoveAt(sel, i) = a \o b
  BY DEF RemoveAt, n
<1> HIDE DEF a, b
<1>5. /\ a \o b \in Seq(Signal) /\ Len(a \o b) = n - 1
      /\ \A j \in 1 .. n - 1 : (a \o b)[j] = IF j <= i - 1 THEN a[j] ELSE b[j - (i - 1)]
  <2>1. /\ a \o b \in Seq(Signal) /\ Len(a \o b) = Len(a) + Len(b)
        /\ \A j \in 1 .. Len(a) + Len(b) :
             (a \o b)[j] = IF j <= Len(a) THEN a[j] ELSE b[j - Len(a)]
    BY <1>2, <1>3, ConcatProperties
  <2>2. Len(a) + Len(b) = n - 1
    BY <1>1, <1>2, <1>3
  <2> QED BY <1>2, <2>1, <2>2
<1>6. ASSUME NEW j \in 1 .. n - 1
      PROVE  (a \o b)[j] = IF j < i THEN sel[j] ELSE sel[j + 1]
  <2>1. CASE j < i
    BY <1>1, <1>2, <1>5, <2>1
  <2>2. CASE ~(j < i)
    <3>1. j - (i - 1) \in 1 .. n - i /\ i + (j - (i - 1)) = j + 1
      BY <1>1, <2>2
    <3> QED BY <1>1, <1>3, <1>5, <2>2, <3>1
  <2> QED BY <2>1, <2>2
<1>7. DOMAIN (a \o b) = 1 .. n - 1
  BY <1>5, LenProperties
<1> QED BY <1>4, <1>5, <1>6, <1>7 DEF n

-----------------------------------------------------------------------------
(* Type correctness.                                                       *)

LEMMA TypeInit == Init => TypeOK
<1> SUFFICES ASSUME Init PROVE TypeOK
  OBVIOUS
<1>1. Len(<<>>) <= MaxQueue /\ Len(<<>>) + 0 <= SelCapacity
  BY BoundAssumption
<1>2. <<>> \in Seq(Signal \cup {Garbage}) /\ <<>> \in Seq(Signal)
  OBVIOUS
<1> QED BY <1>1, <1>2 DEF Init, TypeOK

LEMMA TypeEmit ==
  ASSUME TypeOK, NEW m \in Message, Emit(m)
  PROVE  queue' \in Seq(Message) /\ Len(queue') <= MaxQueue
<1>1. CASE pc = "down"
  BY <1>1 DEF Emit, TypeOK, Message
<1>2. CASE pc # "down"
  <2>1. Len(queue) < MaxQueue /\ queue' = Append(queue, m)
    BY <1>2 DEF Emit
  <2>2. Len(queue) \in Nat /\ MaxQueue \in Nat
    BY QueueFacts, BoundAssumption
  <2> QED BY <2>1, <2>2, QueueFacts, AppendFacts
<1> QED BY <1>1, <1>2

LEMMA TypeNext == TypeOK /\ [Next]_vars => TypeOK'
<1> SUFFICES ASSUME TypeOK, [Next]_vars PROVE TypeOK'
  OBVIOUS
<1> USE DEF TypeOK, log
<1>1. CASE Ignore
  <2>1. Tail(queue) \in Seq(Message) /\ Len(Tail(queue)) <= MaxQueue
    BY <1>1, HeadFacts, QueueFacts, BoundAssumption DEF Ignore
  <2> QED BY <1>1, <2>1 DEF Ignore, Message
<1>2. CASE Accept
  <2>1. Tail(queue) \in Seq(Message) /\ Len(Tail(queue)) <= MaxQueue
    BY <1>2, HeadFacts, QueueFacts, BoundAssumption DEF Accept
  <2>2. Head(queue) \in Signal
    BY <1>2, HeadFacts DEF Accept, Message
  <2>3. assertedEvents' \subseteq Keys
    BY <1>2, <2>2, SignalFacts DEF Accept, Track
  <2> QED BY <1>2, <2>1, <2>2, <2>3 DEF Accept, Message
<1>3. CASE GetSensorValue
  BY <1>3 DEF GetSensorValue
<1>4. CASE GetFails \/ LogFull
  <2>1. Key(msg) \in Keys
    BY <1>4, SignalFacts DEF GetFails, LogFull
  <2> QED BY <1>4, <2>1 DEF GetFails, LogFull, Return
<1>5. CASE Log
  <2>1. msg \in Signal /\ Len(sel) \in Nat
    BY <1>5, SelFacts DEF Log
  <2>2. sel' \in Seq(Signal) /\ Len(sel') = Len(sel) + 1
    BY <1>5, <2>1, AppendProperties DEF Log
  <2>3. others' = others /\ Len(sel') + others <= SelCapacity
    BY <1>5, <2>1, <2>2, BoundAssumption DEF Log, HasRoom, Return
  <2> QED BY <1>5, <2>2, <2>3 DEF Log, Return
<1>6. CASE Start
  BY <1>6 DEF Start
<1>7. CASE \E p \in Paths, e \in Events : Cross(p, e)
  <2>1. PICK p \in Paths, e \in Events : Cross(p, e)
    BY <1>7
  <2>2. <<p, e>> \in Keys
    BY DEF Keys
  <2>3. condition' \in [Keys -> BOOLEAN] /\ condition'[<<p, e>>] \in BOOLEAN
    BY <2>1, <2>2 DEF Cross
  <2>4. queue' \in Seq(Message) /\ Len(queue') <= MaxQueue
    BY <2>1, <2>3, SignalOf, TypeEmit DEF Cross, Message
  <2> QED BY <2>1, <2>2, <2>3, <2>4 DEF Cross, Message
<1>8. CASE \E p \in Paths, e \in Events : Repeat(p, e)
  <2>1. PICK p \in Paths, e \in Events : Repeat(p, e)
    BY <1>8
  <2>2. condition[<<p, e>>] \in BOOLEAN
    BY DEF Keys
  <2>3. queue' \in Seq(Message) /\ Len(queue') <= MaxQueue
    BY <2>1, <2>2, SignalOf, TypeEmit DEF Repeat, Message
  <2> QED BY <2>1, <2>3 DEF Repeat, Message
<1>9. CASE EmitGarbage
  <2>1. queue' \in Seq(Message) /\ Len(queue') <= MaxQueue
    BY <1>9, TypeEmit DEF EmitGarbage, Message
  <2> QED BY <1>9, <2>1 DEF EmitGarbage, Message
<1>10. CASE Clear
  <2>1. sel' \in Seq(Signal) /\ others' \in Nat /\ Len(sel') + others' <= SelCapacity
    BY <1>10, BoundAssumption DEF Clear
  <2> QED BY <1>10, <2>1 DEF Clear
<1>11. CASE Crash
  <2>1. {Key(s) : s \in (ToSet(queue) \cup {msg}) \ {Garbage}} \subseteq Keys
    BY QueueFacts, SignalFacts DEF ToSet, Message
  <2>2. queue' \in Seq(Signal \cup {Garbage}) /\ Len(queue') <= MaxQueue
    BY <1>11, BoundAssumption DEF Crash
  <2> QED BY <1>11, <2>1, <2>2 DEF Crash
<1>12. CASE AddOther \/ DeleteOther
  <2>1. Len(sel) \in Nat
    BY SelFacts
  <2>2. others' \in Nat /\ Len(sel) + others' <= SelCapacity
    BY <1>12, <2>1, BoundAssumption DEF AddOther, HasRoom, DeleteOther
  <2> QED BY <1>12, <2>2 DEF AddOther, DeleteOther
<1>13. CASE \E i \in DOMAIN sel : DeleteRecord(i)
  <2>1. PICK i \in DOMAIN sel : DeleteRecord(i)
    BY <1>13
  <2>2. /\ Len(sel) \in Nat /\ others' = others
        /\ sel' \in Seq(Signal) /\ Len(sel') = Len(sel) - 1
    BY <2>1, SelFacts, RemoveFacts DEF DeleteRecord
  <2>3. Len(sel') + others' <= SelCapacity
    BY <2>2, BoundAssumption
  <2>4. missed' \subseteq Keys
    BY <2>1, SelFacts, SignalFacts DEF DeleteRecord
  <2> QED BY <2>1, <2>2, <2>3, <2>4 DEF DeleteRecord
<1>14. CASE UNCHANGED vars
  BY <1>14 DEF vars
<1> QED BY <1>1, <1>2, <1>3, <1>4, <1>5, <1>6, <1>7, <1>8, <1>9, <1>10, <1>11,
           <1>12, <1>13, <1>14 DEF Next, Handler, Sensors, Clients
-----------------------------------------------------------------------------
(* A new record is the last of its key, and of no other.                   *)
LEMMA RecordAppend ==
  ASSUME TypeOK, NEW s \in Signal, sel' = Append(sel, s)
  PROVE  \A k : LastRecord(k)' <=> IF k = Key(s) THEN s.assert ELSE LastRecord(k)
<1>1. /\ Len(sel) \in Nat /\ DOMAIN sel = 1 .. Len(sel)
      /\ DOMAIN sel' = 1 .. Len(sel) + 1
      /\ \A i \in DOMAIN sel : sel'[i] = sel[i]
      /\ sel'[Len(sel) + 1] = s
  BY SelFacts, AppendProperties, LenProperties DEF TypeOK
<1>2. SUFFICES ASSUME NEW k
               PROVE  LastRecord(k)' <=> IF k = Key(s) THEN s.assert ELSE LastRecord(k)
  OBVIOUS
<1> DEFINE n == Len(sel) + 1
<1>3. /\ n \in DOMAIN sel' /\ sel'[n] = s /\ n \notin DOMAIN sel
      /\ \A i \in DOMAIN sel' : i <= n /\ (i = n \/ i \in DOMAIN sel)
      /\ \A i \in DOMAIN sel : i \in DOMAIN sel' /\ ~(n <= i)
  BY <1>1
<1> HIDE DEF n
<1>4. CASE k = Key(s)
  <2>1. LastRecord(k)' => s.assert
    <3> SUFFICES ASSUME NEW i \in DOMAIN sel',
                        Key(sel'[i]) = k, sel'[i].assert,
                        \A j \in DOMAIN sel' : Key(sel'[j]) = k => j <= i
                 PROVE  s.assert
      BY DEF LastRecord, Key
    <3> QED BY <1>1, <1>3, <1>4
  <2>2. s.assert => LastRecord(k)'
    BY <1>3, <1>4 DEF LastRecord, Key
  <2> QED BY <1>4, <2>1, <2>2
<1>5. CASE k # Key(s)
  <2>1. LastRecord(k)' => LastRecord(k)
    <3> SUFFICES ASSUME NEW i \in DOMAIN sel',
                        Key(sel'[i]) = k, sel'[i].assert,
                        \A j \in DOMAIN sel' : Key(sel'[j]) = k => j <= i
                 PROVE  LastRecord(k)
      BY DEF LastRecord, Key
    <3> QED BY <1>1, <1>3, <1>5 DEF LastRecord
  <2>2. LastRecord(k) => LastRecord(k)'
    <3> SUFFICES ASSUME NEW i \in DOMAIN sel,
                        Key(sel[i]) = k, sel[i].assert,
                        \A j \in DOMAIN sel : Key(sel[j]) = k => j <= i
                 PROVE  LastRecord(k)'
      BY DEF LastRecord
    <3>1. /\ i \in DOMAIN sel' /\ Key(sel'[i]) = k /\ sel'[i].assert
          /\ \A j \in DOMAIN sel' : Key(sel'[j]) = k => j <= i
      BY <1>1, <1>3, <1>5
    <3> QED BY <3>1 DEF LastRecord, Key
  <2> QED BY <1>5, <2>1, <2>2
<1> QED BY <1>4, <1>5

(* What the SEL says about k does not change when a record of another key  *)
(* is removed, or one that a newer one of its key follows.                 *)
LEMMA RecordRemove ==
  ASSUME TypeOK, NEW i \in DOMAIN sel, sel' = RemoveAt(sel, i),
         NEW k, k # Key(sel[i]) \/ ~IsNewest(i)
  PROVE  LastRecord(k)' <=> LastRecord(k)
<1> DEFINE n == Len(sel)
           Old(j) == IF j < i THEN j ELSE j + 1
           New(j) == IF j < i THEN j ELSE j - 1
<1>1. /\ n \in Nat /\ i \in 1 .. n /\ DOMAIN sel = 1 .. n /\ DOMAIN sel' = 1 .. n - 1
      /\ \A j \in 1 .. n - 1 : sel'[j] = sel[Old(j)]
  BY SelFacts, RemoveFacts
<1> HIDE DEF n
<1>2. /\ \A j \in 1 .. n - 1 : Old(j) \in 1 .. n /\ Old(j) # i
      /\ \A j \in 1 .. n : j # i => New(j) \in 1 .. n - 1 /\ Old(New(j)) = j
      /\ \A j \in 1 .. n - 1 : New(Old(j)) = j
      /\ \A g \in 1 .. n, h \in 1 .. n : g # i /\ h # i => (g <= h <=> New(g) <= New(h))
  BY <1>1
<1> HIDE DEF Old, New
<1>3. \A j \in 1 .. n : j # i => sel'[New(j)] = sel[j]
  BY <1>1, <1>2
<1>4. ASSUME LastRecord(k)' PROVE LastRecord(k)
  <2>1. PICK j \in 1 .. n - 1 :
          /\ Key(sel'[j]) = k /\ sel'[j].assert
          /\ \A h \in 1 .. n - 1 : Key(sel'[h]) = k => h <= j
    BY <1>1, <1>4 DEF LastRecord, Key
  <2>2. /\ Old(j) \in 1 .. n /\ Old(j) # i
        /\ Key(sel[Old(j)]) = k /\ sel[Old(j)].assert
    BY <1>1, <1>2, <2>1
  <2>3. ASSUME NEW h \in 1 .. n, h # i, Key(sel[h]) = k
        PROVE  h <= Old(j)
    <3>1. New(h) \in 1 .. n - 1 /\ Key(sel'[New(h)]) = k
      BY <1>2, <1>3, <2>3
    <3>2. New(h) <= New(Old(j))
      BY <1>2, <2>1, <3>1
    <3> QED BY <1>2, <2>2, <2>3, <3>2
  <2>4. ASSUME Key(sel[i]) = k PROVE i <= Old(j)
    <3>1. PICK h \in 1 .. n : Key(sel[h]) = k /\ ~(h <= i)
      BY <1>1, <2>4 DEF IsNewest
    <3>2. h <= Old(j)
      BY <1>1, <2>3, <3>1
    <3> QED BY <1>1, <2>2, <3>1, <3>2
  <2> QED BY <1>1, <2>2, <2>3, <2>4 DEF LastRecord
<1>5. ASSUME LastRecord(k) PROVE LastRecord(k)'
  <2>1. PICK j \in 1 .. n :
          /\ Key(sel[j]) = k /\ sel[j].assert
          /\ \A h \in 1 .. n : Key(sel[h]) = k => h <= j
    BY <1>1, <1>5 DEF LastRecord
  <2>2. j # i
    BY <1>1, <2>1 DEF IsNewest
  <2>3. New(j) \in 1 .. n - 1 /\ Key(sel'[New(j)]) = k /\ sel'[New(j)].assert
    BY <1>2, <1>3, <2>1, <2>2
  <2>4. ASSUME NEW h \in 1 .. n - 1, Key(sel'[h]) = k
        PROVE  h <= New(j)
    <3>1. Old(h) \in 1 .. n /\ Old(h) # i /\ Key(sel[Old(h)]) = k
      BY <1>1, <1>2, <2>4
    <3>2. Old(h) <= j
      BY <2>1, <3>1
    <3> QED BY <1>2, <2>2, <3>1, <3>2
  <2> QED BY <1>1, <2>3, <2>4 DEF LastRecord, Key
<1> QED BY <1>4, <1>5

-----------------------------------------------------------------------------
(* The invariant.                                                          *)

LEMMA IInvInit == Init => IInv
<1> SUFFICES ASSUME Init PROVE IInv
  OBVIOUS
<1>1. DOMAIN sel = {}
  BY DEF Init
<1> QED BY <1>1, TypeInit, EmptyQueue
        DEF Init, IInv, DownInv, MsgInv, LastSays, SetInv, SelInv, LastRecord, Handling

LEMMA RestNext ==
  ASSUME IInv, [Next]_vars
  PROVE  TypeOK' /\ DownInv' /\ MsgInv'
<1>1. TypeOK'
  BY TypeNext DEF IInv
<1>2. DownInv'
  BY DEF IInv, DownInv, Next, Handler, Sensors, Ignore, Accept, GetSensorValue, GetFails,
         Log, LogFull, Return, Start, Cross, Repeat, EmitGarbage, Emit, Clear, AddOther, DeleteOther, DeleteRecord,
         Clients, Crash, vars, log
<1>3. MsgInv'
  <2>1. CASE Accept
    <3>1. Head(queue) \in Signal
      BY <2>1, HeadFacts DEF Accept, IInv, Message
    <3>2. PathAndEvent(Head(queue)) = {Key(Head(queue))}
      BY <3>1, SignalFacts
    <3> QED BY <2>1, <3>2 DEF Accept, Track, MsgInv, Key
  <2>2. CASE ~Accept
    <3>1. \/ pc' \in {"down", "idle"}
          \/ /\ pc' \in {"getAll", "get"} => pc \in {"getAll", "get"}
             /\ msg' = msg /\ assertedEvents' = assertedEvents
      BY <2>2 DEF Next, Handler, Sensors, Ignore, GetSensorValue, GetFails, Log,
           LogFull, Return, Start, Cross, Repeat, EmitGarbage, Clients, Clear, AddOther,
           DeleteOther, DeleteRecord, Crash, vars
    <3> QED BY <3>1 DEF IInv, MsgInv, Key
  <2> QED BY <2>1, <2>2
<1> QED BY <1>1, <1>2, <1>3

(* The signals that wait, and the handler's set.                           *)
LEMMA SetNext ==
  ASSUME IInv, [Next]_vars, NEW k \in Keys
  PROVE  /\ LastIs(queue, About(k), Telling(k))'
         /\ (k \notin missed \/ Handling(k))' /\ NoneIn(queue, About(k))'
              => (condition'[k] <=> k \in assertedEvents')
<1> DEFINE B == About(k)
           Relies == k \notin missed \/ Handling(k)
<1> USE DEF log
<1>0. /\ TypeOK /\ MsgInv /\ DownInv
      /\ LastIs(queue, B, Telling(k))
      /\ Relies /\ NoneIn(queue, B) => (condition[k] <=> k \in assertedEvents)
  BY DEF IInv, LastSays, SetInv
<1>q. queue \in Seq(Message)
  BY <1>0, QueueFacts
<1>b. B' = B
  BY DEF About, Key
<1>t. condition'[k] = condition[k] => Telling(k)' = Telling(k)
  BY DEF Telling
<1> SUFFICES /\ LastIs(queue', B, Telling(k)')
             /\ Relies' /\ NoneIn(queue', B) => (condition'[k] <=> k \in assertedEvents')
  BY <1>b DEF LastIs, NoneIn
<1> HIDE DEF B
<1>1. CASE Ignore
  <2>1. queue # <<>> /\ queue' = Tail(queue) /\ condition' = condition
    BY <1>1 DEF Ignore
  <2>2. /\ LastIs(queue', B, Telling(k))
        /\ NoneIn(queue', B) => IF Head(queue) \in B THEN Head(queue) \in Telling(k)
                                ELSE NoneIn(queue, B)
    BY <1>0, <1>q, <2>1, QueueTail
  <2>3. assertedEvents' = assertedEvents /\ (Relies' => k \notin missed)
    BY <1>1 DEF Ignore, Handling
  <2>4. Head(queue) \in B => (Head(queue).assert <=> k \in assertedEvents)
    BY <1>1, SignalFacts DEF Ignore, IsNew, B, About
  <2> QED BY <1>0, <1>t, <2>1, <2>2, <2>3, <2>4 DEF Telling
<1>2. CASE Accept
  <2>1. queue # <<>> /\ queue' = Tail(queue) /\ condition' = condition
    BY <1>2 DEF Accept
  <2>2. /\ LastIs(queue', B, Telling(k))
        /\ NoneIn(queue', B) => IF Head(queue) \in B THEN Head(queue) \in Telling(k)
                                ELSE NoneIn(queue, B)
    BY <1>0, <1>q, <2>1, QueueTail
  <2>3. Head(queue) \in Signal /\ PathAndEvent(Head(queue)) = {Key(Head(queue))}
    BY <1>0, <1>2, HeadFacts, SignalFacts DEF Accept, Message
  <2>4. CASE Head(queue) \in B
    <3>1. Head(queue).assert <=> k \in assertedEvents'
      BY <1>2, <2>3, <2>4 DEF Accept, Track, B, About
    <3> QED BY <1>t, <2>1, <2>2, <2>4, <3>1 DEF Telling
  <2>5. CASE Head(queue) \notin B
    <3>1. k # Key(Head(queue))
      BY <2>3, <2>5 DEF B, About
    <3>2. /\ Relies' => k \notin missed
          /\ k \in assertedEvents' <=> k \in assertedEvents
      BY <1>2, <2>3, <3>1 DEF Accept, Track, Handling, Key
    <3> QED BY <1>0, <1>t, <2>1, <2>2, <2>5, <3>2
  <2> QED BY <2>4, <2>5
<1>3. CASE \/ GetSensorValue \/ GetFails \/ Log \/ LogFull \/ Start \/ Clients
           \/ UNCHANGED vars
  <2>1. queue' = queue /\ condition' = condition /\ assertedEvents' = assertedEvents
    BY <1>3 DEF GetSensorValue, GetFails, Log, LogFull, Start, Return, Clients, Clear,
                AddOther, DeleteOther, DeleteRecord, vars
  <2>2. Relies' => Relies
    BY <1>3 DEF GetSensorValue, GetFails, Log, LogFull, Start, Return, Clients, Clear,
                AddOther, DeleteOther, DeleteRecord, vars, Handling, Key
  <2> QED BY <1>0, <1>t, <2>1, <2>2
<1>4. CASE \E p \in Paths, e \in Events : Cross(p, e)
  <2>1. PICK p \in Paths, e \in Events : Cross(p, e)
    BY <1>4
  <2> DEFINE c == <<p, e>>
             m == [path |-> p, event |-> e, assert |-> condition'[c]]
  <2>2. c \in Keys /\ condition'[c] \in BOOLEAN
    BY <1>0, <2>1 DEF Cross, Keys, TypeOK
  <2>3. /\ k # c => condition'[k] = condition[k]
        /\ Emit(m) /\ assertedEvents' = assertedEvents /\ pc' = pc /\ msg' = msg
        /\ missed' = IF pc = "down" THEN missed \cup {c} ELSE missed
    BY <1>0, <2>1 DEF Cross, TypeOK
  <2>4. m \in Message /\ (m \in B <=> k = c) /\ (k = c => m \in Telling(k)')
    BY <2>2, SignalOf DEF B, About, Telling, Message
  <2> HIDE DEF c, m
  <2>5. CASE pc = "down"
    <3>1. queue' = <<>> /\ NoneIn(queue, B) /\ LastIs(queue', B, Telling(k)')
      BY <1>0, <2>3, <2>5, EmptyQueue DEF DownInv, Emit
    <3>2. Relies' => k \notin missed /\ k # c
      BY <2>3, <2>5 DEF Handling
    <3> QED BY <1>0, <2>3, <3>1, <3>2
  <2>6. CASE pc # "down"
    <3>1. queue' = Append(queue, m)
      BY <2>3, <2>6 DEF Emit
    <3>2. /\ LastIs(queue', B, Telling(k)')
          /\ NoneIn(queue', B) => NoneIn(queue, B) /\ m \notin B
      BY <1>0, <1>q, <1>t, <2>3, <2>4, <3>1, QueueAppend
    <3>3. Relies' => Relies
      BY <2>3, <2>6 DEF Handling, Key
    <3> QED BY <1>0, <2>3, <2>4, <3>2, <3>3
  <2> QED BY <2>5, <2>6
<1>5. CASE EmitGarbage \/ \E p \in Paths, e \in Events : Repeat(p, e)
  <2>1. PICK m \in Message : /\ m \in B => m \in Telling(k)
                             /\ Emit(m)
    <3>1. CASE EmitGarbage
      BY <3>1, SignalFacts DEF EmitGarbage, Message, B, About
    <3>2. CASE \E p \in Paths, e \in Events : Repeat(p, e)
      <4>1. PICK p \in Paths, e \in Events : Repeat(p, e)
        BY <3>2
      <4>2. condition[<<p, e>>] \in BOOLEAN
        BY <1>0 DEF Keys, TypeOK
      <4> QED BY <4>1, <4>2, SignalOf DEF Repeat, Message, B, About, Telling
    <3> QED BY <1>5, <3>1, <3>2
  <2>2. /\ condition' = condition /\ assertedEvents' = assertedEvents
        /\ pc' = pc /\ msg' = msg /\ missed' = missed
    BY <1>5 DEF EmitGarbage, Repeat
  <2>3. Relies' => Relies
    BY <2>2 DEF Handling, Key
  <2>4. CASE queue' = queue
    BY <1>0, <1>t, <2>2, <2>3, <2>4
  <2>5. CASE queue' = Append(queue, m)
    <3>1. /\ LastIs(queue', B, Telling(k))
          /\ NoneIn(queue', B) => NoneIn(queue, B) /\ m \notin B
      BY <1>0, <1>q, <2>1, <2>5, QueueAppend
    <3> QED BY <1>0, <1>t, <2>2, <2>3, <3>1
  <2> QED BY <2>1, <2>4, <2>5 DEF Emit
<1>6. CASE Crash
  <2>1. LastIs(queue', B, Telling(k)')
    BY <1>6, EmptyQueue DEF Crash
  <2>2. ASSUME Relies'
        PROVE  condition'[k] <=> k \in assertedEvents'
    <3>1. k \notin missed'
      BY <1>6, <2>2 DEF Crash, Handling
    <3>2. /\ k \notin missed /\ k \notin assertedEvents
          /\ \A s \in (ToSet(queue) \cup {msg}) \ {Garbage} : k # Key(s)
      BY <1>6, <3>1 DEF Crash
    <3>3. NoneIn(queue, B)
      BY <3>2, SignalFacts DEF NoneIn, B, About, ToSet
    <3> QED BY <1>0, <1>6, <3>2, <3>3 DEF Crash
  <2> QED BY <2>1, <2>2
<1> QED BY <1>1, <1>2, <1>3, <1>4, <1>5, <1>6 DEF Next, Handler, Sensors

(* What the SEL tells.                                                     *)
LEMMA SelNext ==
  ASSUME IInv, [Next]_vars
  PROVE  SelInv'
<1> USE DEF log
<1>0. TypeOK /\ SelInv /\ MsgInv
  BY DEF IInv
<1>1. CASE Accept
  <2>1. Head(queue) \in Signal
    BY <1>0, <1>1, HeadFacts DEF Accept, Message
  <2>2. /\ PathAndEvent(Head(queue)) = {Key(Head(queue))}
        /\ Head(queue).assert \in BOOLEAN
    BY <2>1, SignalFacts
  <2>3. SUFFICES ASSUME NEW k \in Keys \ missed
                 PROVE  (LastRecord(k) <=> (IF Handling(k) THEN ~msg.assert
                                            ELSE k \in assertedEvents))'
    BY <1>1 DEF SelInv, Accept
  <2>4. /\ LastRecord(k) <=> k \in assertedEvents
        /\ LastRecord(k)' <=> LastRecord(k)
    BY <1>0, <1>1 DEF SelInv, Handling, LastRecord, Accept, Key
  <2>5. CASE k = Key(Head(queue))
    <3>1. Handling(k)' /\ msg' = Head(queue)
      BY <1>1, <2>5 DEF Accept, Handling, Key
    <3>2. Head(queue).assert <=> k \notin assertedEvents
      BY <1>1, <2>2, <2>5 DEF Accept, IsNew
    <3> QED BY <2>4, <3>1, <3>2
  <2>6. CASE k # Key(Head(queue))
    <3>1. ~Handling(k)'
      BY <1>1, <2>6 DEF Accept, Handling, Key
    <3>2. k \in assertedEvents' <=> k \in assertedEvents
      BY <1>1, <2>2, <2>6 DEF Accept, Track
    <3> QED BY <2>4, <3>1, <3>2
  <2> QED BY <2>5, <2>6
<1>2. CASE Log
  <2>1. msg \in Signal /\ sel' = Append(sel, msg)
    BY <1>0, <1>2 DEF Log, TypeOK
  <2>2. \A k : LastRecord(k)' <=> IF k = Key(msg) THEN msg.assert ELSE LastRecord(k)
    BY <1>0, <2>1, RecordAppend
  <2>3. /\ Key(msg) \in assertedEvents <=> msg.assert
        /\ missed' = missed \ {Key(msg)} /\ assertedEvents' = assertedEvents
    BY <1>0, <1>2 DEF Log, MsgInv, Return
  <2>4. \A k : ~Handling(k)' /\ (Handling(k) <=> k = Key(msg))
    BY <1>2 DEF Log, Return, Handling
  <2>5. ASSUME NEW k \in Keys \ missed'
        PROVE  LastRecord(k)' <=> k \in assertedEvents'
    <3>1. CASE k = Key(msg)
      BY <2>2, <2>3, <3>1
    <3>2. CASE k # Key(msg)
      BY <1>0, <2>2, <2>3, <2>4, <3>2 DEF SelInv
    <3> QED BY <3>1, <3>2
  <2> QED BY <2>4, <2>5 DEF SelInv
<1>3. CASE GetFails \/ LogFull
  <2>1. /\ \A k : ~Handling(k)' /\ (Handling(k) <=> k = Key(msg))
        /\ missed' = missed \cup {Key(msg)}
        /\ assertedEvents' = assertedEvents /\ sel' = sel
    BY <1>3 DEF GetFails, LogFull, Return, Handling
  <2>2. \A k : LastRecord(k)' <=> LastRecord(k)
    BY <2>1 DEF LastRecord, Key
  <2> QED BY <1>0, <2>1, <2>2 DEF SelInv
<1>4. CASE Clear
  <2>1. \A k : ~LastRecord(k)' /\ ~Handling(k)'
    BY <1>4 DEF Clear, LastRecord, Handling
  <2> QED BY <1>4, <2>1 DEF SelInv, Clear
<1>5. CASE Crash
  <2>1. SUFFICES ASSUME NEW k \in Keys \ missed'
                 PROVE  ~LastRecord(k)'
    BY <1>5 DEF SelInv, Crash, Handling
  <2>2. /\ k \notin missed /\ k \notin assertedEvents
        /\ \A s \in (ToSet(queue) \cup {msg}) \ {Garbage} : k # Key(s)
    BY <1>5 DEF Crash
  <2>3. ~Handling(k)
    BY <1>0, <2>2 DEF Handling, MsgInv
  <2>4. ~LastRecord(k)
    BY <1>0, <2>2, <2>3 DEF SelInv
  <2> QED BY <1>5, <2>4 DEF Crash, LastRecord, Key
<1>6. CASE \/ Ignore \/ GetSensorValue \/ Start
           \/ \E p \in Paths, e \in Events : Cross(p, e) \/ Repeat(p, e)
           \/ EmitGarbage \/ AddOther \/ DeleteOther \/ UNCHANGED vars
  <2>1. /\ sel' = sel /\ assertedEvents' = assertedEvents /\ msg' = msg
        /\ missed \subseteq missed'
        /\ pc' \in {"getAll", "get"} <=> pc \in {"getAll", "get"}
    BY <1>6 DEF Ignore, GetSensorValue, Start, Cross, Repeat, EmitGarbage, AddOther,
                DeleteOther, vars
  <2>2. \A k : (LastRecord(k)' <=> LastRecord(k)) /\ (Handling(k)' <=> Handling(k))
    BY <2>1 DEF LastRecord, Handling, Key
  <2> QED BY <1>0, <2>1, <2>2 DEF SelInv
<1>7. CASE \E i \in DOMAIN sel : DeleteRecord(i)
  <2>1. PICK i \in DOMAIN sel : DeleteRecord(i)
    BY <1>7
  <2>2. /\ sel' = RemoveAt(sel, i) /\ assertedEvents' = assertedEvents
        /\ pc = "idle" /\ pc' = "idle"
        /\ missed' = IF IsNewest(i) THEN missed \cup {Key(sel[i])} ELSE missed
    BY <2>1 DEF DeleteRecord
  <2>3. \A k : ~Handling(k) /\ ~Handling(k)'
    BY <2>2 DEF Handling
  <2>4. ASSUME NEW k \in Keys \ missed'
        PROVE  LastRecord(k)' <=> k \in assertedEvents'
    <3>1. k \notin missed /\ (k # Key(sel[i]) \/ ~IsNewest(i))
      BY <2>2, <2>4
    <3>2. LastRecord(k)' <=> LastRecord(k)
      BY <1>0, <2>2, <3>1, RecordRemove
    <3> QED BY <1>0, <2>2, <2>3, <3>1, <3>2 DEF SelInv
  <2> QED BY <2>3, <2>4 DEF SelInv
<1> QED BY <1>1, <1>2, <1>3, <1>4, <1>5, <1>6, <1>7
        DEF Next, Handler, Sensors, Clients

LEMMA Invariance == Spec => []IInv
<1>1. IInv /\ [Next]_vars => IInv'
  BY RestNext, SetNext, SelNext DEF IInv, LastSays, SetInv, Keys
<1> QED BY <1>1, IInvInit, PTL DEF Spec

-----------------------------------------------------------------------------
(* Every variable keeps its type; the queue and the SEL their bounds.      *)
THEOREM TypeCorrect == Spec => []TypeOK
<1>1. IInv => TypeOK
  BY DEF IInv
<1> QED BY <1>1, Invariance, PTL

(* Once all signals are handled, the SEL tells the state of each threshold *)
(* nothing was lost about.                                                 *)
THEOREM SelDoesTellCondition == Spec => []SelTellsCondition
<1>1. IInv => SelTellsCondition
  <2> SUFFICES ASSUME IInv, pc = "idle", queue = <<>>, NEW k \in Keys \ missed
               PROVE  LastRecord(k) = condition[k]
    BY DEF SelTellsCondition
  <2>1. NoneIn(queue, About(k)) /\ ~Handling(k)
    BY EmptyQueue DEF Handling
  <2>2. LastRecord(k) <=> condition[k]
    BY <2>1 DEF IInv, SelInv, SetInv
  <2>3. condition[k] \in BOOLEAN /\ LastRecord(k) \in BOOLEAN
    BY DEF IInv, TypeOK, LastRecord
  <2> QED BY <2>2, <2>3
<1> QED BY <1>1, Invariance, PTL

(* A record about k says the opposite of the one before, if nothing about  *)
(* k was lost since.                                                       *)
THEOREM RecordsAlternate == Spec => Alternates
<1>1. IInv /\ [Next]_vars =>
        [\A k \in Keys :
           (k \notin missed /\ Len(sel') > Len(sel) /\ Key(Last(sel')) = k)
             => Last(sel').assert # LastRecord(k)]_vars
  <2> SUFFICES ASSUME IInv, Next,
                      NEW k \in Keys, k \notin missed, Len(sel') > Len(sel),
                      Key(Last(sel')) = k
               PROVE  Last(sel').assert # LastRecord(k)
    OBVIOUS
  <2>1. Len(sel) \in Nat /\ Len(<<>>) = 0
    BY SelFacts DEF IInv
  <2>2. Log
    <3>1. Log \/ sel' = sel \/ sel' = <<>> \/ \E i \in DOMAIN sel : DeleteRecord(i)
      BY DEF Next, Handler, Sensors, Ignore, Accept, GetSensorValue, GetFails, LogFull,
           Start, Cross, Repeat, EmitGarbage, Clients, Clear, AddOther, DeleteOther,
           Crash, Return, log
    <3>2. ~ \E i \in DOMAIN sel : DeleteRecord(i)
      BY <2>1, RemoveFacts DEF DeleteRecord, IInv
    <3> QED BY <2>1, <3>1, <3>2
  <2>3. msg \in Signal /\ sel' = Append(sel, msg)
    BY <2>2 DEF Log, IInv, TypeOK
  <2>4. Last(sel') = msg
    BY <2>1, <2>3, AppendProperties DEF Last, IInv, TypeOK
  <2>5. Handling(k)
    BY <2>2, <2>4 DEF Handling, Log
  <2>6. LastRecord(k) <=> ~msg.assert
    BY <2>5 DEF IInv, SelInv
  <2>7. msg.assert \in BOOLEAN /\ LastRecord(k) \in BOOLEAN
    BY <2>3, SignalFacts DEF LastRecord
  <2> QED BY <2>4, <2>6, <2>7
<1> QED BY <1>1, Invariance, PTL DEF Spec, Alternates
=============================================================================
