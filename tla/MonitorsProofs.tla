---------------------------- MODULE MonitorsProofs ----------------------------
(***************************************************************************)
(* Proofs about Monitors: for every build of the daemon, every set of      *)
(* sensors, host errors and watchdog timers, and every bound.              *)
(*                                                                         *)
(* That the log tells the state of a subject is a fact about moments of    *)
(* rest.  The invariant of each monitor says what holds on the way: what   *)
(* the last message about a subject says while one waits, and what the log *)
(* and the statics of the handler say when none does.                      *)
(***************************************************************************)
EXTENDS Monitors, QueueProofs

-----------------------------------------------------------------------------
(* Messages and their subjects.                                            *)

AlarmMessage ==
  {m \in [monitor : {"alarm"}, of : Alarms, name : DOMAIN AlarmBranch] :
     AlarmRecord(m).event = m.of[3]}

HostErrorMessage == [monitor : {"host_error"}, of : Processors, assert : BOOLEAN]
WatchdogMessage  == [monitor : {"watchdog"}, of : {Watchdog}, action : STRING]
PulseMessage     == [monitor : {"pulse"}, of : {Pulse}, state : HostStates,
                     first : BOOLEAN]
GarbageMessage   == [monitor : UNION {b.monitors : b \in Builds}, of : {<<>>}]

Message ==
  AlarmMessage \cup HostErrorMessage \cup WatchdogMessage \cup PulseMessage
    \cup GarbageMessage

Subjects == Alarms \cup Processors \cup {Watchdog, Pulse}

About(s) == {m \in Message : m.of = s}

QueueInv == queue \in Seq(Message)

-----------------------------------------------------------------------------
(* Alarms.                                                                 *)

TellsAlarm(a) == {m \in AlarmMessage : AlarmRecord(m).assert <=> a \in alarmOn}

AlarmInv ==
  \A a \in Alarms :
    /\ LastIs(queue, About(a), TellsAlarm(a))
    /\ a \notin missed /\ NoneIn(queue, About(a)) => (SaysAssert(a) <=> a \in alarmOn)
    /\ a \in DOMAIN last => (last[a].direction = Beyond[a[3]] <=> last[a].assert)

(* Host errors.  The message about an interface tells of the object what   *)
(* it can: an assert that there is an error, a deassert that there is none *)
(* if the object has no other interface.                                   *)

TellsError(s) ==
  {m \in HostErrorMessage : IF m.assert THEN HasError(s) ELSE HasError(s) => Shared(s)}

HostErrorInv ==
  \A s \in Processors :
    /\ LastIs(queue, About(s), TellsError(s))
    /\ s \notin missed => (SaysAssert(s) <=> s \in hostErrorEvents)
    /\ s \notin missed /\ NoneIn(queue, About(s)) =>
         IF s \in hostErrorEvents THEN HasError(s) ELSE HasError(s) => Shared(s)

(* The watchdog.  While a timeout waits, the timer stays as it was when it *)
(* ran out.                                                                *)

OtherTimeout == {m \in WatchdogMessage : m.action # timer.action}

Tells(t, r) ==
  /\ t.action \in DOMAIN ActionCode => r.data0 = ActionCode[t.action]
  /\ t.interrupt \in DOMAIN Interrupt =>
       r.data1 \div 16 = Interrupt[t.interrupt] /\ r.data1 % 16 = Code(UseCode, t.use, 15)

LogTellsDue ==
  IF due = <<>> THEN Watchdog \notin DOMAIN last
  ELSE Watchdog \in DOMAIN last /\ Tells(due, last[Watchdog])

WatchdogInv ==
  /\ pc = "execute" => Head(queue).of = Watchdog
  /\ Watchdog \in DOMAIN last => last[Watchdog].assert
  /\ Watchdog \notin missed =>
       /\ pc = "execute" => use = EventData1(timer)
       /\ NoneIn(queue, OtherTimeout)
       /\ Pending => ~armed /\ (timer.nolog \/ due = timer)
       /\ ~Pending \/ timer.nolog => LogTellsDue

(* The state of the host.  Messages about other states say nothing.        *)

PowerMessage == {m \in PulseMessage : m.state \in PowerStates}
TellsPower   == {m \in PulseMessage : m.state = power}

PulseInv ==
  /\ LastIs(queue, PowerMessage, TellsPower)
  /\ Pulse \notin missed /\ NoneIn(queue, PowerMessage) =>
       IF power = "none" THEN Pulse \notin DOMAIN last
       ELSE Pulse \in DOMAIN last /\ last[Pulse].state = power

IInv ==
  TypeOK /\ QueueInv /\ AlarmInv /\ HostErrorInv /\ WatchdogInv /\ PulseInv

-----------------------------------------------------------------------------
(* A subject has one monitor, and a message one kind.                      *)

LEMMA SubjectFacts ==
  /\ <<>> \notin Subjects
  /\ \A s \in Alarms : s[1] = "alarm"
  /\ \A s \in Processors : s[1] = "host_error"
  /\ Watchdog[1] = "watchdog" /\ Pulse[1] = "pulse"
BY DEF Subjects, Alarms, Processors, Processor, Watchdog, Pulse

LEMMA MessageFacts ==
  ASSUME NEW m \in Message
  PROVE  /\ m.of \in Subjects \cup {<<>>}
         /\ m.of \in Alarms => m \in AlarmMessage
         /\ m.of \in Processors => m \in HostErrorMessage
         /\ m.of = Watchdog => m \in WatchdogMessage
         /\ m.of = Pulse => m \in PulseMessage
         /\ ~IsGarbage(m) =>
              /\ m.monitor = "alarm" => m \in AlarmMessage
              /\ m.monitor = "host_error" => m \in HostErrorMessage
              /\ m.monitor = "watchdog" => m \in WatchdogMessage
              /\ m.monitor = "pulse" => m \in PulseMessage
<1>1. CASE m \in AlarmMessage
  BY <1>1, SubjectFacts DEF AlarmMessage, Subjects, IsGarbage
<1>2. CASE m \in HostErrorMessage
  BY <1>2, SubjectFacts DEF HostErrorMessage, Subjects, IsGarbage
<1>3. CASE m \in WatchdogMessage
  BY <1>3, SubjectFacts DEF WatchdogMessage, Subjects, IsGarbage
<1>4. CASE m \in PulseMessage
  BY <1>4, SubjectFacts DEF PulseMessage, Subjects, IsGarbage
<1>5. CASE m \in GarbageMessage
  BY <1>5, SubjectFacts DEF GarbageMessage, Subjects, IsGarbage
<1> QED BY <1>1, <1>2, <1>3, <1>4, <1>5 DEF Message

(* Each branch of the alarm handler names the event and the direction its  *)
(* signal stands for.                                                      *)
LEMMA BranchFacts ==
  /\ \A n \in DOMAIN AlarmBranch :
       /\ AlarmBranch[n].assert \in BOOLEAN
       /\ AlarmBranch[n].direction = Beyond[AlarmBranch[n].event] <=> AlarmBranch[n].assert
  /\ \A e \in AlarmEvents :
       /\ OnName[e] \in DOMAIN AlarmBranch /\ OffName[e] \in DOMAIN AlarmBranch
       /\ AlarmBranch[OnName[e]].event = e /\ AlarmBranch[OffName[e]].event = e
       /\ AlarmBranch[OnName[e]].assert /\ ~AlarmBranch[OffName[e]].assert
<1>1. \A n \in DOMAIN AlarmBranch :
        /\ AlarmBranch[n].assert \in BOOLEAN
        /\ AlarmBranch[n].direction = Beyond[AlarmBranch[n].event] <=> AlarmBranch[n].assert
  <2>1. "low" # "high" /\ "high" # "low"
    OBVIOUS
  <2>2. /\ Beyond["WarningLow"] = "low" /\ Beyond["WarningHigh"] = "high"
        /\ Beyond["CriticalLow"] = "low" /\ Beyond["CriticalHigh"] = "high"
    BY DEF Beyond
  <2> DEFINE Sound(r) == /\ r.assert \in BOOLEAN
                         /\ r.direction = Beyond[r.event] <=> r.assert
  <2>3. \A e \in {"WarningLow", "CriticalLow"} :
          Sound(Branch(e, TRUE, "low")) /\ Sound(Branch(e, FALSE, "high"))
    BY <2>1, <2>2 DEF Branch
  <2>4. \A e \in {"WarningHigh", "CriticalHigh"} :
          Sound(Branch(e, TRUE, "high")) /\ Sound(Branch(e, FALSE, "low"))
    BY <2>1, <2>2 DEF Branch
  <2>5. \A n \in DOMAIN AlarmBranch : Sound(AlarmBranch[n])
    <3>1. DOMAIN AlarmBranch =
            {"WarningLowAlarmAsserted", "WarningLowAlarmDeasserted",
             "WarningHighAlarmAsserted", "WarningHighAlarmDeasserted",
             "CriticalLowAlarmAsserted", "CriticalLowAlarmDeasserted",
             "CriticalHighAlarmAsserted", "CriticalHighAlarmDeasserted"}
      BY DEF AlarmBranch
    <3>2. /\ AlarmBranch["WarningLowAlarmAsserted"] = Branch("WarningLow", TRUE, "low")
          /\ AlarmBranch["WarningLowAlarmDeasserted"] = Branch("WarningLow", FALSE, "high")
          /\ AlarmBranch["WarningHighAlarmAsserted"] = Branch("WarningHigh", TRUE, "high")
          /\ AlarmBranch["WarningHighAlarmDeasserted"] = Branch("WarningHigh", FALSE, "low")
      BY DEF AlarmBranch
    <3>3. /\ AlarmBranch["CriticalLowAlarmAsserted"] = Branch("CriticalLow", TRUE, "low")
          /\ AlarmBranch["CriticalLowAlarmDeasserted"] = Branch("CriticalLow", FALSE, "high")
          /\ AlarmBranch["CriticalHighAlarmAsserted"] = Branch("CriticalHigh", TRUE, "high")
          /\ AlarmBranch["CriticalHighAlarmDeasserted"] = Branch("CriticalHigh", FALSE, "low")
      BY DEF AlarmBranch
    <3> HIDE DEF Sound
    <3> QED BY <2>3, <2>4, <3>1, <3>2, <3>3
  <2> QED BY <2>5
<1>2. AlarmEvents \subseteq {"WarningLow", "WarningHigh", "CriticalLow", "CriticalHigh"}
  BY AlarmAssumption DEF Beyond
<1>3. \A e \in {"WarningLow", "WarningHigh", "CriticalLow", "CriticalHigh"} :
        /\ OnName[e] \in DOMAIN AlarmBranch /\ OffName[e] \in DOMAIN AlarmBranch
        /\ AlarmBranch[OnName[e]].event = e /\ AlarmBranch[OffName[e]].event = e
        /\ AlarmBranch[OnName[e]].assert /\ ~AlarmBranch[OffName[e]].assert
  BY DEF AlarmBranch, Branch, OnName, OffName
<1> QED BY <1>1, <1>2, <1>3

LEMMA AlarmSent ==
  ASSUME NEW a \in Alarms, NEW on
  PROVE  /\ AlarmSignal(a, on) \in AlarmMessage
         /\ AlarmSignal(a, on).of = a
         /\ AlarmRecord(AlarmSignal(a, on)).assert <=> on
<1>1. a[3] \in AlarmEvents
  BY DEF Alarms
<1>2. /\ AlarmSignal(a, on).name = IF on THEN OnName[a[3]] ELSE OffName[a[3]]
      /\ AlarmSignal(a, on).of = a
  BY DEF AlarmSignal
<1>3. /\ AlarmSignal(a, on).name \in DOMAIN AlarmBranch
      /\ AlarmRecord(AlarmSignal(a, on)).event = a[3]
      /\ AlarmRecord(AlarmSignal(a, on)).assert <=> on
  BY <1>1, <1>2, BranchFacts DEF AlarmRecord
<1>4. AlarmSignal(a, on) \in [monitor : {"alarm"}, of : Alarms, name : DOMAIN AlarmBranch]
  BY <1>2, <1>3 DEF AlarmSignal
<1> QED BY <1>2, <1>3, <1>4 DEF AlarmMessage

(* A record is about the alarm its signal is of.                           *)
LEMMA AlarmSubject ==
  ASSUME NEW m \in AlarmMessage
  PROVE  /\ <<"alarm", m.of[2], AlarmRecord(m).event>> = m.of
         /\ AlarmRecord(m).assert \in BOOLEAN
         /\ AlarmRecord(m).direction = Beyond[m.of[3]] <=> AlarmRecord(m).assert
<1>1. /\ m.of \in Alarms /\ m.name \in DOMAIN AlarmBranch
      /\ AlarmRecord(m).event = m.of[3]
  BY DEF AlarmMessage
<1>2. PICK p \in AlarmPaths, e \in AlarmEvents : m.of = <<"alarm", p, e>>
  BY <1>1 DEF Alarms
<1> QED BY <1>1, <1>2, BranchFacts DEF AlarmRecord

(* What the environment sends.                                             *)
LEMMA SignalTypes ==
  /\ \A a \in STRING :
       [monitor |-> "watchdog", of |-> Watchdog, action |-> a] \in WatchdogMessage
  /\ \A state \in HostStates, first \in BOOLEAN :
       [monitor |-> "pulse", of |-> Pulse, state |-> state, first |-> first]
         \in PulseMessage
BY DEF WatchdogMessage, PulseMessage

LEMMA HeadFacts ==
  ASSUME QueueInv, queue # <<>>
  PROVE  /\ Head(queue) \in Message /\ Head(queue) = queue[1] /\ 1 \in DOMAIN queue
         /\ Tail(queue) \in Seq(Message) /\ Len(Tail(queue)) = Len(queue) - 1
         /\ Len(queue) \in Nat
         /\ \A i \in DOMAIN Tail(queue) :
              i + 1 \in DOMAIN queue /\ Tail(queue)[i] = queue[i + 1]
BY TailFacts, SeqFacts DEF QueueInv

-----------------------------------------------------------------------------
(* A step that is not about the subject s.                                 *)
Apart(s) ==
  /\ s \in DOMAIN last' <=> s \in DOMAIN last
  /\ s \in DOMAIN last => last'[s] = last[s]
  /\ s \notin missed' => s \notin missed
  /\ \/ queue' = queue
     \/ \E m \in Message : m.of # s /\ queue' = Append(queue, m)
     \/ queue # <<>> /\ Head(queue).of # s /\ queue' = Tail(queue)
     \/ queue' = <<>> /\ (s \notin missed' => NoneIn(queue, About(s)))

(* It keeps what the messages about s say.                                 *)
LEMMA ApartQueue ==
  ASSUME QueueInv, NEW s, Apart(s),
         NEW B, NEW G, B \subseteq About(s), LastIs(queue, B, G)
  PROVE  /\ LastIs(queue', B, G)
         /\ s \notin missed' /\ NoneIn(queue', B) => NoneIn(queue, B)
<1>0. queue \in Seq(Message)
  BY DEF QueueInv
<1>1. CASE queue' = queue
  BY <1>1
<1>2. CASE \E m \in Message : m.of # s /\ queue' = Append(queue, m)
  <2>1. PICK m \in Message : m.of # s /\ queue' = Append(queue, m)
    BY <1>2
  <2>2. m \notin B
    BY <2>1 DEF About
  <2> QED BY <1>0, <2>1, <2>2, QueueAppend
<1>3. CASE queue # <<>> /\ Head(queue).of # s /\ queue' = Tail(queue)
  <2>1. Head(queue) \notin B
    BY <1>3 DEF About
  <2> QED BY <1>0, <1>3, <2>1, QueueTail
<1>4. CASE queue' = <<>> /\ (s \notin missed' => NoneIn(queue, About(s)))
  BY <1>4, EmptyQueue, NoneMonotonic
<1> QED BY <1>1, <1>2, <1>3, <1>4 DEF Apart

LEMMA ApartNone ==
  ASSUME QueueInv, NEW s, Apart(s), NEW B, B \subseteq About(s), NoneIn(queue, B)
  PROVE  NoneIn(queue', B)
<1>0. queue \in Seq(Message) /\ \A m : m.of # s => m \notin B
  BY DEF QueueInv, About
<1> QED BY <1>0, EmptyQueue, NoneAppend, NoneTail DEF Apart

LEMMA ApartLog ==
  ASSUME NEW s, Apart(s)
  PROVE  SaysAssert(s)' <=> SaysAssert(s)
BY DEF Apart, SaysAssert

-----------------------------------------------------------------------------
(* The fragments the handlers are made of.                                 *)

LEMMA DieFacts ==
  ASSUME Die
  PROVE  /\ queue' = <<>> /\ last' = last /\ records' = records
         /\ \A s : Apart(s)
         /\ \A i \in DOMAIN queue : queue[i].of \in missed'
BY DEF Die, Apart, NoneIn, About

LEMMA DropFacts ==
  ASSUME NEW lost, Drop(lost), queue # <<>>
  PROVE  /\ queue' = Tail(queue) /\ last' = last /\ records' = records
         /\ missed' = missed \cup lost
         /\ \A s : s # Head(queue).of => Apart(s)
BY DEF Drop, Return, Apart

(* A record is written, or it is missed.                                   *)
LEMMA AddFacts ==
  ASSUME NEW s, NEW r, NEW told, AddRecord(s, r, told), queue # <<>>, s = Head(queue).of,
         \A t \in told : t = s
  PROVE  /\ \/ /\ queue' = Tail(queue) /\ pc' = "idle"
               /\ s \in DOMAIN last' /\ last'[s] = r
               /\ missed' = missed \ told
            \/ queue' = Tail(queue) /\ last' = last /\ s \in missed'
            \/ Die
         /\ \A t : t # s => Apart(t)
         /\ records' # records =>
              s \in DOMAIN last' /\ last'[s] = r
<1>1. CASE AddToSel(s, r, told) \/ CallService(s, r, told)
  <2>1. /\ queue' = Tail(queue) /\ pc' = "idle" /\ missed' = missed \ told
        /\ last' = [t \in DOMAIN last \cup {s} |-> IF t = s THEN r ELSE last[t]]
    BY <1>1 DEF AddToSel, CallService, Tell, Return
  <2>2. /\ s \in DOMAIN last' /\ last'[s] = r
        /\ \A t : t # s => (t \in DOMAIN last' <=> t \in DOMAIN last)
        /\ \A t \in DOMAIN last : t # s => last'[t] = last[t]
    BY <2>1
  <2> QED BY <2>1, <2>2 DEF Apart
<1>2. CASE SelFull(s)
  BY <1>2 DEF SelFull, Drop, Return, Apart
<1>3. CASE ServiceThrows
  <2>1. records' = records /\ Die
    BY <1>3 DEF ServiceThrows, Die
  <2> QED BY <2>1, DieFacts
<1> QED BY <1>1, <1>2, <1>3 DEF AddRecord

LEMMA DeliverFacts ==
  ASSUME NEW m \in Message, Deliver(m)
  PROVE  /\ last' = last /\ records' = records /\ pc' = pc
         /\ IF pc = "down" THEN queue' = queue ELSE queue' = Append(queue, m)
         /\ \A s : s # m.of /\ (s \notin missed' => s \notin missed) => Apart(s)
BY DEF Deliver, Apart

-----------------------------------------------------------------------------
(* Type correctness.                                                       *)

LoopInv == LoopTypeOK /\ QueueInv

LEMMA LoopDie ==
  ASSUME LoopInv, Die PROVE LoopInv'
<1>1. Len(<<>>) <= MaxQueue /\ <<>> \in Seq(Message)
  BY BoundAssumption
<1> QED BY <1>1 DEF Die, LoopInv, LoopTypeOK, QueueInv

LEMMA LoopTail ==
  ASSUME LoopInv, queue # <<>>, Return, build' = build, records' \in 0 .. SelCapacity
  PROVE  LoopInv'
<1>1. /\ queue' \in Seq(Message) /\ Len(queue') = Len(queue) - 1 /\ Len(queue) \in Nat
      /\ \A i \in DOMAIN queue' : i + 1 \in DOMAIN queue /\ queue'[i] = queue[i + 1]
  BY HeadFacts DEF LoopInv, Return
<1>2. Len(queue') <= MaxQueue
  BY <1>1, BoundAssumption DEF LoopInv, LoopTypeOK
<1> QED BY <1>1, <1>2 DEF LoopInv, LoopTypeOK, QueueInv, Return

LEMMA LoopDrop ==
  ASSUME LoopInv, queue # <<>>, NEW lost, Drop(lost)
  PROVE  LoopInv'
BY LoopTail DEF Drop, LoopInv, LoopTypeOK

LEMMA LoopAdd ==
  ASSUME LoopInv, queue # <<>>, NEW s, NEW r, NEW told, AddRecord(s, r, told)
  PROVE  LoopInv'
<1>1. CASE AddToSel(s, r, told)
  <2>1. records' \in 0 .. SelCapacity
    BY <1>1, BoundAssumption DEF AddToSel, HasRoom, LoopInv, LoopTypeOK
  <2> QED BY <1>1, <2>1, LoopTail DEF AddToSel
<1>2. CASE SelFull(s)
  BY <1>2, LoopDrop DEF SelFull
<1>3. CASE CallService(s, r, told)
  BY <1>3, LoopTail DEF CallService, LoopInv, LoopTypeOK
<1>4. CASE ServiceThrows
  BY <1>4, LoopDie DEF ServiceThrows
<1> QED BY <1>1, <1>2, <1>3, <1>4 DEF AddRecord

LEMMA LoopDeliver ==
  ASSUME LoopInv, NEW m \in Message, Deliver(m)
  PROVE  LoopInv'
<1>1. CASE pc = "down"
  BY <1>1 DEF Deliver, LoopInv, LoopTypeOK, QueueInv
<1>2. CASE pc # "down"
  <2>1. queue' = Append(queue, m) /\ Len(queue) < MaxQueue
    BY <1>2 DEF Deliver
  <2>2. /\ queue' \in Seq(Message) /\ Len(queue') = Len(queue) + 1
        /\ DOMAIN queue' = 1 .. Len(queue) + 1
        /\ \A i \in DOMAIN queue : queue'[i] = queue[i]
        /\ queue'[Len(queue) + 1] = m
        /\ DOMAIN queue = 1 .. Len(queue) /\ Len(queue) \in Nat
    BY <2>1, AppendFacts, SeqFacts DEF LoopInv, QueueInv
  <2>3. Len(queue') <= MaxQueue /\ queue' # <<>>
    BY <2>1, <2>2, BoundAssumption
  <2>4. \A i \in DOMAIN queue' : queue'[i].monitor \in build'.monitors
    <3>1. \A i \in DOMAIN queue' : i \in DOMAIN queue \/ i = Len(queue) + 1
      BY <2>2
    <3> QED BY <2>2, <3>1 DEF Deliver, LoopInv, LoopTypeOK
  <2> QED BY <1>2, <2>2, <2>3, <2>4 DEF Deliver, LoopInv, LoopTypeOK, QueueInv
<1> QED BY <1>1, <1>2

(* What waits is untouched.                                                *)
LEMMA LoopRest ==
  ASSUME LoopInv, build' = build, queue' = queue, records' \in 0 .. SelCapacity,
         \/ pc' = pc
         \/ pc = "down" /\ pc' = "idle"
         \/ queue # <<>> /\ pc' = "execute"
  PROVE  LoopInv'
BY DEF LoopInv, LoopTypeOK, QueueInv

(* What the environment sends are messages.                                *)
LEMMA Sends ==
  ASSUME TypeOK,
         \/ \E a \in Alarms : ChangeAlarm(a) \/ RepeatAlarm(a)
         \/ \E i \in HostErrors : ChangeHostError(i) \/ RepeatHostError(i)
         \/ \E state \in HostStates, first \in BOOLEAN : ChangeHostState(state, first)
         \/ Expire \/ DeliverGarbage
  PROVE  \E m \in Message : Deliver(m)
<1>1. CASE \E a \in Alarms : ChangeAlarm(a) \/ RepeatAlarm(a)
  <2>1. PICK a \in Alarms : ChangeAlarm(a) \/ RepeatAlarm(a)
    BY <1>1
  <2>2. AlarmSignal(a, a \in alarmOn') \in Message /\ AlarmSignal(a, a \in alarmOn) \in Message
    BY AlarmSent DEF Message
  <2> QED BY <2>1, <2>2 DEF ChangeAlarm, RepeatAlarm
<1>2. CASE \E i \in HostErrors : ChangeHostError(i) \/ RepeatHostError(i)
  <2>1. PICK i \in HostErrors : ChangeHostError(i) \/ RepeatHostError(i)
    BY <1>2
  <2>2. /\ HostErrorSignal(i, i \in hostErrors') \in Message
        /\ HostErrorSignal(i, i \in hostErrors) \in Message
    BY DEF HostErrorSignal, HostErrorMessage, Processors, Message
  <2> QED BY <2>1, <2>2 DEF ChangeHostError, RepeatHostError
<1>3. CASE Expire
  <2>1. timer.action \in STRING
    BY TimerAssumption DEF TypeOK, WatchdogTypeOK
  <2> QED BY <1>3, <2>1, SignalTypes DEF Expire, Message
<1>4. CASE \E state \in HostStates, first \in BOOLEAN : ChangeHostState(state, first)
  BY <1>4, SignalTypes DEF ChangeHostState, Message
<1>5. CASE DeliverGarbage
  <2>1. PICK monitor \in build.monitors : Deliver(Garbage(monitor))
    BY <1>5 DEF DeliverGarbage
  <2>2. Garbage(monitor) \in Message
    BY DEF TypeOK, LoopTypeOK, Garbage, GarbageMessage, Message
  <2> QED BY <2>1, <2>2
<1> QED BY <1>1, <1>2, <1>3, <1>4, <1>5

LEMMA LoopNext ==
  ASSUME TypeOK, QueueInv, [Next]_vars
  PROVE  LoopInv'
<1> USE DEF loopVars
<1>0. /\ LoopInv
      /\ Working("alarm") \/ Working("host_error") \/ Working("watchdog") \/ Working("pulse")
         \/ pc = "execute" => queue # <<>>
      /\ records \in 0 .. SelCapacity
  BY DEF TypeOK, LoopInv, LoopTypeOK, Working
<1>1. CASE HandleAlarm
  BY <1>0, <1>1, LoopDrop, LoopAdd
     DEF HandleAlarm, IgnoreAlarm, AlarmCallFails, LogAlarm
<1>2. CASE HandleHostError
  BY <1>0, <1>2, LoopDrop, LoopAdd DEF HandleHostError, IgnoreHostError, LogHostError
<1>3. CASE HandleWatchdog
  <2>1. CASE WatchdogBadSignal \/ ExecuteThrows
    BY <1>0, <2>1, LoopDie DEF WatchdogBadSignal, ExecuteThrows
  <2>2. CASE WatchdogGetAll
    BY <1>0, <2>2, LoopRest DEF WatchdogGetAll
  <2>3. CASE WatchdogGetAllFails
    BY <1>0, <2>3, LoopDrop DEF WatchdogGetAllFails
  <2>4. CASE Execute
    <3>1. Drop({}) \/ AddRecord(Watchdog, WatchdogRecord(Head(queue)), {})
      BY <2>4 DEF Execute
    <3>2. queue # <<>>
      BY <1>0, <2>4 DEF Execute
    <3> QED BY <1>0, <3>1, <3>2, LoopDrop, LoopAdd
  <2> QED BY <1>3, <2>1, <2>2, <2>3, <2>4 DEF HandleWatchdog
<1>4. CASE HandlePulse
  <2>1. CASE PulseBadSignal \/ ServiceThrows
    BY <1>0, <2>1, LoopDie DEF PulseBadSignal, ServiceThrows
  <2>2. CASE IgnorePulse
    BY <1>0, <1>4, <2>2, LoopDrop DEF HandlePulse, IgnorePulse
  <2>3. CASE Return /\ UNCHANGED <<build, records>>
    BY <1>0, <1>4, <2>3, LoopTail DEF HandlePulse
  <2> QED BY <1>4, <2>1, <2>2, <2>3 DEF HandlePulse, LogPulse
<1>5. CASE Restart
  BY <1>0, <1>5, LoopRest DEF Restart
<1>6. CASE \E m \in Message : Deliver(m)
  BY <1>0, <1>6, LoopDeliver
<1>7. CASE (\E t \in Timers : SetTimer(t)) \/ Clear \/ UNCHANGED vars
  BY <1>0, <1>7, LoopRest, BoundAssumption DEF SetTimer, Clear, vars
<1>8. CASE AddOther \/ DeleteRecord
  <2>1. records' \in 0 .. SelCapacity
    BY <1>0, <1>8, BoundAssumption DEF AddOther, HasRoom, DeleteRecord
  <2> QED BY <1>0, <1>8, <2>1, LoopRest DEF AddOther, DeleteRecord
<1>9. CASE Kill
  BY <1>0, <1>9, LoopDie DEF Kill
<1> QED BY <1>1, <1>2, <1>3, <1>4, <1>5, <1>6, <1>7, <1>8, <1>9, Sends
        DEF Next, Daemon, Environment, AlarmOf, HostErrorOf, WatchdogOf, PulseOf, NoneOf

LEMMA TypeInit == Init => TypeOK /\ QueueInv
<1> SUFFICES ASSUME Init PROVE TypeOK /\ QueueInv
  OBVIOUS
<1>1. LoopTypeOK /\ QueueInv
  <2>1. Len(<<>>) <= MaxQueue /\ 0 \in 0 .. SelCapacity /\ <<>> \in Seq(Message)
    BY BoundAssumption
  <2> QED BY <2>1 DEF Init, LoopInit, LoopTypeOK, QueueInv
<1>2. WatchdogTypeOK
  <2>1. timer \in Timers
    BY TimerAssumption DEF Init, WatchdogInit
  <2>2. 255 \in Byte
    BY DEF Byte
  <2> QED BY <2>1, <2>2 DEF Init, WatchdogInit, WatchdogTypeOK
<1> QED BY <1>1, <1>2 DEF Init, TypeOK, AlarmInit, AlarmTypeOK, HostErrorInit,
           HostErrorTypeOK, PulseInit, PulseTypeOK, HostStates

(* The byte the handler computes tells the interrupt and the use.          *)
LEMMA EventDataFacts ==
  ASSUME NEW t \in Timers
  PROVE  /\ EventData1(t) \in Byte
         /\ t.interrupt \in DOMAIN Interrupt =>
              /\ EventData1(t) \div 16 = Interrupt[t.interrupt]
              /\ EventData1(t) % 16 = Code(UseCode, t.use, 15)
<1>1. Code(UseCode, t.use, 15) \in 0 .. 15
  BY DEF Code, UseCode
<1>2. t.interrupt \in DOMAIN Interrupt => Interrupt[t.interrupt] \in 0 .. 3
  BY DEF Interrupt
<1>3. \A a \in 0 .. 3, b \in 0 .. 15 :
        /\ 16 * a + b \in 0 .. 255
        /\ (16 * a + b) \div 16 = a /\ (16 * a + b) % 16 = b
  OBVIOUS
<1> QED BY <1>1, <1>2, <1>3 DEF EventData1, Byte

LEMMA TypeNext ==
  ASSUME TypeOK, QueueInv, [Next]_vars
  PROVE  TypeOK' /\ QueueInv'
<1> USE DEF TypeOK
<1>1. LoopInv'
  BY LoopNext
<1>2. AlarmTypeOK'
  BY DEF AlarmTypeOK, Next, Daemon, Environment, AlarmOf, HostErrorOf, WatchdogOf,
         PulseOf, NoneOf, Restart, HandleAlarm, ChangeAlarm, RepeatAlarm, alarmVars, vars
<1>3. HostErrorTypeOK'
  <2>1. CASE HandleHostError
    <3>1. LogHostError => Head(queue).of \in Processors
      <4> SUFFICES ASSUME LogHostError PROVE Head(queue).of \in Processors
        OBVIOUS
      <4>1. queue # <<>> /\ Head(queue).monitor = "host_error" /\ ~IsGarbage(Head(queue))
        BY <2>1 DEF HandleHostError, Working, LogHostError, IsNewError
      <4>2. Head(queue) \in HostErrorMessage
        BY <4>1, HeadFacts, MessageFacts
      <4> QED BY <4>2 DEF HostErrorMessage
    <3> QED BY <2>1, <3>1
            DEF HandleHostError, IgnoreHostError, LogHostError, TrackError, HostErrorTypeOK
  <2>2. CASE \E i \in HostErrors : ChangeHostError(i) \/ RepeatHostError(i)
    BY <2>2 DEF ChangeHostError, RepeatHostError, hostErrorVars, HostErrorTypeOK
  <2>3. CASE Restart
    BY <2>3 DEF Restart, ForgetHostErrors, HostErrorTypeOK
  <2> QED BY <2>1, <2>2, <2>3
          DEF Next, Daemon, Environment, AlarmOf, HostErrorOf, WatchdogOf, PulseOf, NoneOf,
              hostErrorVars, HostErrorTypeOK, vars
<1>4. WatchdogTypeOK'
  <2> USE DEF WatchdogTypeOK
  <2>1. timer.nolog \in BOOLEAN /\ EventData1(timer) \in Byte
    BY TimerAssumption, EventDataFacts
  <2>2. CASE WatchdogGetAll
    BY <2>1, <2>2 DEF WatchdogGetAll
  <2>3. CASE Execute
    BY <2>1, <2>3 DEF Execute, NologBit
  <2>4. CASE WatchdogBadSignal \/ WatchdogGetAllFails \/ ExecuteThrows
    BY <2>4 DEF WatchdogBadSignal, WatchdogGetAllFails, ExecuteThrows, watchdogVars
  <2>5. CASE Restart
    <3>1. 255 \in Byte
      BY DEF Byte
    <3> QED BY <2>5, <3>1 DEF Restart, ForgetWatchdog
  <2>6. CASE Expire
    BY <2>6 DEF Expire
  <2>7. CASE \E t \in Timers : SetTimer(t)
    BY <2>7 DEF SetTimer
  <2> QED BY <2>2, <2>3, <2>4, <2>5, <2>6, <2>7
          DEF Next, Daemon, Environment, AlarmOf, HostErrorOf, WatchdogOf, PulseOf, NoneOf,
              HandleWatchdog, watchdogVars, vars
<1>5. PulseTypeOK'
  BY DEF PulseTypeOK, Next, Daemon, Environment, AlarmOf, HostErrorOf, WatchdogOf,
         PulseOf, NoneOf, Restart, HandlePulse, ChangeHostState, pulseVars, vars
<1> QED BY <1>1, <1>2, <1>3, <1>4, <1>5 DEF LoopInv

-----------------------------------------------------------------------------
(* A handler works on the first message, which is about a subject of its   *)
(* monitor; the environment sends one message.                             *)

Working1 == TypeOK /\ QueueInv /\ (pc = "execute" => Head(queue).of = Watchdog)

LEMMA HandledIs ==
  ASSUME Working1
  PROVE  /\ HandleAlarm => queue # <<>> /\ Head(queue).of \in Alarms \cup {<<>>}
         /\ HandleHostError => queue # <<>> /\ Head(queue).of \in Processors \cup {<<>>}
         /\ HandleWatchdog => queue # <<>> /\ Head(queue).of \in {Watchdog, <<>>}
         /\ HandlePulse => queue # <<>> /\ Head(queue).of \in {Pulse, <<>>}
<1>1. ASSUME NEW monitor \in {"alarm", "host_error", "watchdog", "pulse"}, Working(monitor)
      PROVE  /\ queue # <<>>
             /\ monitor = "alarm" => Head(queue).of \in Alarms \cup {<<>>}
             /\ monitor = "host_error" => Head(queue).of \in Processors \cup {<<>>}
             /\ monitor = "watchdog" => Head(queue).of \in {Watchdog, <<>>}
             /\ monitor = "pulse" => Head(queue).of \in {Pulse, <<>>}
  <2>1. queue # <<>> /\ Head(queue) \in Message /\ Head(queue).monitor = monitor
    BY <1>1, HeadFacts DEF Working, Working1
  <2> QED BY <2>1, MessageFacts DEF IsGarbage, AlarmMessage, HostErrorMessage,
             WatchdogMessage, PulseMessage
<1>2. pc = "execute" => queue # <<>> /\ Head(queue).of = Watchdog
  BY DEF Working1, TypeOK, LoopTypeOK
<1> QED BY <1>1, <1>2 DEF HandleAlarm, HandleHostError, HandlePulse, HandleWatchdog,
           WatchdogBadSignal, WatchdogGetAll, WatchdogGetAllFails, ExecuteThrows, Execute

LEMMA ApartHandle ==
  ASSUME Working1, HandleAlarm \/ HandleHostError \/ HandleWatchdog \/ HandlePulse,
         NEW s, s # Head(queue).of
  PROVE  Apart(s)
<1>1. queue # <<>>
  BY HandledIs
<1>2. CASE HandleAlarm
  <2>1. CASE IgnoreAlarm \/ AlarmCallFails
    BY <1>1, <2>1, DropFacts DEF IgnoreAlarm, AlarmCallFails
  <2>2. CASE LogAlarm
    <3> DEFINE m == Head(queue)
    <3>1. m \in AlarmMessage
      BY <1>1, <1>2, <2>2, HeadFacts, MessageFacts DEF HandleAlarm, LogAlarm, Working, Working1
    <3>2. AddRecord(m.of, AlarmRecord(m), {m.of})
      BY <2>2, <3>1, AlarmSubject DEF LogAlarm
    <3> QED BY <1>1, <3>2, AddFacts
  <2> QED BY <1>2, <2>1, <2>2 DEF HandleAlarm
<1>3. CASE HandleHostError
  BY <1>1, <1>3, DropFacts, AddFacts DEF HandleHostError, IgnoreHostError, LogHostError
<1>4. CASE HandleWatchdog
  <2>1. CASE WatchdogBadSignal \/ ExecuteThrows
    BY <2>1, DieFacts DEF WatchdogBadSignal, ExecuteThrows
  <2>2. CASE WatchdogGetAll
    BY <2>2 DEF WatchdogGetAll, Apart
  <2>3. CASE WatchdogGetAllFails
    BY <1>1, <2>3, DropFacts DEF WatchdogGetAllFails
  <2>4. CASE Execute
    <3>1. Drop({}) \/ AddRecord(Watchdog, WatchdogRecord(Head(queue)), {})
      BY <2>4 DEF Execute
    <3>2. Head(queue).of = Watchdog
      BY <2>4 DEF Execute, Working1
    <3>3. CASE Drop({})
      BY <1>1, <3>3, DropFacts
    <3>4. CASE AddRecord(Watchdog, WatchdogRecord(Head(queue)), {})
      BY <1>1, <3>2, <3>4, AddFacts
    <3> QED BY <3>1, <3>3, <3>4
  <2> QED BY <1>4, <2>1, <2>2, <2>3, <2>4 DEF HandleWatchdog
<1>5. CASE HandlePulse
  <2>1. CASE PulseBadSignal \/ ServiceThrows
    BY <2>1, DieFacts DEF PulseBadSignal, ServiceThrows
  <2>2. CASE IgnorePulse
    BY <1>1, <2>2, DropFacts DEF IgnorePulse
  <2>3. CASE /\ Tell(Pulse, [assert |-> FALSE, state |-> Head(queue).state])
             /\ missed' = missed \ {Pulse} /\ Return /\ ~IsGarbage(Head(queue))
    <3>1. Head(queue).of = Pulse
      BY <1>5, <2>3, HandledIs DEF IsGarbage
    <3> QED BY <1>1, <2>3, <3>1 DEF Tell, Return, Apart
  <2> QED BY <1>5, <2>1, <2>2, <2>3 DEF HandlePulse, LogPulse
<1> QED BY <1>2, <1>3, <1>4, <1>5

LEMMA ApartEnvironment ==
  /\ \A a \in Alarms :
       ChangeAlarm(a) \/ RepeatAlarm(a) => \A s : s # a => Apart(s)
  /\ \A i \in HostErrors :
       ChangeHostError(i) \/ RepeatHostError(i) => \A s : s # Processor(i) => Apart(s)
  /\ TypeOK /\ (Expire \/ \E t \in Timers : SetTimer(t)) =>
       \A s : s # Watchdog => Apart(s)
  /\ \A state \in HostStates, first \in BOOLEAN :
       ChangeHostState(state, first) => \A s : s # Pulse => Apart(s)
  /\ TypeOK /\ DeliverGarbage => \A s : s # <<>> => Apart(s)
  /\ Restart \/ Kill \/ AddOther \/ UNCHANGED vars => \A s : Apart(s)
<1>1. ASSUME NEW a \in Alarms, ChangeAlarm(a) \/ RepeatAlarm(a), NEW s, s # a
      PROVE  Apart(s)
  <2>1. /\ AlarmSignal(a, a \in alarmOn') \in Message
        /\ AlarmSignal(a, a \in alarmOn) \in Message
        /\ \A on : AlarmSignal(a, on).of = a
    BY AlarmSent DEF Message
  <2> QED BY <1>1, <2>1, DeliverFacts DEF ChangeAlarm, RepeatAlarm, Unheard
<1>2. ASSUME NEW i \in HostErrors, ChangeHostError(i) \/ RepeatHostError(i),
             NEW s, s # Processor(i)
      PROVE  Apart(s)
  <2>1. /\ HostErrorSignal(i, i \in hostErrors') \in Message
        /\ HostErrorSignal(i, i \in hostErrors) \in Message
        /\ \A on : HostErrorSignal(i, on).of = Processor(i)
    BY DEF HostErrorSignal, HostErrorMessage, Processors, Message
  <2> QED BY <1>2, <2>1, DeliverFacts DEF ChangeHostError, RepeatHostError, Unheard
<1>3. ASSUME TypeOK, Expire \/ \E t \in Timers : SetTimer(t), NEW s, s # Watchdog
      PROVE  Apart(s)
  <2>1. CASE Expire
    <3>1. timer.action \in STRING
      BY <1>3, TimerAssumption DEF TypeOK, WatchdogTypeOK
    <3>2. [monitor |-> "watchdog", of |-> Watchdog, action |-> timer.action] \in Message
      BY <3>1, SignalTypes DEF Message
    <3> QED BY <1>3, <2>1, <3>2, DeliverFacts DEF Expire
  <2>2. CASE \E t \in Timers : SetTimer(t)
    BY <1>3, <2>2 DEF SetTimer, Apart
  <2> QED BY <1>3, <2>1, <2>2
<1>4. ASSUME NEW state \in HostStates, NEW first \in BOOLEAN,
             ChangeHostState(state, first), NEW s, s # Pulse
      PROVE  Apart(s)
  <2>1. [monitor |-> "pulse", of |-> Pulse, state |-> state, first |-> first] \in Message
    BY SignalTypes DEF Message
  <2> QED BY <1>4, <2>1, DeliverFacts DEF ChangeHostState, Unheard
<1>5. ASSUME TypeOK, DeliverGarbage, NEW s, s # <<>>
      PROVE  Apart(s)
  <2>1. PICK monitor \in build.monitors : Deliver(Garbage(monitor))
    BY <1>5 DEF DeliverGarbage
  <2>2. Garbage(monitor) \in Message /\ Garbage(monitor).of = <<>>
    BY <1>5 DEF TypeOK, LoopTypeOK, Garbage, GarbageMessage, Message
  <2> QED BY <1>5, <2>1, <2>2, DeliverFacts DEF DeliverGarbage
<1>6. ASSUME Restart \/ AddOther \/ UNCHANGED vars, NEW s PROVE Apart(s)
  BY <1>6 DEF Restart, AddOther, Apart, vars, loopVars
<1>7. ASSUME Kill, NEW s PROVE Apart(s)
  BY <1>7, DieFacts DEF Kill
<1> QED BY <1>1, <1>2, <1>3, <1>4, <1>5, <1>6, <1>7

(* The last record about s is taken from the SEL, and it is missed, unless *)
(* it was no assert.                                                       *)
Taken(s) ==
  /\ ~SaysAssert(s)' /\ s \notin DOMAIN last'
  /\ s \notin missed' => s \notin missed /\ ~SaysAssert(s)

LEMMA TakeFacts ==
  ASSUME Clear \/ DeleteRecord
  PROVE  /\ queue' = queue /\ pc' = "idle" /\ pc = "idle"
         /\ \A s : s[1] # "pulse" => Apart(s) \/ Taken(s)
         /\ \A s : s[1] = "pulse" => Apart(s)
<1>1. CASE Clear
  <2>1. DOMAIN last' = DOMAIN last \ InSel /\ \A s \in DOMAIN last' : last'[s] = last[s]
    BY <1>1 DEF Clear, Forget
  <2> QED BY <1>1, <2>1 DEF Clear, InSel, SaysAssert, Apart, Taken
<1>2. CASE DeleteRecord /\ UNCHANGED <<last, missed>>
  BY <1>2 DEF DeleteRecord, Apart
<1>3. CASE DeleteRecord /\ \E t \in InSel : Forget({t}) /\ missed' = missed \cup {t}
  <2>1. PICK t \in InSel : Forget({t}) /\ missed' = missed \cup {t}
    BY <1>3
  <2>2. DOMAIN last' = DOMAIN last \ {t} /\ \A s \in DOMAIN last' : last'[s] = last[s]
    BY <2>1 DEF Forget
  <2>3. t[1] # "pulse" /\ Taken(t)
    BY <2>1, <2>2 DEF InSel, SaysAssert, Taken
  <2>4. \A s : s # t => Apart(s)
    BY <1>3, <2>1, <2>2 DEF DeleteRecord, Apart
  <2> QED BY <1>3, <2>3, <2>4 DEF DeleteRecord
<1> QED BY <1>1, <1>2, <1>3 DEF DeleteRecord

-----------------------------------------------------------------------------
(* Alarms.                                                                 *)

LEMMA AlarmNext ==
  ASSUME IInv, [Next]_vars
  PROVE  AlarmInv'
<1> SUFFICES ASSUME NEW a \in Alarms
             PROVE  /\ LastIs(queue, About(a), TellsAlarm(a))'
                    /\ (a \notin missed /\ NoneIn(queue, About(a))
                          => (SaysAssert(a) <=> a \in alarmOn))'
                    /\ (a \in DOMAIN last =>
                          (last[a].direction = Beyond[a[3]] <=> last[a].assert))'
  BY DEF AlarmInv, Alarms
<1> DEFINE B == About(a)
           G == TellsAlarm(a)
<1>0. /\ Working1 /\ queue \in Seq(Message)
      /\ LastIs(queue, B, G)
      /\ a \notin missed /\ NoneIn(queue, B) => (SaysAssert(a) <=> a \in alarmOn)
      /\ a \in DOMAIN last => (last[a].direction = Beyond[a[3]] <=> last[a].assert)
      /\ pc = "down" => queue = <<>>
  BY DEF IInv, AlarmInv, QueueInv, WatchdogInv, Working1, TypeOK, LoopTypeOK
<1>a. a[1] = "alarm" /\ a # <<>> /\ a # Watchdog /\ a # Pulse
      /\ a \notin Processors /\ \A i \in HostErrors : a # Processor(i)
  BY SubjectFacts DEF Subjects, Processors
<1>b. B' = B /\ (alarmOn' = alarmOn => G' = G)
  BY DEF About, TellsAlarm
<1> SUFFICES /\ LastIs(queue', B, G')
             /\ a \notin missed' /\ NoneIn(queue', B) => (SaysAssert(a)' <=> a \in alarmOn')
             /\ a \in DOMAIN last' =>
                  (last'[a].direction = Beyond[a[3]] <=> last'[a].assert)
  BY <1>b DEF LastIs, NoneIn
<1>c. B \subseteq About(a) /\ \A m \in B : m.of = a /\ m \in AlarmMessage
  BY MessageFacts DEF About
<1> HIDE DEF B, G
<1>1. CASE Apart(a) /\ (a \in alarmOn' <=> a \in alarmOn)
  <2>1. G' = G
    BY <1>1 DEF G, TellsAlarm
  <2>2. /\ LastIs(queue', B, G)
        /\ a \notin missed' /\ NoneIn(queue', B) => NoneIn(queue, B)
    BY <1>0, <1>1, <1>c, ApartQueue DEF QueueInv
  <2>3. (SaysAssert(a)' <=> SaysAssert(a)) /\ (a \notin missed' => a \notin missed)
    BY <1>1, ApartLog DEF Apart
  <2> QED BY <1>0, <1>1, <2>1, <2>2, <2>3 DEF Apart
<1>2. CASE HandleAlarm /\ Head(queue).of = a
  <2>1. queue # <<>> /\ ~IsGarbage(Head(queue)) /\ alarmOn' = alarmOn
    BY <1>0, <1>2, <1>a, HandledIs DEF IsGarbage, HandleAlarm, alarmVars
  <2>2. /\ LastIs(Tail(queue), B, G)
        /\ NoneIn(Tail(queue), B) => Head(queue) \in G
    <3>1. Head(queue) \in B
      BY <1>0, <1>2, <2>1, HeadFacts DEF QueueInv, B, About
    <3> QED BY <1>0, <2>1, <3>1, QueueTail
  <2>3. CASE AlarmCallFails
    BY <1>0, <1>2, <1>b, <2>1, <2>2, <2>3, DropFacts DEF AlarmCallFails
  <2>4. CASE LogAlarm
    <3> DEFINE r == AlarmRecord(Head(queue))
    <3>0. Head(queue) \in AlarmMessage
      BY <1>0, <1>2, <2>1, HeadFacts, MessageFacts DEF QueueInv
    <3>1. /\ AddRecord(a, r, {a}) /\ r.assert \in BOOLEAN
          /\ r.direction = Beyond[a[3]] <=> r.assert
      BY <1>2, <2>4, <3>0, AlarmSubject DEF LogAlarm
    <3>2. CASE /\ queue' = Tail(queue)
               /\ a \in DOMAIN last' /\ last'[a] = r
      <4>1. SaysAssert(a)' <=> r.assert
        BY <3>2 DEF SaysAssert
      <4> QED BY <1>b, <2>1, <2>2, <3>1, <3>2, <4>1 DEF G, TellsAlarm
    <3>3. CASE queue' = Tail(queue) /\ last' = last /\ a \in missed'
      BY <1>0, <1>b, <2>1, <2>2, <3>3
    <3>4. CASE Die
      BY <1>1, <2>1, <3>4, DieFacts
    <3> HIDE DEF r
    <3> QED BY <1>2, <2>1, <3>1, <3>2, <3>3, <3>4, AddFacts
  <2> QED BY <1>2, <2>1, <2>3, <2>4 DEF HandleAlarm, IgnoreAlarm
<1>3. CASE ChangeAlarm(a) \/ RepeatAlarm(a)
  <2> DEFINE m == AlarmSignal(a, a \in alarmOn')
  <2>1. m \in Message /\ m \in B /\ m \in G'
    <3>1. m \in AlarmMessage /\ m.of = a /\ (AlarmRecord(m).assert <=> a \in alarmOn')
      <4> DEFINE on == a \in alarmOn'
      <4>1. m = AlarmSignal(a, on) /\ on \in BOOLEAN
        OBVIOUS
      <4> HIDE DEF on, m
      <4> QED BY <4>1, AlarmSent DEF on
    <3> QED BY <3>1 DEF Message, B, About, G, TellsAlarm
  <2>2. Deliver(m) /\ (pc = "down" => a \in missed')
    BY <1>3 DEF ChangeAlarm, RepeatAlarm, Unheard, m
  <2> HIDE DEF m
  <2>3. CASE pc = "down"
    <3>1. queue' = <<>> /\ a \in missed' /\ last' = last
      BY <1>0, <2>1, <2>2, <2>3, DeliverFacts
    <3> QED BY <1>0, <3>1, EmptyQueue
  <2>4. CASE pc # "down"
    <3>1. queue' = Append(queue, m) /\ last' = last
      BY <2>1, <2>2, <2>4, DeliverFacts
    <3>2. LastIs(queue', B, G') /\ ~NoneIn(queue', B)
      BY <1>0, <2>1, <3>1, QueueAppend
    <3> QED BY <1>0, <3>1, <3>2
  <2> QED BY <2>3, <2>4
<1>4. CASE (Clear \/ DeleteRecord) /\ alarmOn' = alarmOn
  <2>1. queue' = queue /\ (Apart(a) \/ Taken(a))
    BY <1>4, <1>a, TakeFacts
  <2> QED BY <1>0, <1>1, <1>4, <1>b, <2>1 DEF Taken
<1>5. CASE HandleAlarm /\ Head(queue).of # a
  BY <1>0, <1>1, <1>5, ApartHandle DEF HandleAlarm, alarmVars
<1>6. CASE (HandleHostError \/ HandleWatchdog \/ HandlePulse) /\ UNCHANGED alarmVars
  <2>1. a # Head(queue).of
    BY <1>0, <1>6, <1>a, HandledIs
  <2> QED BY <1>0, <1>1, <1>6, <2>1, ApartHandle DEF alarmVars
<1>7. CASE \E b \in Alarms : ChangeAlarm(b) \/ RepeatAlarm(b)
  <2>1. PICK b \in Alarms : ChangeAlarm(b) \/ RepeatAlarm(b)
    BY <1>7
  <2>2. CASE b = a
    BY <1>3, <2>1, <2>2
  <2>3. CASE b # a
    <3>1. Apart(a) /\ (a \in alarmOn' <=> a \in alarmOn)
      BY <2>1, <2>3, ApartEnvironment DEF ChangeAlarm, RepeatAlarm
    <3> QED BY <1>1, <3>1
  <2> QED BY <2>2, <2>3
<1>8. CASE /\ \/ Restart \/ Kill \/ AddOther
              \/ \E i \in HostErrors : ChangeHostError(i) \/ RepeatHostError(i)
              \/ (\E t \in Timers : SetTimer(t)) \/ Expire
              \/ \E state \in HostStates, first \in BOOLEAN : ChangeHostState(state, first)
              \/ DeliverGarbage
           /\ UNCHANGED alarmVars
  <2>1. Apart(a)
    BY <1>0, <1>8, <1>a, ApartEnvironment DEF Working1
  <2> QED BY <1>1, <1>8, <2>1 DEF alarmVars
<1>9. CASE UNCHANGED vars
  BY <1>1, <1>9, ApartEnvironment DEF vars, alarmVars
<1> QED BY <1>2, <1>4, <1>5, <1>6, <1>7, <1>8, <1>9
        DEF Next, Daemon, Environment, AlarmOf, HostErrorOf, WatchdogOf, PulseOf, NoneOf,
            Restart, alarmVars

-----------------------------------------------------------------------------
(* Host errors.                                                            *)

(* What a message tells is true when it is sent.                           *)
LEMMA ErrorSent ==
  ASSUME HostErrorTypeOK, NEW i \in HostErrors,
         ChangeHostError(i) \/ RepeatHostError(i)
  PROVE  /\ HostErrorSignal(i, i \in hostErrors')
              \in About(Processor(i)) \cap TellsError(Processor(i))'
         /\ Deliver(HostErrorSignal(i, i \in hostErrors'))
         /\ pc = "down" => Processor(i) \in missed'
         /\ \A s : s # Processor(i) => (HasError(s)' <=> HasError(s))
         /\ hostErrorEvents' = hostErrorEvents
<1> DEFINE m == HostErrorSignal(i, i \in hostErrors')
           s == Processor(i)
<1>1. m \in HostErrorMessage /\ s \in Processors
  BY DEF HostErrorSignal, HostErrorMessage, Processors
<1>2. m.of = s /\ (m.assert <=> i \in hostErrors')
  BY DEF HostErrorSignal
<1>3. hostErrors' \subseteq HostErrors
  BY DEF HostErrorTypeOK, ChangeHostError, RepeatHostError, hostErrorVars
<1>4. m.assert => HasError(s)'
  BY <1>2 DEF HasError
<1>5. ~m.assert /\ HasError(s)' => Shared(s)
  BY <1>2, <1>3 DEF HasError, Shared
<1>6. TellsError(s)' = {n \in HostErrorMessage :
                          IF n.assert THEN HasError(s)' ELSE HasError(s)' => Shared(s)}
  BY DEF TellsError
<1>7. m \in About(s) /\ m \in TellsError(s)'
  <2> HIDE DEF m, s
  <2> QED BY <1>1, <1>2, <1>4, <1>5, <1>6 DEF About, Message
<1>8. \A t : t # s => (HasError(t)' <=> HasError(t))
  BY DEF ChangeHostError, RepeatHostError, hostErrorVars, HasError
<1> QED BY <1>7, <1>8 DEF ChangeHostError, RepeatHostError, Unheard, hostErrorVars

LEMMA HostErrorNext ==
  ASSUME IInv, [Next]_vars
  PROVE  HostErrorInv'
<1> SUFFICES ASSUME NEW s \in Processors
             PROVE  /\ LastIs(queue, About(s), TellsError(s))'
                    /\ (s \notin missed => (SaysAssert(s) <=> s \in hostErrorEvents))'
                    /\ (s \notin missed /\ NoneIn(queue, About(s)) =>
                          IF s \in hostErrorEvents THEN HasError(s)
                          ELSE HasError(s) => Shared(s))'
  BY DEF HostErrorInv, Processors, Processor
<1> DEFINE B == About(s)
           G == TellsError(s)
           Fits == IF s \in hostErrorEvents THEN HasError(s) ELSE HasError(s) => Shared(s)
<1>0. /\ Working1 /\ queue \in Seq(Message) /\ HostErrorTypeOK
      /\ LastIs(queue, B, G)
      /\ s \notin missed => (SaysAssert(s) <=> s \in hostErrorEvents)
      /\ s \notin missed /\ NoneIn(queue, B) => Fits
      /\ pc = "down" => queue = <<>>
  BY DEF IInv, HostErrorInv, QueueInv, WatchdogInv, Working1, TypeOK, LoopTypeOK
<1>a. s[1] = "host_error" /\ s # <<>> /\ s # Watchdog /\ s # Pulse /\ s \notin Alarms
  BY SubjectFacts DEF Subjects
<1>b. B' = B /\ ((HasError(s)' <=> HasError(s)) => G' = G)
  BY DEF About, TellsError
<1> SUFFICES /\ LastIs(queue', B, G')
             /\ s \notin missed' => (SaysAssert(s)' <=> s \in hostErrorEvents')
             /\ s \notin missed' /\ NoneIn(queue', B) => Fits'
  BY <1>b DEF LastIs, NoneIn, HasError
<1>c. B \subseteq About(s) /\ \A m \in B : m.of = s /\ m \in HostErrorMessage
  BY MessageFacts DEF About
<1>d. hostErrors' = hostErrors => G' = G /\ (HasError(s)' <=> HasError(s))
  BY <1>b DEF HasError
<1>e. Fits' <=> IF s \in hostErrorEvents' THEN HasError(s)' ELSE HasError(s)' => Shared(s)
  OBVIOUS
<1> HIDE DEF B, G
<1>1. CASE /\ Apart(s) /\ (s \in hostErrorEvents' <=> s \in hostErrorEvents)
           /\ HasError(s)' <=> HasError(s)
  <2>1. /\ LastIs(queue', B, G)
        /\ s \notin missed' /\ NoneIn(queue', B) => NoneIn(queue, B)
    BY <1>0, <1>1, <1>c, ApartQueue DEF QueueInv
  <2>2. (SaysAssert(s)' <=> SaysAssert(s)) /\ (s \notin missed' => s \notin missed)
    BY <1>1, ApartLog DEF Apart
  <2> QED BY <1>0, <1>1, <1>b, <1>e, <2>1, <2>2
<1>2. CASE HandleHostError /\ Head(queue).of = s
  <2> DEFINE m == Head(queue)
  <2>1. queue # <<>> /\ ~IsGarbage(m) /\ hostErrors' = hostErrors
    BY <1>0, <1>2, <1>a, HandledIs DEF IsGarbage, HandleHostError
  <2>2. m \in B /\ m.assert \in BOOLEAN /\ queue[1] = m /\ 1 \in DOMAIN queue
    BY <1>0, <1>2, <1>c, <2>1, HeadFacts DEF QueueInv, B, About, HostErrorMessage
  <2>3. /\ LastIs(Tail(queue), B, G')
        /\ NoneIn(Tail(queue), B) =>
             IF m.assert THEN HasError(s)' ELSE HasError(s)' => Shared(s)
    BY <1>0, <1>d, <2>1, <2>2, QueueTail DEF G, TellsError
  <2>4. CASE IgnoreHostError
    <3>1. m.assert <=> s \in hostErrorEvents
      BY <1>2, <2>1, <2>2, <2>4 DEF IgnoreHostError, IsNewError
    <3>2. /\ queue' = Tail(queue) /\ last' = last /\ missed' = missed
          /\ hostErrorEvents' = hostErrorEvents
      BY <2>4 DEF IgnoreHostError, Drop, Return
    <3> QED BY <1>0, <1>e, <2>3, <3>1, <3>2 DEF SaysAssert
  <2>5. CASE LogHostError
    <3>1. AddRecord(s, ErrorRecord(m), {s})
      BY <1>2, <2>5 DEF LogHostError
    <3>2. s \in hostErrorEvents' <=> m.assert
      BY <1>2, <2>2, <2>5 DEF LogHostError, TrackError
    <3>3. CASE /\ queue' = Tail(queue)
               /\ s \in DOMAIN last' /\ last'[s] = ErrorRecord(m)
      <4>1. SaysAssert(s)' <=> m.assert
        BY <3>3 DEF SaysAssert, ErrorRecord
      <4> QED BY <1>e, <2>3, <3>2, <3>3, <4>1
    <3>4. CASE queue' = Tail(queue) /\ s \in missed'
      BY <2>3, <3>4
    <3>5. CASE Die
      BY <1>2, <2>2, <3>5, DieFacts, EmptyQueue
    <3> QED BY <1>2, <2>1, <3>1, <3>3, <3>4, <3>5, AddFacts
  <2> QED BY <1>2, <2>4, <2>5 DEF HandleHostError
<1>3. CASE \E i \in HostErrors : ChangeHostError(i) \/ RepeatHostError(i)
  <2>1. PICK i \in HostErrors : ChangeHostError(i) \/ RepeatHostError(i)
    BY <1>3
  <2>2. CASE Processor(i) = s
    <3> DEFINE m == HostErrorSignal(i, i \in hostErrors')
    <3>1. /\ m \in B /\ m \in G' /\ Deliver(m) /\ (pc = "down" => s \in missed')
          /\ hostErrorEvents' = hostErrorEvents
      BY <1>0, <2>1, <2>2, ErrorSent DEF B, G
    <3> HIDE DEF m
    <3>2. m \in Message
      BY <3>1 DEF B, About
    <3>3. CASE pc = "down"
      <4>1. queue' = <<>> /\ s \in missed'
        BY <1>0, <3>1, <3>2, <3>3, DeliverFacts
      <4> QED BY <4>1, EmptyQueue
    <3>4. CASE pc # "down"
      <4>1. queue' = Append(queue, m) /\ last' = last
        BY <3>1, <3>2, <3>4, DeliverFacts
      <4>2. LastIs(queue', B, G') /\ ~NoneIn(queue', B)
        BY <1>0, <3>1, <3>2, <4>1, QueueAppend
      <4>3. s \notin missed' => s \notin missed
        BY <2>1 DEF ChangeHostError, RepeatHostError, Unheard
      <4> QED BY <1>0, <3>1, <4>1, <4>2, <4>3 DEF SaysAssert
    <3> QED BY <3>3, <3>4
  <2>3. CASE Processor(i) # s
    <3>1. (HasError(s)' <=> HasError(s)) /\ hostErrorEvents' = hostErrorEvents
      BY <1>0, <2>1, <2>3, ErrorSent
    <3>2. Apart(s)
      BY <2>1, <2>3, ApartEnvironment
    <3> QED BY <1>1, <3>1, <3>2
  <2> QED BY <2>2, <2>3
<1>4. CASE (Clear \/ DeleteRecord) /\ UNCHANGED hostErrorVars
  <2>1. queue' = queue /\ (Apart(s) \/ Taken(s))
    BY <1>4, <1>a, TakeFacts
  <2>2. CASE Apart(s)
    BY <1>1, <1>4, <1>d, <2>2 DEF hostErrorVars
  <2>3. CASE Taken(s)
    BY <1>0, <1>4, <1>d, <1>e, <2>1, <2>3 DEF Taken, hostErrorVars
  <2> QED BY <2>1, <2>2, <2>3
<1>5. CASE HandleHostError /\ Head(queue).of # s
  <2>1. hostErrors' = hostErrors /\ (s \in hostErrorEvents' <=> s \in hostErrorEvents)
    BY <1>5 DEF HandleHostError, IgnoreHostError, LogHostError, TrackError
  <2> QED BY <1>0, <1>1, <1>5, <1>d, <2>1, ApartHandle
<1>6. CASE (HandleAlarm \/ HandleWatchdog \/ HandlePulse) /\ UNCHANGED hostErrorVars
  <2>1. s # Head(queue).of
    BY <1>0, <1>6, <1>a, HandledIs
  <2> QED BY <1>0, <1>1, <1>6, <1>d, <2>1, ApartHandle DEF hostErrorVars
<1>7. CASE Restart
  <2>1. /\ Apart(s) /\ queue' = queue /\ hostErrors' = hostErrors
        /\ hostErrorEvents' = {} /\ missed' = missed \cup hostErrorEvents
    BY <1>7, ApartEnvironment DEF Restart, ForgetHostErrors
  <2>2. SaysAssert(s)' <=> SaysAssert(s)
    BY <2>1, ApartLog
  <2> QED BY <1>0, <1>d, <1>e, <2>1, <2>2
<1>8. CASE /\ \/ \E a \in Alarms : ChangeAlarm(a) \/ RepeatAlarm(a)
              \/ (\E t \in Timers : SetTimer(t)) \/ Expire
              \/ \E state \in HostStates, first \in BOOLEAN : ChangeHostState(state, first)
              \/ DeliverGarbage \/ Kill \/ AddOther \/ UNCHANGED vars
           /\ UNCHANGED hostErrorVars
  <2>1. Apart(s)
    BY <1>0, <1>8, <1>a, ApartEnvironment DEF Working1
  <2> QED BY <1>1, <1>8, <1>d, <2>1 DEF hostErrorVars
<1> QED BY <1>2, <1>3, <1>4, <1>5, <1>6, <1>7, <1>8
        DEF Next, Daemon, Environment, AlarmOf, HostErrorOf, WatchdogOf, PulseOf, NoneOf,
            vars

-----------------------------------------------------------------------------
(* The host state.                                                         *)

LEMMA PulseNext ==
  ASSUME IInv, [Next]_vars
  PROVE  PulseInv'
<1> DEFINE B == PowerMessage
           G == TellsPower
           Told == IF power = "none" THEN Pulse \notin DOMAIN last
                   ELSE Pulse \in DOMAIN last /\ last[Pulse].state = power
<1>0. /\ Working1 /\ queue \in Seq(Message)
      /\ LastIs(queue, B, G)
      /\ Pulse \notin missed /\ NoneIn(queue, B) => Told
      /\ pc = "down" => queue = <<>>
  BY DEF IInv, PulseInv, QueueInv, WatchdogInv, Working1, TypeOK, LoopTypeOK
<1>a. Pulse[1] = "pulse" /\ Pulse # <<>> /\ Pulse # Watchdog /\ Pulse \notin Alarms
      /\ Pulse \notin Processors /\ \A i \in HostErrors : Pulse # Processor(i)
  BY SubjectFacts DEF Subjects, Processors
<1>b. power' = power => G' = G
  BY DEF TellsPower
<1> SUFFICES /\ LastIs(queue', B, G')
             /\ Pulse \notin missed' /\ NoneIn(queue', B) => Told'
  BY DEF LastIs, NoneIn, PulseInv
<1>c. B \subseteq About(Pulse)
  BY DEF PowerMessage, PulseMessage, About, Message
<1>d. Told' <=> IF power' = "none" THEN Pulse \notin DOMAIN last'
                ELSE Pulse \in DOMAIN last' /\ last'[Pulse].state = power'
  OBVIOUS
<1> HIDE DEF B, G
<1>1. CASE Apart(Pulse) /\ power' = power
  <2>1. /\ LastIs(queue', B, G)
        /\ Pulse \notin missed' /\ NoneIn(queue', B) => NoneIn(queue, B)
    BY <1>0, <1>1, <1>c, ApartQueue DEF QueueInv
  <2> QED BY <1>0, <1>1, <1>b, <1>d, <2>1 DEF Apart
<1>2. CASE HandlePulse /\ Head(queue).of = Pulse
  <2> DEFINE m == Head(queue)
  <2>1. queue # <<>> /\ ~IsGarbage(m) /\ power' = power
    BY <1>0, <1>2, <1>a, HandledIs DEF IsGarbage, HandlePulse, pulseVars
  <2>2. m \in PulseMessage
    BY <1>0, <1>2, <2>1, HeadFacts, MessageFacts DEF QueueInv
  <2>3. m.first \in BOOLEAN /\ (m \in B <=> m.state \in PowerStates)
    BY <2>2 DEF B, PowerMessage, PulseMessage
  <2>4. /\ LastIs(Tail(queue), B, G)
        /\ NoneIn(Tail(queue), B) => IF m \in B THEN m.state = power ELSE NoneIn(queue, B)
    BY <1>0, <2>1, QueueTail DEF G, TellsPower
  <2>5. CASE IgnorePulse
    <3>1. queue' = Tail(queue) /\ last' = last
      BY <2>5 DEF IgnorePulse, Drop, Return
    <3>2. CASE m \in B
      <4>1. Pulse \in missed'
        BY <2>3, <2>5, <3>2 DEF IgnorePulse, Drop, Names
      <4> QED BY <1>b, <2>1, <2>4, <3>1, <4>1
    <3>3. CASE m \notin B
      <4>1. Pulse \in missed => Pulse \in missed'
        BY <2>5 DEF IgnorePulse, Drop
      <4> QED BY <1>0, <1>b, <1>d, <2>1, <2>4, <3>1, <3>3, <4>1
    <3> QED BY <3>2, <3>3
  <2>6. CASE LogPulse /\ Return /\ Tell(Pulse, [assert |-> FALSE, state |-> m.state])
    <3>1. Pulse \in DOMAIN last' /\ last'[Pulse].state = m.state
      BY <2>6 DEF Tell
    <3>2. m \in B /\ m.state # "none"
      BY <2>3, <2>6 DEF LogPulse, Names, PowerStates
    <3> QED BY <1>b, <1>d, <2>1, <2>4, <2>6, <3>1, <3>2 DEF Return
  <2>7. CASE ServiceThrows
    BY <1>1, <2>1, <2>7, DieFacts DEF ServiceThrows
  <2> QED BY <1>2, <2>1, <2>5, <2>6, <2>7 DEF HandlePulse, PulseBadSignal, LogPulse
<1>3. CASE \E state \in HostStates, first \in BOOLEAN : ChangeHostState(state, first)
  <2>1. PICK state \in HostStates, first \in BOOLEAN : ChangeHostState(state, first)
    BY <1>3
  <2> DEFINE m == [monitor |-> "pulse", of |-> Pulse, state |-> state, first |-> first]
  <2>2. /\ m \in Message /\ m \in PulseMessage /\ m.state = state /\ m.of = Pulse
        /\ Deliver(m)
    BY <2>1, SignalTypes DEF ChangeHostState, Message
  <2> HIDE DEF m
  <2>3. CASE state \in PowerStates
    <3>1. m \in B /\ m \in G' /\ (pc = "down" => Pulse \in missed')
      BY <2>1, <2>2, <2>3 DEF ChangeHostState, Unheard, B, PowerMessage, G, TellsPower
    <3>2. CASE pc = "down"
      <4>1. queue' = <<>>
        BY <1>0, <2>2, <3>2, DeliverFacts
      <4> QED BY <3>1, <3>2, <4>1, EmptyQueue
    <3>3. CASE pc # "down"
      <4>1. queue' = Append(queue, m)
        BY <2>2, <3>3, DeliverFacts
      <4> QED BY <1>0, <2>2, <3>1, <4>1, QueueAppend
    <3> QED BY <3>2, <3>3
  <2>4. CASE state \notin PowerStates
    <3>1. m \notin B /\ power' = power /\ missed' = missed /\ last' = last
      BY <2>1, <2>2, <2>4, DeliverFacts DEF ChangeHostState, B, PowerMessage
    <3>2. CASE queue' = queue
      BY <1>0, <1>b, <1>d, <3>1, <3>2
    <3>3. CASE queue' = Append(queue, m)
      <4>1. LastIs(queue', B, G) /\ (NoneIn(queue', B) => NoneIn(queue, B))
        BY <1>0, <2>2, <3>1, <3>3, QueueAppend
      <4> QED BY <1>0, <1>b, <1>d, <3>1, <4>1
    <3> QED BY <2>2, <3>2, <3>3, DeliverFacts
  <2> QED BY <2>3, <2>4
<1>4. CASE (Clear \/ DeleteRecord) /\ UNCHANGED pulseVars
  BY <1>1, <1>4, <1>a, TakeFacts DEF pulseVars
<1>5. CASE /\ HandleAlarm \/ HandleHostError \/ HandleWatchdog \/ HandlePulse
           /\ Head(queue).of # Pulse /\ UNCHANGED pulseVars
  BY <1>0, <1>1, <1>5, ApartHandle DEF pulseVars
<1>6. CASE (HandleAlarm \/ HandleHostError \/ HandleWatchdog) /\ UNCHANGED pulseVars
  <2>1. Pulse # Head(queue).of
    BY <1>0, <1>6, <1>a, HandledIs
  <2> QED BY <1>5, <1>6, <2>1
<1>7. CASE /\ \/ Restart \/ DeliverGarbage \/ Kill \/ AddOther \/ UNCHANGED vars
              \/ \E a \in Alarms : ChangeAlarm(a) \/ RepeatAlarm(a)
              \/ \E i \in HostErrors : ChangeHostError(i) \/ RepeatHostError(i)
              \/ (\E t \in Timers : SetTimer(t)) \/ Expire
           /\ UNCHANGED pulseVars
  <2>1. Apart(Pulse)
    BY <1>0, <1>7, <1>a, ApartEnvironment DEF Working1
  <2> QED BY <1>1, <1>7, <2>1 DEF pulseVars
<1> QED BY <1>2, <1>3, <1>4, <1>5, <1>6, <1>7
        DEF Next, Daemon, Environment, AlarmOf, HostErrorOf, WatchdogOf, PulseOf, NoneOf,
            Restart, HandlePulse, pulseVars, vars

-----------------------------------------------------------------------------
(* The watchdog.                                                           *)

(* While a timeout is in work, its message is the first.                   *)
LEMMA ExecuteNext ==
  ASSUME TypeOK, QueueInv, WatchdogInv, [Next]_vars, pc' = "execute"
  PROVE  Head(queue)'.of = Watchdog
<1>0. Working1 /\ queue \in Seq(Message)
  BY DEF QueueInv, WatchdogInv, Working1
<1>1. CASE WatchdogGetAll
  <2>1. queue # <<>> /\ ~IsGarbage(Head(queue)) /\ queue' = queue
    BY <1>1 DEF WatchdogGetAll, Working
  <2>2. Head(queue).of = Watchdog
    BY <1>0, <1>1, <2>1, HandledIs DEF HandleWatchdog, IsGarbage
  <2> QED BY <2>1, <2>2
<1>2. CASE /\ pc = "execute"
           /\ queue' = queue \/ \E m \in Message : queue' = Append(queue, m)
  <2>1. queue # <<>> /\ Head(queue).of = Watchdog
    BY <1>0, <1>2 DEF Working1, TypeOK, LoopTypeOK
  <2>2. CASE queue' = queue
    BY <2>1, <2>2
  <2>3. CASE \E m \in Message : queue' = Append(queue, m)
    <3>1. PICK m \in Message : queue' = Append(queue, m)
      BY <2>3
    <3>2. 1 \in DOMAIN queue /\ Head(queue) = queue[1] /\ queue'[1] = queue[1]
      BY <1>0, <2>1, <3>1, TailFacts, AppendFacts
    <3>3. queue' \in Seq(Message) /\ Len(queue') = Len(queue) + 1 /\ Len(queue) \in Nat
      BY <1>0, <3>1, AppendFacts, SeqFacts
    <3>4. Head(queue') = queue'[1]
      BY <3>3
    <3> QED BY <2>1, <3>2, <3>4
  <2> QED BY <1>2, <2>2, <2>3
<1>3. CASE HandleAlarm \/ HandleHostError \/ HandlePulse
  BY <1>3 DEF HandleAlarm, IgnoreAlarm, AlarmCallFails, LogAlarm, HandleHostError,
       IgnoreHostError, LogHostError, HandlePulse, PulseBadSignal, IgnorePulse, LogPulse,
       AddRecord, AddToSel, SelFull, CallService, ServiceThrows, Drop, Return, Die
<1>4. CASE WatchdogBadSignal \/ WatchdogGetAllFails \/ ExecuteThrows \/ Execute
  BY <1>4 DEF WatchdogBadSignal, WatchdogGetAllFails, ExecuteThrows, Execute,
       AddRecord, AddToSel, SelFull, CallService, ServiceThrows, Drop, Return, Die
<1>5. CASE \E m \in Message : Deliver(m)
  BY <1>2, <1>5 DEF Deliver
<1>6. CASE (\E t \in Timers : SetTimer(t)) \/ UNCHANGED vars
  BY <1>2, <1>6 DEF SetTimer, vars, loopVars
<1> QED BY <1>1, <1>3, <1>4, <1>5, <1>6, Sends
        DEF Next, Daemon, Environment, AlarmOf, HostErrorOf, WatchdogOf, PulseOf,
            HandleWatchdog, Restart, NoneOf, Clear, AddOther, DeleteRecord, Kill, Die

LEMMA TimerFacts ==
  ASSUME WatchdogTypeOK
  PROVE  timer # <<>> /\ timer.action \in STRING
<1>1. timer \in [use : STRING, action : STRING, interrupt : STRING, nolog : BOOLEAN]
  BY TimerAssumption DEF WatchdogTypeOK
<1> QED BY <1>1

(* The record of a timeout tells of the timer that the handler has read.   *)
LEMMA RecordTells ==
  ASSUME WatchdogTypeOK, NEW m, m.action = timer.action, use = EventData1(timer)
  PROVE  Tells(timer, WatchdogRecord(m))
<1>1. timer \in Timers
  BY DEF WatchdogTypeOK
<1>2. /\ WatchdogRecord(m).data0 = Code(ActionCode, timer.action, 255)
      /\ WatchdogRecord(m).data1 = EventData1(timer)
  BY DEF WatchdogRecord
<1>3. timer.action \in DOMAIN ActionCode =>
        Code(ActionCode, timer.action, 255) = ActionCode[timer.action]
  BY DEF Code
<1> QED BY <1>1, <1>2, <1>3, EventDataFacts DEF Tells

(* What the invariant says of the watchdog while it is not missed.         *)
WatchdogSound ==
  /\ pc = "execute" => use = EventData1(timer)
  /\ NoneIn(queue, OtherTimeout)
  /\ Pending => ~armed /\ (timer.nolog \/ due = timer)
  /\ ~Pending \/ timer.nolog => LogTellsDue

LEMMA WatchdogNext ==
  ASSUME IInv, [Next]_vars
  PROVE  WatchdogInv'
<1> DEFINE W == Watchdog
           B == About(W)
<1>0. /\ Working1 /\ QueueInv /\ queue \in Seq(Message) /\ WatchdogTypeOK
      /\ W \in DOMAIN last => last[W].assert
      /\ W \notin missed => WatchdogSound
      /\ pc = "down" => queue = <<>>
      /\ pc = "execute" => queue # <<>> /\ Head(queue).of = W
  BY DEF IInv, QueueInv, WatchdogInv, WatchdogSound, Working1, TypeOK, LoopTypeOK
<1>q. QueueInv'
  BY TypeNext DEF IInv
<1>p. (Pending <=> ~NoneIn(queue, B)) /\ (Pending' <=> ~NoneIn(queue', B))
  BY <1>0, <1>q, SeqFacts DEF QueueInv, Pending, NoneIn, About
<1>e. pc = "execute" => Pending
  BY <1>0, HeadFacts DEF Pending
<1>a. W[1] = "watchdog" /\ W # <<>> /\ W # Pulse /\ W \notin Alarms /\ W \notin Processors
      /\ \A i \in HostErrors : W # Processor(i)
  BY SubjectFacts DEF Subjects, Processors
<1>o. /\ OtherTimeout \subseteq B
      /\ timer' = timer => OtherTimeout' = OtherTimeout
      /\ OtherTimeout' \subseteq B
  BY DEF OtherTimeout, WatchdogMessage, About, Message
<1>l. LogTellsDue' <=> IF due' = <<>> THEN W \notin DOMAIN last'
                       ELSE W \in DOMAIN last' /\ Tells(due', last'[W])
  BY DEF LogTellsDue, Tells
<1>s. WatchdogSound' <=> /\ pc' = "execute" => use' = EventData1(timer)'
                         /\ NoneIn(queue', OtherTimeout')
                         /\ Pending' => ~armed' /\ (timer'.nolog \/ due' = timer')
                         /\ ~Pending' \/ timer'.nolog => LogTellsDue'
  BY DEF WatchdogSound, NoneIn
<1> SUFFICES /\ W \in DOMAIN last' => last'[W].assert
             /\ W \notin missed' => WatchdogSound'
  BY <1>s, ExecuteNext DEF WatchdogInv, IInv, NoneIn
<1> HIDE DEF W, B
<1>1. CASE /\ Apart(W) /\ UNCHANGED <<timer, armed, due>>
           /\ pc' = "execute" => pc = "execute" /\ use' = use
  <2>1. W \notin missed' => W \notin missed
    BY <1>1 DEF Apart
  <2>2. NoneIn(queue, OtherTimeout) => NoneIn(queue', OtherTimeout)
    BY <1>0, <1>1, <1>o, ApartNone DEF B
  <2>3. Pending' => Pending
    BY <1>0, <1>1, <1>p, ApartNone DEF B
  <2>5. W \notin missed' /\ ~Pending' => ~Pending
    BY <1>0, <1>1, <1>p, ApartQueue DEF B, LastIs
  <2>6. LogTellsDue => LogTellsDue'
    BY <1>1, <1>l DEF LogTellsDue, Apart, W
  <2>7. EventData1(timer)' = EventData1(timer)
    BY <1>1 DEF EventData1
  <2> QED BY <1>0, <1>1, <1>o, <1>s, <2>1, <2>2, <2>3, <2>5, <2>6, <2>7
          DEF WatchdogSound, Apart
<1>2. CASE WatchdogGetAll
  <2>1. /\ queue' = queue /\ last' = last /\ missed' = missed /\ UNCHANGED <<timer, armed, due>>
        /\ use' = EventData1(timer)
    BY <1>2 DEF WatchdogGetAll
  <2>2. EventData1(timer)' = EventData1(timer)
    BY <2>1 DEF EventData1
  <2>3. (Pending' <=> Pending) /\ (LogTellsDue' <=> LogTellsDue)
    BY <1>p, <1>l, <2>1 DEF LogTellsDue, W
  <2> QED BY <1>0, <1>o, <1>s, <2>1, <2>2, <2>3 DEF WatchdogSound
<1>3. CASE Execute
  <2>1. /\ UNCHANGED <<timer, armed, due, use>> /\ queue # <<>> /\ Pending
        /\ Head(queue).of = W /\ pc = "execute"
    BY <1>0, <1>3, <1>e DEF Execute
  <2>2. NoneIn(queue, OtherTimeout) => NoneIn(Tail(queue), OtherTimeout)
    BY <1>0, <2>1, NoneTail
  <2>3. CASE timer.nolog
    <3>1. Drop({}) /\ pc' = "idle" /\ queue' = Tail(queue) /\ last' = last
      BY <1>3, <2>3 DEF Execute, NologBit, Drop, Return
    <3>2. missed \subseteq missed' /\ (LogTellsDue' <=> LogTellsDue)
      BY <1>l, <2>1, <3>1 DEF Drop, LogTellsDue, W
    <3> QED BY <1>0, <1>o, <1>s, <2>1, <2>2, <2>3, <3>1, <3>2 DEF WatchdogSound
  <2>4. CASE ~timer.nolog
    <3> DEFINE r == WatchdogRecord(Head(queue))
    <3>1. AddRecord(W, r, {})
      BY <1>3, <2>4 DEF Execute, NologBit, W
    <3>2. CASE /\ queue' = Tail(queue) /\ pc' = "idle"
               /\ W \in DOMAIN last' /\ last'[W] = r /\ missed' = missed
      <4>2. last'[W].assert
        BY <3>2 DEF WatchdogRecord
      <4>3. ASSUME W \notin missed PROVE WatchdogSound'
        <5>1. Head(queue) \in WatchdogMessage /\ Head(queue) \notin OtherTimeout
          BY <1>0, <2>1, <4>3, HeadFacts, MessageFacts DEF WatchdogSound, NoneIn, W
        <5>2. Tells(timer, r)
          BY <1>0, <2>1, <4>3, <5>1, RecordTells DEF WatchdogSound, OtherTimeout
        <5>3. due' = timer /\ timer # <<>> /\ ~armed'
          BY <1>0, <2>1, <2>4, <4>3, TimerFacts DEF WatchdogSound
        <5>4. LogTellsDue'
          BY <1>l, <3>2, <5>2, <5>3
        <5> QED BY <1>0, <1>o, <1>s, <2>1, <2>2, <3>2, <4>3, <5>3, <5>4
                DEF WatchdogSound
      <4> QED BY <3>2, <4>2, <4>3
    <3>3. CASE queue' = Tail(queue) /\ last' = last /\ W \in missed'
      BY <1>0, <3>3
    <3>4. CASE Die
      BY <1>0, <2>1, <3>4, DieFacts, HeadFacts
    <3>5. \/ /\ queue' = Tail(queue) /\ pc' = "idle"
             /\ W \in DOMAIN last' /\ last'[W] = r /\ missed' = missed \ {}
          \/ queue' = Tail(queue) /\ last' = last /\ W \in missed'
          \/ Die
      <4>1. AddRecord(Head(queue).of, r, {}) /\ W = Head(queue).of
        BY <2>1, <3>1
      <4>2. \A t \in {} : t = Head(queue).of
        OBVIOUS
      <4> HIDE DEF r
      <4> QED BY <2>1, <4>1, <4>2, AddFacts
    <3> QED BY <3>2, <3>3, <3>4, <3>5
  <2> QED BY <2>3, <2>4
<1>4. CASE WatchdogGetAllFails
  BY <1>0, <1>4 DEF WatchdogGetAllFails, Drop, W
<1>5. CASE WatchdogBadSignal \/ ExecuteThrows
  BY <1>1, <1>5, DieFacts DEF WatchdogBadSignal, ExecuteThrows, Die, watchdogVars
<1>6. CASE \E t \in Timers : SetTimer(t)
  <2>1. PICK t \in Timers : SetTimer(t)
    BY <1>6
  <2>2. queue' = queue /\ last' = last /\ due' = due /\ pc' = pc
    BY <2>1 DEF SetTimer
  <2>3. W \notin missed' => W \notin missed /\ ~Pending
    BY <2>1 DEF SetTimer, W
  <2>4. (Pending' <=> Pending) /\ (LogTellsDue' <=> LogTellsDue)
    BY <1>p, <1>l, <2>2 DEF LogTellsDue, W
  <2>5. ~Pending => NoneIn(queue', OtherTimeout')
    BY <1>p, <1>o, <2>2, NoneMonotonic
  <2> QED BY <1>0, <1>e, <1>s, <2>2, <2>3, <2>4, <2>5 DEF WatchdogSound
<1>7. CASE Expire
  <2> DEFINE m == [monitor |-> "watchdog", of |-> Watchdog, action |-> timer.action]
  <2>1. m \in WatchdogMessage /\ m \in Message /\ m.action = timer.action
    BY <1>0, TimerFacts, SignalTypes DEF Message
  <2>2. Deliver(m) /\ armed /\ ~armed' /\ timer' = timer /\ use' = use
    BY <1>7 DEF Expire
  <2> HIDE DEF m
  <2>3. last' = last /\ pc' = pc /\ IF pc = "down" THEN queue' = queue ELSE queue' = Append(queue, m)
    BY <2>1, <2>2, DeliverFacts
  <2>4. NoneIn(queue, OtherTimeout) => NoneIn(queue', OtherTimeout)
    <3>1. m \notin OtherTimeout
      BY <2>1 DEF OtherTimeout
    <3> QED BY <1>0, <2>1, <2>3, <3>1, NoneAppend
  <2>5. EventData1(timer)' = EventData1(timer)
    BY <2>2 DEF EventData1
  <2>6. W \notin missed /\ Pending => FALSE
    BY <1>0, <2>2 DEF WatchdogSound
  <2>7. CASE timer.nolog
    <3>1. due' = due /\ missed' = missed
      BY <1>7, <2>7 DEF Expire
    <3>2. LogTellsDue' <=> LogTellsDue
      BY <1>l, <2>3, <3>1 DEF LogTellsDue, W
    <3> QED BY <1>0, <1>o, <1>s, <2>2, <2>3, <2>4, <2>5, <2>6, <2>7, <3>1, <3>2
            DEF WatchdogSound
  <2>8. CASE ~timer.nolog
    <3>1. due' = timer /\ (W \notin missed' => ~Pending /\ pc # "down")
      BY <1>7, <2>6, <2>8 DEF Expire, W
    <3>2. ~Pending => NoneIn(queue, OtherTimeout)
      BY <1>p, <1>o, NoneMonotonic
    <3>3. pc # "down" => Pending'
      <4>1. CASE pc # "down"
        <5>1. /\ Append(queue, m)[Len(queue) + 1] = m
              /\ Len(queue) + 1 \in DOMAIN Append(queue, m)
          BY <1>0, <2>1, AppendFacts, SeqFacts
        <5>2. m \in B
          BY <2>1 DEF B, W, About, WatchdogMessage
        <5> QED BY <1>p, <2>3, <4>1, <5>1, <5>2 DEF NoneIn
      <4> QED BY <4>1
    <3> QED BY <1>0, <1>e, <1>o, <1>s, <2>2, <2>3, <2>4, <2>8, <3>1, <3>2, <3>3
            DEF WatchdogSound
  <2> QED BY <2>7, <2>8
<1>8. CASE (Clear \/ DeleteRecord) /\ UNCHANGED watchdogVars /\ ~Apart(W)
  <2>1. /\ queue' = queue /\ pc' = "idle" /\ pc = "idle" /\ W \notin DOMAIN last'
        /\ W \notin missed' => W \notin missed /\ ~SaysAssert(W)
    BY <1>8, <1>a, TakeFacts DEF Taken
  <2>2. UNCHANGED <<timer, armed, due>>
    BY <1>8 DEF watchdogVars
  <2>3. ~SaysAssert(W) /\ LogTellsDue => LogTellsDue'
    BY <1>0, <1>l, <2>1, <2>2 DEF LogTellsDue, SaysAssert, W
  <2>4. Pending' <=> Pending
    BY <1>p, <2>1
  <2> QED BY <1>0, <1>o, <1>s, <2>1, <2>2, <2>3, <2>4 DEF WatchdogSound
<1>9. CASE (HandleAlarm \/ HandleHostError \/ HandlePulse) /\ UNCHANGED watchdogVars
  <2>1. W # Head(queue).of
    BY <1>0, <1>9, <1>a, HandledIs
  <2>2. Apart(W)
    BY <1>0, <1>9, <2>1, ApartHandle
  <2>3. pc' # "execute"
    BY <1>9 DEF HandleAlarm, IgnoreAlarm, AlarmCallFails, LogAlarm, HandleHostError,
         IgnoreHostError, LogHostError, HandlePulse, PulseBadSignal, IgnorePulse, LogPulse,
         AddRecord, AddToSel, SelFull, CallService, ServiceThrows, Drop, Return, Die
  <2> QED BY <1>1, <1>9, <2>2, <2>3 DEF watchdogVars
<1>10. CASE Restart
  <2>1. Apart(W)
    BY <1>10, ApartEnvironment
  <2> QED BY <1>1, <1>10, <2>1 DEF Restart
<1>11. CASE /\ \/ \E a \in Alarms : ChangeAlarm(a) \/ RepeatAlarm(a)
               \/ \E i \in HostErrors : ChangeHostError(i) \/ RepeatHostError(i)
               \/ \E state \in HostStates, first \in BOOLEAN : ChangeHostState(state, first)
               \/ DeliverGarbage
            /\ UNCHANGED watchdogVars
  <2>1. Apart(W)
    BY <1>0, <1>11, <1>a, ApartEnvironment DEF Working1
  <2>2. pc' = pc
    BY <1>0, <1>11, Sends DEF Working1, Deliver
  <2> QED BY <1>1, <1>11, <2>1, <2>2 DEF watchdogVars
<1>12. CASE (Kill \/ AddOther) /\ UNCHANGED watchdogVars
  <2>1. Apart(W) /\ pc' # "execute"
    BY <1>12, ApartEnvironment DEF Kill, Die, AddOther
  <2> QED BY <1>1, <1>12, <2>1 DEF watchdogVars
<1>13. CASE (Clear \/ DeleteRecord) /\ UNCHANGED watchdogVars /\ Apart(W)
  BY <1>1, <1>13, TakeFacts DEF watchdogVars
<1>14. CASE UNCHANGED vars
  BY <1>1, <1>14, ApartEnvironment DEF vars, loopVars, watchdogVars
<1> QED BY <1>2, <1>3, <1>4, <1>5, <1>6, <1>7, <1>8, <1>9, <1>10, <1>11, <1>12, <1>13,
           <1>14
        DEF Next, Daemon, Environment, AlarmOf, HostErrorOf, WatchdogOf, PulseOf, NoneOf,
            HandleWatchdog

-----------------------------------------------------------------------------
(* The invariant.                                                          *)

LEMMA IInvInit == Init => IInv
<1> SUFFICES ASSUME Init PROVE IInv
  OBVIOUS
<1>1. queue = <<>> /\ last = <<>> /\ missed = {} /\ pc = "down"
  BY DEF Init, LoopInit
<1>2. alarmOn = {} /\ hostErrors = {} /\ hostErrorEvents = {} /\ due = <<>> /\ power = "none"
  BY DEF Init, AlarmInit, HostErrorInit, WatchdogInit, PulseInit
<1>3. DOMAIN last = {} /\ DOMAIN queue = {}
  BY <1>1, SeqFacts
<1>4. \A B, G : NoneIn(queue, B) /\ LastIs(queue, B, G)
  BY <1>1, EmptyQueue
<1>5. AlarmInv
  BY <1>2, <1>3, <1>4 DEF AlarmInv, SaysAssert
<1>6. HostErrorInv
  BY <1>2, <1>3, <1>4 DEF HostErrorInv, SaysAssert, HasError
<1>7. WatchdogInv
  BY <1>1, <1>2, <1>3, <1>4 DEF WatchdogInv, Pending, LogTellsDue
<1>8. PulseInv
  BY <1>2, <1>3, <1>4 DEF PulseInv
<1> QED BY <1>5, <1>6, <1>7, <1>8, TypeInit DEF IInv

LEMMA Invariance == Spec => []IInv
<1>1. IInv /\ [Next]_vars => IInv'
  BY TypeNext, AlarmNext, HostErrorNext, WatchdogNext, PulseNext DEF IInv
<1> QED BY <1>1, IInvInit, PTL DEF Spec

-----------------------------------------------------------------------------
(* Every variable keeps its type; the queue and the SEL their bounds.      *)
THEOREM TypeCorrect == Spec => []TypeOK
<1>1. IInv => TypeOK
  BY DEF IInv
<1> QED BY <1>1, Invariance, PTL

(* Once the signals are handled, the last record of an alarm tells whether *)
(* it is on, and which way the reading went, if nothing about it was lost. *)
THEOREM AlarmsAreTold == Spec => []AlarmTold
<1>1. IInv => AlarmTold
  <2> SUFFICES ASSUME IInv, queue = <<>>, NEW a \in Alarms \ missed
               PROVE  /\ SaysAssert(a) <=> a \in alarmOn
                      /\ a \in DOMAIN last =>
                           (last[a].direction = Beyond[a[3]] <=> a \in alarmOn)
    BY DEF AlarmTold, Settled
  <2> QED BY EmptyQueue DEF IInv, AlarmInv, SaysAssert
<1> QED BY <1>1, Invariance, PTL

(* Once the signals are handled, the last record of an object is no assert *)
(* when its errors have gone, and tells whether there is one when only one *)
(* interface reports.                                                      *)
THEOREM HostErrorsAreTold == Spec => []HostErrorTold
<1>1. IInv => HostErrorTold
  <2> SUFFICES ASSUME IInv, queue = <<>>, NEW s \in Processors \ missed
               PROVE  /\ SaysAssert(s) => HasError(s)
                      /\ HasError(s) /\ ~Shared(s) => SaysAssert(s)
    BY DEF HostErrorTold, Settled
  <2> QED BY EmptyQueue DEF IInv, HostErrorInv
<1> QED BY <1>1, Invariance, PTL

(* Once the timeouts are handled, the last record tells action and use of  *)
(* the last timer that ran out and was set to log.                         *)
THEOREM WatchdogIsTold == Spec => []WatchdogTold
<1>1. IInv => WatchdogTold
  <2> SUFFICES ASSUME IInv, queue = <<>>, Watchdog \notin missed
               PROVE  LogTellsDue
    BY DEF WatchdogTold, Settled, LogTellsDue, Tells
  <2>1. ~Pending
    BY SeqFacts DEF Pending
  <2> QED BY <2>1 DEF IInv, WatchdogInv
<1> QED BY <1>1, Invariance, PTL

(* Once the signals are handled, the last entry tells the last of Off and  *)
(* Running the host went to.                                               *)
THEOREM PowerIsTold == Spec => []PowerTold
<1>1. IInv => PowerTold
  BY EmptyQueue DEF IInv, PulseInv, PowerTold, Settled
<1> QED BY <1>1, Invariance, PTL

(* Asserts and deasserts of an object alternate in the SEL, if nothing     *)
(* about it was lost since the last.                                       *)
THEOREM HostErrorsAlternate == Spec => HostErrorAlternates
<1>1. IInv /\ [Next]_vars =>
        [\A s \in Processors \ missed :
           Records(s) => last'[s].assert # SaysAssert(s)]_<<loopVars, hostErrorVars>>
  <2> SUFFICES ASSUME IInv, [Next]_vars, NEW s \in Processors, s \notin missed, Records(s)
               PROVE  last'[s].assert # SaysAssert(s)
    OBVIOUS
  <2>0. Working1 /\ records \in Nat /\ (SaysAssert(s) <=> s \in hostErrorEvents)
    BY BoundAssumption
       DEF IInv, WatchdogInv, HostErrorInv, Working1, TypeOK, LoopTypeOK
  <2>1. /\ records' # records /\ Head(queue).of = s
        /\ queue # <<>> /\ queue' = Tail(queue) /\ queue' # queue
    <3>1. queue # <<>> /\ queue' = Tail(queue)
      BY DEF Records
    <3>2. Len(queue') = Len(queue) - 1 /\ Len(queue) \in Nat
      BY <2>0, <3>1, HeadFacts DEF Working1
    <3>3. queue' # queue
      BY <3>2
    <3> QED BY <2>0, <3>1, <3>3 DEF Records
  <2>2. s # <<>> /\ s # Watchdog /\ s # Pulse /\ s \notin Alarms
    BY SubjectFacts DEF Subjects
  <2>3. HandleHostError
    <3>1. HandleAlarm \/ HandleHostError \/ HandleWatchdog \/ HandlePulse
      BY <2>1, Sends
         DEF Next, Daemon, Environment, AlarmOf, HostErrorOf, WatchdogOf, PulseOf, NoneOf,
             Clear, AddOther, DeleteRecord, Kill, Die, Restart, SetTimer, Deliver, IInv,
             vars, loopVars
    <3> QED BY <2>0, <2>1, <2>2, <3>1, HandledIs
  <2> DEFINE m == Head(queue)
  <2>4. LogHostError
    BY <2>0, <2>1, <2>3, HandledIs DEF HandleHostError, IgnoreHostError, Drop
  <2>5. m \in HostErrorMessage /\ ~IsGarbage(m) /\ (m.assert <=> s \notin hostErrorEvents)
    BY <2>0, <2>1, <2>2, <2>4, HeadFacts, MessageFacts
       DEF LogHostError, IsNewError, Working1
  <2>6. s \in DOMAIN last' /\ last'[s] = ErrorRecord(m)
    <3>1. AddRecord(s, ErrorRecord(m), {s})
      BY <2>1, <2>4 DEF LogHostError
    <3> QED BY <2>1, <2>4, <3>1, AddFacts
  <2>7. last'[s].assert = m.assert /\ m.assert \in BOOLEAN
    BY <2>5, <2>6 DEF ErrorRecord, HostErrorMessage
  <2>8. SaysAssert(s) \in BOOLEAN
    BY <2>0 DEF SaysAssert
  <2> QED BY <2>0, <2>5, <2>7
<1> QED BY <1>1, Invariance, PTL DEF Spec, HostErrorAlternates
=============================================================================
