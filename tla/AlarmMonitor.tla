---------------------------- MODULE AlarmMonitor ----------------------------
(***************************************************************************)
(* The threshold alarm monitor (include/threshold_alarm_event_monitor.hpp):*)
(* one match for each of eight signal names, one record for each signal,   *)
(* no memory of what was asserted.  What the record says comes from the    *)
(* name.  The handler waits for two answers of the sensor daemon; what     *)
(* arrives meanwhile waits in the queue, so the whole of it is one step.   *)
(* The readings in the record are left out.                                *)
(***************************************************************************)
EXTENDS EventLoop

CONSTANTS AlarmPaths, AlarmEvents \* sensors, and the alarms each has

(* The sensor daemons: the names of their signals, and to which side of    *)
(* its threshold an alarm comes on.                                        *)
OnName ==
  [WarningLow   |-> "WarningLowAlarmAsserted",
   WarningHigh  |-> "WarningHighAlarmAsserted",
   CriticalLow  |-> "CriticalLowAlarmAsserted",
   CriticalHigh |-> "CriticalHighAlarmAsserted"]

OffName ==
  [WarningLow   |-> "WarningLowAlarmDeasserted",
   WarningHigh  |-> "WarningHighAlarmDeasserted",
   CriticalLow  |-> "CriticalLowAlarmDeasserted",
   CriticalHigh |-> "CriticalHighAlarmDeasserted"]

Beyond == [WarningLow  |-> "low", WarningHigh  |-> "high",
           CriticalLow |-> "low", CriticalHigh |-> "high"]

ASSUME AlarmAssumption == AlarmEvents \subseteq DOMAIN Beyond

Alarms == {<<"alarm", p, e>> : p \in AlarmPaths, e \in AlarmEvents}

VARIABLE alarmOn \* the alarms of the sensors that are on

alarmVars == <<alarmOn>>

AlarmTypeOK == alarmOn \subseteq Alarms

AlarmInit == alarmOn = {}

AlarmSignal(a, on) ==
  [monitor |-> "alarm", of |-> a, name |-> IF on THEN OnName[a[3]] ELSE OffName[a[3]]]

(* A reading crosses a threshold, or returns.                              *)
ChangeAlarm(a) ==
  /\ alarmOn' = IF a \in alarmOn THEN alarmOn \ {a} ELSE alarmOn \cup {a}
  /\ Deliver(AlarmSignal(a, a \in alarmOn'))
  /\ missed' = Unheard(a)

(* A sensor daemon that restarts tells its alarms again.                   *)
RepeatAlarm(a) ==
  /\ pc # "down"
  /\ Deliver(AlarmSignal(a, a \in alarmOn))
  /\ UNCHANGED <<alarmOn, missed>>

-----------------------------------------------------------------------------
(* generateEvent                                                           *)

(* The branches on the name of the signal.                                 *)
Branch(event, assert, direction) ==
  [event |-> event, assert |-> assert, direction |-> direction]

AlarmBranch ==
  [WarningLowAlarmAsserted     |-> Branch("WarningLow", TRUE, "low"),
   WarningLowAlarmDeasserted   |-> Branch("WarningLow", FALSE, "high"),
   WarningHighAlarmAsserted    |-> Branch("WarningHigh", TRUE, "high"),
   WarningHighAlarmDeasserted  |-> Branch("WarningHigh", FALSE, "low"),
   CriticalLowAlarmAsserted    |-> Branch("CriticalLow", TRUE, "low"),
   CriticalLowAlarmDeasserted  |-> Branch("CriticalLow", FALSE, "high"),
   CriticalHighAlarmAsserted   |-> Branch("CriticalHigh", TRUE, "high"),
   CriticalHighAlarmDeasserted |-> Branch("CriticalHigh", FALSE, "low")]

CopiedBranch(m) == \* mutant: an event is left as it was in the branch copied
  IF m.name = "CriticalLowAlarmDeasserted" THEN Branch("WarningLow", FALSE, "high")
  ELSE AlarmBranch[m.name]
UnsetAssert(m) == \* mutant: the branch does not set assert
  IF m.name = "CriticalLowAlarmAsserted" THEN Branch("CriticalLow", FALSE, "low")
  ELSE AlarmBranch[m.name]
AlarmRecord(m) == AlarmBranch[m.name]

IgnoreAlarm == IsGarbage(Head(queue)) /\ Drop({})

(* GetAll of the sensor or Get of the threshold fails.                     *)
AlarmCallFails == ~IsGarbage(Head(queue)) /\ Drop({Head(queue).of})

LogAlarm ==
  /\ ~IsGarbage(Head(queue))
  /\ LET r == AlarmRecord(Head(queue))
         a == <<"alarm", Head(queue).of[2], r.event>>
     IN  AddRecord(a, r, {a})

HandleAlarm ==
  /\ Working("alarm")
  /\ IgnoreAlarm \/ AlarmCallFails \/ LogAlarm
  /\ UNCHANGED alarmVars

-----------------------------------------------------------------------------
(* Once the signals are handled, the last record of an alarm tells whether *)
(* it is on, and which way the reading went, through repeated signals and  *)
(* restarts of either side; unless a call failed, the SEL was full,        *)
(* cleared or lost the record to SELDelete, or nobody listened.  Unlike    *)
(* the threshold monitor, a restart of the daemon costs nothing that was   *)
(* already logged.                                                         *)
AlarmTold ==
  Settled =>
    \A a \in Alarms \ missed :
      /\ SaysAssert(a) <=> a \in alarmOn
      /\ a \in DOMAIN last =>
           (last[a].direction = Beyond[a[3]] <=> a \in alarmOn)

(* An alarm that stays on, and is not missed, is logged.                   *)
AlarmLogged ==
  \A a \in Alarms : <>[](a \in alarmOn \ missed) => <>[]SaysAssert(a)
=============================================================================
