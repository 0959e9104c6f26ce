------------------------------ MODULE Monitors ------------------------------
(***************************************************************************)
(* The daemon with the monitors its build has, over one event loop and one *)
(* SEL: main() from line 466 on.  They share more than the thread: a       *)
(* handler that lets an exception out ends the process for all of them,    *)
(* and with it the set of host errors and the signals that wait.           *)
(***************************************************************************)
EXTENDS AlarmMonitor, HostErrorMonitor, WatchdogMonitor, PulseMonitor

vars == <<loopVars, alarmVars, hostErrorVars, watchdogVars, pulseVars>>

TypeOK ==
  LoopTypeOK /\ AlarmTypeOK /\ HostErrorTypeOK /\ WatchdogTypeOK /\ PulseTypeOK

Init == LoopInit /\ AlarmInit /\ HostErrorInit /\ WatchdogInit /\ PulseInit

AlarmOf(A)    == A /\ UNCHANGED <<hostErrorVars, watchdogVars, pulseVars>>
HostErrorOf(A) == A /\ UNCHANGED <<alarmVars, watchdogVars, pulseVars>>
WatchdogOf(A) == A /\ UNCHANGED <<alarmVars, hostErrorVars, pulseVars>>
PulseOf(A)    == A /\ UNCHANGED <<alarmVars, hostErrorVars, watchdogVars>>
NoneOf(A)     == A /\ UNCHANGED <<alarmVars, hostErrorVars, watchdogVars, pulseVars>>

(* systemd restarts the daemon: its statics are new, the SEL is not.       *)
Restart ==
  /\ pc = "down"
  /\ pc' = "idle"
  /\ ForgetHostErrors /\ ForgetWatchdog
  /\ missed' = missed \cup hostErrorEvents
  /\ UNCHANGED <<build, queue, records, last>>
  /\ UNCHANGED <<alarmVars, hostErrors, timer, armed, due, pulseVars>>

Daemon ==
  \/ AlarmOf(HandleAlarm) \/ HostErrorOf(HandleHostError)
  \/ WatchdogOf(HandleWatchdog) \/ PulseOf(HandlePulse)
  \/ Restart

Environment ==
  \/ \E a \in Alarms : AlarmOf(ChangeAlarm(a) \/ RepeatAlarm(a))
  \/ \E i \in HostErrors : HostErrorOf(ChangeHostError(i) \/ RepeatHostError(i))
  \/ WatchdogOf((\E t \in Timers : SetTimer(t)) \/ Expire)
  \/ PulseOf(\E state \in HostStates, first \in BOOLEAN : ChangeHostState(state, first))
  \/ NoneOf(DeliverGarbage \/ Clear \/ AddOther \/ DeleteRecord \/ Kill)

Next == Daemon \/ Environment

Spec == Init /\ [][Next]_vars

(* The event loop takes the next message, each call returns or throws, and *)
(* systemd restarts the daemon.                                            *)
FairSpec == Spec /\ WF_vars(Daemon)
=============================================================================
