---------------------------- MODULE PulseMonitor ----------------------------
(***************************************************************************)
(* The pulse monitor (include/pulse_event_monitor.hpp): changes of         *)
(* CurrentHostState to Off and Running become journal entries.  A signal   *)
(* names all properties that changed; the handler looks at the first, in   *)
(* the order of their names.                                               *)
(***************************************************************************)
EXTENDS EventLoop

VARIABLES
  hostState, \* the state of the host
  power      \* history: the last of Off and Running it was in

pulseVars == <<hostState, power>>

Pulse == <<"pulse">>

HostStates  == {"Off", "Running", "Quiesced"} \* the last for all the others
PowerStates == {"Off", "Running"}

PulseTypeOK == hostState \in HostStates /\ power \in PowerStates \cup {"none"}

PulseInit == hostState = "Off" /\ power = "none"

(* first: no property with a name before CurrentHostState changed with it. *)
ChangeHostState(state, first) ==
  /\ hostState' = state
  /\ Deliver([monitor |-> "pulse", of |-> Pulse, state |-> state, first |-> first])
  /\ power' = IF state \in PowerStates THEN state ELSE power
  /\ missed' = IF state \in PowerStates THEN Unheard(Pulse) ELSE missed

-----------------------------------------------------------------------------
(* pulseEventMatcherCallback                                               *)

PulseBadSignal == IsGarbage(Head(queue)) /\ Die

NamesOff(m) == m.first /\ m.state = "Off" \* mutant: one branch is missing
Names(m) == m.first /\ m.state \in PowerStates

IgnorePulse ==
  LET m == Head(queue) IN
    /\ ~IsGarbage(m) /\ ~Names(m)
    /\ Drop(IF ~m.first /\ m.state \in PowerStates THEN {Pulse} ELSE {})

(* To the journal, without an id; or a call that may throw.                *)
LogPulse ==
  LET m == Head(queue) IN
    /\ ~IsGarbage(m) /\ Names(m)
    /\ \/ /\ Tell(Pulse, [assert |-> FALSE, state |-> m.state])
          /\ missed' = missed \ {Pulse}
          /\ Return /\ UNCHANGED <<build, records>>
       \/ ServiceThrows

HandlePulse ==
  /\ Working("pulse")
  /\ PulseBadSignal \/ IgnorePulse \/ LogPulse
  /\ UNCHANGED pulseVars

-----------------------------------------------------------------------------
(* Once the signals are handled, the last entry tells the last of Off and  *)
(* Running the host went to, unless a property with an earlier name hid it,*)
(* or the daemon died or was down.                                         *)
PowerTold ==
  Settled /\ Pulse \notin missed =>
    IF power = "none" THEN Pulse \notin DOMAIN last
    ELSE Pulse \in DOMAIN last /\ last[Pulse].state = power
=============================================================================
