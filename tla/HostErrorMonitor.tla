-------------------------- MODULE HostErrorMonitor --------------------------
(***************************************************************************)
(* The host error monitor (include/host_error_event_monitor.hpp): changes  *)
(* of the property Asserted of two interfaces, ThermalTrip and IERR, reach *)
(* one handler through two matches.  Its set of asserted errors holds the  *)
(* path of an object, not the interface.                                   *)
(***************************************************************************)
EXTENDS EventLoop

CONSTANT HostErrors \* <<path, interface>>: the interfaces objects have

VARIABLES
  hostErrors,     \* the errors that are asserted
  hostErrorEvents \* the static set of the handler, as subjects

hostErrorVars == <<hostErrors, hostErrorEvents>>

Processor(i) == <<"host_error", i[1]>>
Processors   == {Processor(i) : i \in HostErrors}

HostErrorTypeOK ==
  /\ hostErrors \subseteq HostErrors
  /\ hostErrorEvents \subseteq Processors

HostErrorInit == hostErrors = {} /\ hostErrorEvents = {}

HostErrorSignal(i, assert) ==
  [monitor |-> "host_error", of |-> Processor(i), assert |-> assert]

ChangeHostError(i) ==
  /\ i \in build.errors
  /\ hostErrors' = IF i \in hostErrors THEN hostErrors \ {i} ELSE hostErrors \cup {i}
  /\ Deliver(HostErrorSignal(i, i \in hostErrors'))
  /\ missed' = Unheard(Processor(i))
  /\ UNCHANGED hostErrorEvents

(* PropertiesChanged tells a value anew, as after a restart of its sender. *)
RepeatHostError(i) ==
  /\ i \in build.errors
  /\ pc # "down"
  /\ Deliver(HostErrorSignal(i, i \in hostErrors))
  /\ UNCHANGED <<hostErrorVars, missed>>

-----------------------------------------------------------------------------
(* hostErrorEventMonitor                                                   *)

AnyDeassert(m) == \* mutant: the result of erase is not looked at
  ~IsGarbage(m) /\ (m.assert => m.of \notin hostErrorEvents)
IsNewError(m) ==
  ~IsGarbage(m) /\ (m.assert <=> m.of \notin hostErrorEvents)

NeverErase(m) == \* mutant: a deassert leaves the path in the set
  IF m.assert THEN hostErrorEvents \cup {m.of} ELSE hostErrorEvents
TrackError(m) ==
  IF m.assert THEN hostErrorEvents \cup {m.of} ELSE hostErrorEvents \ {m.of}

ErrorRecord(m) == [assert |-> m.assert]

IgnoreHostError ==
  /\ ~IsNewError(Head(queue))
  /\ Drop({})
  /\ UNCHANGED hostErrorEvents

LogHostError ==
  LET m == Head(queue) IN
    /\ IsNewError(m)
    /\ hostErrorEvents' = TrackError(m)
    /\ AddRecord(m.of, ErrorRecord(m), {m.of})

HandleHostError ==
  /\ Working("host_error")
  /\ IgnoreHostError \/ LogHostError
  /\ UNCHANGED hostErrors

(* A new process starts with an empty set.                                 *)
ForgetHostErrors == hostErrorEvents' = {}

-----------------------------------------------------------------------------
HasError(s) == \E i \in hostErrors : Processor(i) = s

(* Two interfaces of one object share an entry of the set, so while one    *)
(* error lasts the SEL may say that it has gone.                           *)
Shared(s) ==
  \E i, j \in HostErrors : i # j /\ Processor(i) = s /\ Processor(j) = s

(* Once the signals are handled, the last record of an object is no assert *)
(* when all its errors have gone; and it tells whether there is an error   *)
(* when the object has one interface.  Up to a full or cleared SEL and the *)
(* death of the daemon, by the watchdog monitor's doing for example.       *)
HostErrorTold ==
  Settled =>
    \A s \in Processors \ missed :
      /\ SaysAssert(s) => HasError(s)
      /\ HasError(s) /\ ~Shared(s) => SaysAssert(s)

(* Asserts and deasserts of an object alternate in the SEL.                *)
HostErrorAlternates ==
  [][\A s \in Processors \ missed :
       Records(s) => last'[s].assert # SaysAssert(s)]_<<loopVars, hostErrorVars>>
=============================================================================
