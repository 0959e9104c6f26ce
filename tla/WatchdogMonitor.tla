--------------------------- MODULE WatchdogMonitor ---------------------------
(***************************************************************************)
(* The watchdog monitor (include/watchdog_event_monitor.hpp): a Timeout    *)
(* signal of the watchdog daemon becomes a record.  The handler asks the   *)
(* watchdog daemon what the timer was for, and the IPMI host daemon        *)
(* whether the timer was set not to log; the host may set the timer again  *)
(* before either answers.  The second call is not caught.                  *)
(***************************************************************************)
EXTENDS EventLoop

CONSTANT Timers \* what the host may set

ASSUME TimerAssumption ==
  /\ Timers # {}
  /\ Timers \subseteq
       [use : STRING, action : STRING, interrupt : STRING, nolog : BOOLEAN]

VARIABLES
  timer,     \* the timer as it was last set
  armed,     \* it runs
  use,       \* local: eventData[1], from the answer of the watchdog daemon
  wdt_nolog, \* the static flag of the handler
  due        \* history: the timer the last record should tell of

watchdogVars == <<timer, armed, use, wdt_nolog, due>>

Watchdog == <<"watchdog">>

Byte == 0 .. 255

WatchdogTypeOK ==
  /\ timer \in Timers /\ due \in Timers \cup {<<>>}
  /\ armed \in BOOLEAN /\ wdt_nolog \in BOOLEAN
  /\ use \in Byte

WatchdogInit ==
  /\ timer = (CHOOSE t \in Timers : TRUE) /\ armed = FALSE
  /\ use = 255 /\ wdt_nolog = FALSE /\ due = <<>>

Pending == \E i \in DOMAIN queue : queue[i].of = Watchdog

(* The host sets and starts the timer.  If the daemon is still at work on  *)
(* a timeout it may read the new settings.                                 *)
SetTimer(t) ==
  /\ t \in build.timers
  /\ timer' = t /\ armed' = TRUE
  /\ missed' = IF Pending THEN missed \cup {Watchdog} ELSE missed
  /\ UNCHANGED <<build, pc, queue, records, last, use, wdt_nolog, due>>

Expire ==
  /\ armed /\ armed' = FALSE
  /\ Deliver([monitor |-> "watchdog", of |-> Watchdog, action |-> timer.action])
  /\ due' = IF timer.nolog THEN due ELSE timer
  /\ missed' = IF timer.nolog \/ Pending THEN missed
               ELSE IF pc = "down" THEN missed \cup {Watchdog}
               ELSE missed \ {Watchdog}
  /\ UNCHANGED <<timer, use, wdt_nolog>>

-----------------------------------------------------------------------------
(* sendWatchdogEventLog                                                    *)

ActionCode == [None |-> 0, HardReset |-> 1, PowerOff |-> 2, PowerCycle |-> 3]
UseCode    == [BIOSFRB2 |-> 1, BIOSPOST |-> 2, OSLoad |-> 3, SMSOS |-> 4, OEM |-> 5]
Interrupt  == [None |-> 0, SMI |-> 1, NMI |-> 2, MI |-> 3]

Code(table, name, other) == IF name \in DOMAIN table THEN table[name] ELSE other

(* An interrupt with no name leaves 0xFF, and the timer use, or-ed in, is  *)
(* lost with it.                                                           *)
EventData1(t) ==
  IF t.interrupt \in DOMAIN Interrupt
  THEN 16 * Interrupt[t.interrupt] + Code(UseCode, t.use, 15)
  ELSE 255

(* The action does not unpack: that exception is not caught either.        *)
WatchdogBadSignal ==
  /\ Working("watchdog") /\ IsGarbage(Head(queue))
  /\ Die
  /\ UNCHANGED watchdogVars

WatchdogGetAll ==
  /\ Working("watchdog") /\ ~IsGarbage(Head(queue))
  /\ use' = EventData1(timer)
  /\ pc' = "execute"
  /\ UNCHANGED <<build, queue, records, last, missed>>
  /\ UNCHANGED <<timer, armed, wdt_nolog, due>>

WatchdogGetAllFails ==
  /\ Working("watchdog") /\ ~IsGarbage(Head(queue))
  /\ Drop({Watchdog})
  /\ UNCHANGED watchdogVars

(* The call to the IPMI host throws, or its answer has no data, of which   *)
(* the code reads the first byte.                                          *)
ExecuteThrows ==
  /\ pc = "execute"
  /\ Die
  /\ UNCHANGED watchdogVars

KeepNolog == wdt_nolog \* mutant: the flag of an earlier timer
NologBit == timer.nolog

WatchdogRecord(m) ==
  [assert |-> TRUE, data0 |-> Code(ActionCode, m.action, 255), data1 |-> use]

Execute ==
  /\ pc = "execute"
  /\ wdt_nolog' = NologBit
  /\ IF NologBit THEN Drop({})
     ELSE AddRecord(Watchdog, WatchdogRecord(Head(queue)), {})
  /\ UNCHANGED <<timer, armed, use, due>>

ForgetWatchdog == wdt_nolog' = FALSE /\ use' = 255

HandleWatchdog ==
  \/ WatchdogBadSignal \/ WatchdogGetAll \/ WatchdogGetAllFails
  \/ ExecuteThrows \/ Execute

-----------------------------------------------------------------------------
(* Once the timeouts are handled, the last record about the watchdog tells *)
(* action and use of the last timer that ran out and was set to log (line  *)
(* 222: "Set Watchdog Timer byte1[7]-1b=don't log"); unless it was set     *)
(* again before the daemon was done, a call failed, the SEL was full or    *)
(* cleared, or the daemon was down.                                        *)
WatchdogTold ==
  Settled /\ Watchdog \notin missed =>
    IF due = <<>> THEN Watchdog \notin DOMAIN last
    ELSE /\ Watchdog \in DOMAIN last
         /\ due.action \in DOMAIN ActionCode => last[Watchdog].data0 = ActionCode[due.action]
         /\ due.interrupt \in DOMAIN Interrupt =>
              /\ last[Watchdog].data1 \div 16 = Interrupt[due.interrupt]
              /\ last[Watchdog].data1 % 16 = Code(UseCode, due.use, 15)
=============================================================================
