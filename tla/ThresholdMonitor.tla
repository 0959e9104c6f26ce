-------------------------- MODULE ThresholdMonitor --------------------------
(***************************************************************************)
(* The threshold event monitor (include/threshold_event_monitor.hpp):      *)
(* ThresholdAsserted signals of the sensor daemons become records of the   *)
(* SEL.  The handler keeps the set of asserted events to drop repeated     *)
(* signals, and calls the sensor daemon back twice before it writes the    *)
(* record; either call may fail, the sensors and the SEL go on meanwhile.  *)
(*                                                                         *)
(* The values in a record are left out, and so is their scaling, whose     *)
(* failure only leaves a byte of the record unspecified.                   *)
(***************************************************************************)
EXTENDS Integers, SequencesExt

CONSTANTS
  Paths, Events, \* sensors and their alarms ("CriticalAlarmLow", ...)
  SelCapacity,   \* records the SEL has room for
  MaxQueue,      \* bound on signals on the bus
  Allowed        \* which of "crash", "clear", "add" and "delete" may happen

ASSUME BoundAssumption == {SelCapacity, MaxQueue} \subseteq Nat

Keys   == Paths \X Events
Signal == [path : Paths, event : Events, assert : BOOLEAN]

Garbage == <<>> \* a ThresholdAsserted signal whose arguments do not read

VARIABLES
  condition,      \* condition[k]: the sensor is beyond the threshold k
  queue,          \* signals on their way to the daemon
  assertedEvents, \* the static set of the handler
  pc,             \* what the daemon does next
  msg,            \* the signal being handled
  sel,            \* the records written since the last Clear
  others,         \* the number of records other clients have in the SEL
  missed          \* history: keys the SEL says nothing, or something old, about

log  == <<sel, others, missed>>
vars == <<condition, queue, assertedEvents, pc, msg, log>>

TypeOK ==
  /\ condition \in [Keys -> BOOLEAN]
  /\ queue \in Seq(Signal \cup {Garbage})
  /\ Len(queue) <= MaxQueue
  /\ assertedEvents \subseteq Keys
  /\ pc \in {"down", "idle", "getAll", "get"}
  /\ msg \in Signal \cup {Garbage}
  /\ pc \in {"getAll", "get"} => msg \in Signal
  /\ sel \in Seq(Signal)
  /\ others \in Nat
  /\ Len(sel) + others <= SelCapacity
  /\ missed \subseteq Keys

Init ==
  /\ condition = [k \in Keys |-> FALSE] /\ queue = <<>>
  /\ assertedEvents = {} /\ pc = "down" /\ msg = Garbage
  /\ sel = <<>> /\ others = 0 /\ missed = {}

Key(s) == <<s.path, s.event>>

-----------------------------------------------------------------------------
(* The sensor daemons.  A signal reaches the daemon if it runs, in order.  *)

Emit(s) ==
  IF pc = "down" THEN UNCHANGED queue
  ELSE Len(queue) < MaxQueue /\ queue' = Append(queue, s)

Cross(p, e) ==
  /\ condition' = [condition EXCEPT ![<<p, e>>] = ~@]
  /\ Emit([path |-> p, event |-> e, assert |-> condition'[<<p, e>>]])
  /\ missed' = IF pc = "down" THEN missed \cup {<<p, e>>} ELSE missed
  /\ UNCHANGED <<assertedEvents, pc, msg, sel, others>>

(* A sensor daemon that restarts finds its alarms anew.                    *)
Repeat(p, e) ==
  /\ Emit([path |-> p, event |-> e, assert |-> condition[<<p, e>>]])
  /\ UNCHANGED <<condition, assertedEvents, pc, msg, log>>

(* The match names a member only: other interfaces may use it too.         *)
EmitGarbage ==
  /\ pc # "down"
  /\ Emit(Garbage)
  /\ UNCHANGED <<condition, assertedEvents, pc, msg, log>>

-----------------------------------------------------------------------------
(* The handler.                                                            *)

PathOnly(s) == {<<s.path, e>> : e \in Events} \* mutant: keyed by path alone
PathAndEvent(s) == {Key(s)}

InsertOnly(s) == \* mutant: a deassert does not erase the event
  IF s.assert THEN assertedEvents \cup PathAndEvent(s) ELSE assertedEvents
Track(s) ==
  IF s.assert THEN assertedEvents \cup PathAndEvent(s)
              ELSE assertedEvents \ PathAndEvent(s)

AnyAssert(s) == s.assert \/ PathAndEvent(s) \subseteq assertedEvents \* mutant
IsNew(s) == s.assert # (PathAndEvent(s) \subseteq assertedEvents)

Ignore ==
  /\ pc = "idle" /\ queue # <<>>
  /\ Head(queue) # Garbage => ~IsNew(Head(queue))
  /\ queue' = Tail(queue)
  /\ UNCHANGED <<condition, assertedEvents, pc, msg, log>>

Accept ==
  /\ pc = "idle" /\ queue # <<>>
  /\ Head(queue) # Garbage /\ IsNew(Head(queue))
  /\ msg' = Head(queue)
  /\ queue' = Tail(queue)
  /\ assertedEvents' = Track(msg')
  /\ pc' = "getAll"
  /\ UNCHANGED <<condition, log>>

GetSensorValue ==
  /\ pc = "getAll"
  /\ pc' = "get"
  /\ UNCHANGED <<condition, queue, assertedEvents, msg, log>>

Return ==
  /\ msg' = Garbage
  /\ pc' = "idle"
  /\ UNCHANGED <<condition, queue, assertedEvents, others>>

(* Either call fails: the record is not written.                           *)
GetFails ==
  /\ pc \in {"getAll", "get"}
  /\ missed' = missed \cup {Key(msg)}
  /\ UNCHANGED sel
  /\ Return

HasRoomOff == Len(sel) + others <= SelCapacity \* mutant: <= for <
HasRoom == Len(sel) + others < SelCapacity

(* The threshold is known: selAddSystemRecord.                             *)
Log ==
  /\ pc = "get" /\ HasRoom
  /\ sel' = Append(sel, msg)
  /\ missed' = missed \ {Key(msg)}
  /\ Return

LogFull ==
  /\ pc = "get" /\ ~HasRoom
  /\ missed' = missed \cup {Key(msg)}
  /\ UNCHANGED sel
  /\ Return

-----------------------------------------------------------------------------
(* What other clients ask for is handled by the same thread; the monitor   *)
(* is not told.                                                            *)
Clear ==
  /\ pc = "idle" /\ "clear" \in Allowed
  /\ sel' = <<>> /\ others' = 0
  /\ missed' = missed \cup assertedEvents
  /\ UNCHANGED <<condition, queue, assertedEvents, pc, msg>>

(* IpmiSelAdd and IpmiSelAddOem.                                           *)
AddOther ==
  /\ pc = "idle" /\ "add" \in Allowed /\ HasRoom
  /\ others' = others + 1
  /\ UNCHANGED <<condition, queue, assertedEvents, pc, msg, sel, missed>>

(* SELDelete, in builds that have it: the id is free again.                *)
DeleteOther ==
  /\ pc = "idle" /\ "delete" \in Allowed /\ others > 0
  /\ others' = others - 1
  /\ UNCHANGED <<condition, queue, assertedEvents, pc, msg, sel, missed>>

IsNewest(i) == \A j \in DOMAIN sel : Key(sel[j]) = Key(sel[i]) => j <= i

(* The last record of a key is gone: what is left may tell the opposite.   *)
DeleteRecord(i) ==
  /\ pc = "idle" /\ "delete" \in Allowed
  /\ sel' = RemoveAt(sel, i)
  /\ missed' = IF IsNewest(i) THEN missed \cup {Key(sel[i])} ELSE missed
  /\ UNCHANGED <<condition, queue, assertedEvents, pc, msg, others>>

(* The set of asserted events and the signals on the bus are gone, the SEL *)
(* is not.                                                                 *)
Crash ==
  /\ pc # "down" /\ "crash" \in Allowed
  /\ pc' = "down"
  /\ missed' = UNION {missed, assertedEvents,
                      {Key(s) : s \in (ToSet(queue) \cup {msg}) \ {Garbage}}}
  /\ queue' = <<>> /\ assertedEvents' = {} /\ msg' = Garbage
  /\ UNCHANGED <<condition, sel, others>>

Start ==
  /\ pc = "down"
  /\ pc' = "idle"
  /\ UNCHANGED <<condition, queue, assertedEvents, msg, log>>

-----------------------------------------------------------------------------
Handler == Ignore \/ Accept \/ GetSensorValue \/ GetFails \/ Log \/ LogFull \/ Start

Sensors == (\E p \in Paths, e \in Events : Cross(p, e) \/ Repeat(p, e)) \/ EmitGarbage

Clients == Clear \/ AddOther \/ DeleteOther \/ \E i \in DOMAIN sel : DeleteRecord(i)

Next == Handler \/ Sensors \/ Clients \/ Crash

Spec == Init /\ [][Next]_vars

(* The event loop takes the next message, and each call returns or fails.  *)
FairSpec == Spec /\ WF_vars(Handler)

-----------------------------------------------------------------------------
(* What the SEL says about k: its last record, or FALSE if it has none.    *)
LastRecord(k) ==
  \E i \in DOMAIN sel :
    /\ Key(sel[i]) = k /\ sel[i].assert
    /\ \A j \in DOMAIN sel : Key(sel[j]) = k => j <= i

(* A record of k says the opposite of the one before: "to avoid duplicate  *)
(* logs or deasserts logged without an assert" (lines 44-45).  This much of*)
(* it holds: whenever nothing about k was lost since its last record.      *)
Alternates ==
  [][\A k \in Keys :
       (k \notin missed /\ Len(sel') > Len(sel) /\ Key(Last(sel')) = k)
         => Last(sel').assert # LastRecord(k)]_vars

(* Once the daemon has seen to all signals, the SEL tells the state of each*)
(* threshold, unless a call back to the sensor failed, the SEL was full or *)
(* cleared or lost the record to SELDelete, or the daemon was down when it *)
(* mattered.                                                               *)
SelTellsCondition ==
  pc = "idle" /\ queue = <<>> =>
    \A k \in Keys \ missed : LastRecord(k) = condition[k]

(* An alarm that stays, and is not lost in one of those ways, is logged.   *)
AlarmLogged ==
  \A k \in Keys :
    <>[](condition[k] /\ k \notin missed) => <>[](LastRecord(k))

(* The whole of the comment on lines 44-45: no deassert is logged unless   *)
(* the assert it ends was.                                                 *)
NoDeassertAlone ==
  \A i \in DOMAIN sel :
    ~sel[i].assert =>
      \E j \in 1 .. i - 1 :
        /\ Key(sel[j]) = Key(sel[i]) /\ sel[j].assert
        /\ \A h \in j + 1 .. i - 1 : Key(sel[h]) # Key(sel[i])

(* And its other half, "to avoid duplicate logs": no event is logged twice *)
(* the same way with nothing in between.                                   *)
NoDuplicateLogs ==
  \A i, j \in DOMAIN sel :
    i < j /\ sel[i] = sel[j] =>
      \E h \in i + 1 .. j - 1 :
        Key(sel[h]) = Key(sel[i]) /\ sel[h].assert # sel[i].assert
=============================================================================
