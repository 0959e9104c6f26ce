------------------------------ MODULE EventLoop ------------------------------
(***************************************************************************)
(* What the event monitors of the daemon share: its one thread, which      *)
(* takes the signals that match in the order of the bus and runs each      *)
(* handler to its end; selAddSystemRecord; and the end of the process when *)
(* a handler lets an exception out.  The monitors conjoin these fragments  *)
(* to their own actions, Monitors puts them together.                      *)
(*                                                                         *)
(* Of the SEL only its size is kept and the last record of each subject:   *)
(* what somebody who reads it takes for the subject's state.  Other        *)
(* clients of the daemon write to the SEL and delete from it too.          *)
(***************************************************************************)
EXTENDS Integers, SequencesExt

CONSTANTS
  Builds,      \* [monitors, service, delete, errors, timers]: the meson options,
               \* service for SEL_LOGGER_SEND_TO_LOGGING_SERVICE and delete for
               \* SEL_LOGGER_ENABLE_SEL_DELETE, and what the host has
  SelCapacity, \* records the SEL has room for
  MaxQueue     \* bound on the signals that wait, the one in work included

ASSUME BoundAssumption == {SelCapacity, MaxQueue} \subseteq Nat

VARIABLES
  build,   \* the build that runs
  pc,      \* what the daemon does next
  queue,   \* signals it has not finished; it works on the first
  records, \* the number of records in the SEL
  last,    \* last[s]: the last record about the subject s, if there is one
  missed   \* history: subjects whose last record may not tell their state

loopVars == <<build, pc, queue, records, last, missed>>

LoopTypeOK ==
  /\ build \in Builds
  /\ pc \in {"down", "idle", "execute"}
  /\ Len(queue) <= MaxQueue
  /\ \A i \in DOMAIN queue : queue[i].monitor \in build.monitors
  /\ records \in 0 .. SelCapacity
  /\ pc = "execute" => queue # <<>>
  /\ pc = "down" => queue = <<>>

LoopInit ==
  /\ build \in Builds
  /\ pc = "down" /\ queue = <<>>
  /\ records = 0 /\ last = <<>> /\ missed = {}

(* A signal whose arguments do not read, or that says nothing of use.      *)
Garbage(monitor) == [monitor |-> monitor, of |-> <<>>]

IsGarbage(m) == m.of = <<>>

-----------------------------------------------------------------------------
(* The other end of the bus.  Signals to a daemon that is down are lost.   *)

Deliver(m) ==
  /\ m.monitor \in build.monitors
  /\ pc = "down" \/ Len(queue) < MaxQueue
  /\ queue' = IF pc = "down" THEN queue ELSE Append(queue, m)
  /\ UNCHANGED <<build, pc, records, last>>

Unheard(s) == IF pc = "down" THEN missed \cup {s} ELSE missed

DeliverGarbage ==
  /\ pc # "down"
  /\ \E monitor \in build.monitors : Deliver(Garbage(monitor))
  /\ UNCHANGED missed

-----------------------------------------------------------------------------
(* The thread.                                                             *)

Working(monitor) == pc = "idle" /\ queue # <<>> /\ Head(queue).monitor = monitor

Return == pc' = "idle" /\ queue' = Tail(queue)

(* The handler ends without a record; lost are the subjects it should have *)
(* told about.                                                             *)
Drop(lost) ==
  /\ missed' = missed \cup lost
  /\ Return /\ UNCHANGED <<build, records, last>>

(* An exception leaves the handler: the process ends, the signals that     *)
(* wait are gone.                                                          *)
Die ==
  /\ pc' = "down" /\ queue' = <<>>
  /\ missed' = missed \cup {queue[i].of : i \in DOMAIN queue}
  /\ UNCHANGED <<build, records, last>>

(* Somebody kills the process, at work or not.                             *)
Kill == pc # "down" /\ Die

Tell(s, r) == last' = [t \in DOMAIN last \cup {s} |-> IF t = s THEN r ELSE last[t]]

HasRoomOff == records <= SelCapacity \* mutant: <= for <
HasRoom == records < SelCapacity

(* selAddSystemRecord, with a SEL: a record if there is an id left.        *)
AddToSel(s, r, told) ==
  /\ ~build.service /\ HasRoom
  /\ records' = records + 1
  /\ Tell(s, r) /\ missed' = missed \ told
  /\ Return /\ UNCHANGED build

SelFull(s) == ~build.service /\ ~HasRoom /\ Drop({s})

(* With the logging service: a call, which may throw.                      *)
CallService(s, r, told) ==
  /\ build.service
  /\ Tell(s, r) /\ missed' = missed \ told
  /\ Return /\ UNCHANGED <<build, records>>

ServiceThrows == build.service /\ Die

(* Write the record r about s.  After it the log tells the state of told.  *)
AddRecord(s, r, told) ==
  AddToSel(s, r, told) \/ SelFull(s) \/ CallService(s, r, told) \/ ServiceThrows

-----------------------------------------------------------------------------
(* The methods the daemon has for other clients, one thread for all, in a  *)
(* build that keeps a SEL.                                                 *)

(* What the pulse monitor wrote is in the journal, not in the SEL.         *)
InSel == {s \in DOMAIN last : s[1] # "pulse"}

Forget(S) == last' = [s \in DOMAIN last \ S |-> last[s]]

(* Clear.                                                                  *)
Clear ==
  /\ pc = "idle" /\ ~build.service
  /\ records' = 0
  /\ Forget(InSel)
  /\ missed' = missed \cup {s \in InSel : last[s].assert}
  /\ UNCHANGED <<build, pc, queue>>

(* IpmiSelAdd and IpmiSelAddOem: a record about none of the subjects.      *)
AddOther ==
  /\ pc = "idle" /\ ~build.service /\ HasRoom
  /\ records' = records + 1
  /\ UNCHANGED <<build, pc, queue, last, missed>>

(* SELDelete: the id is free again.  If the record was the last about its  *)
(* subject, an older one, if there is any, now passes for it.              *)
DeleteRecord ==
  /\ pc = "idle" /\ ~build.service /\ build.delete /\ records > 0
  /\ records' = records - 1
  /\ \/ Cardinality(InSel) < records /\ UNCHANGED <<last, missed>>
     \/ \E s \in InSel : Forget({s}) /\ missed' = missed \cup {s}
  /\ UNCHANGED <<build, pc, queue>>

Settled == pc = "idle" /\ queue = <<>>

SaysAssert(s) == s \in DOMAIN last /\ last[s].assert

(* This step is the end of a handler that writes a record about s.         *)
Records(s) ==
  records' > records /\ queue # <<>> /\ queue' = Tail(queue) /\ Head(queue).of = s
=============================================================================
