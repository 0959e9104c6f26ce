# A TLA+ model of phosphor-sel-logger

`sel-logger` keeps the IPMI System Event Log (SEL) of a BMC. Other daemons and
IPMI commands add records over D-Bus, match handlers ("monitors") turn sensor
and host signals into records, and every record gets a two byte record id. The
program is small, but it shares its files with rsyslog and logrotate, restarts
whenever it dies, and blocks inside its handlers on calls to other daemons.
That is what the modules here describe and check.

## The system

| Component | Source | State | Operations |
|---|---|---|---|
| SEL with deletion (`SEL_LOGGER_ENABLE_SEL_DELETE`) | `src/sel_logger.cpp` 106-274 | `nextRecordsCache`, `/var/log/next_records`, the log files | `initializeRecordId`, `getNewRecordId`, `clearSelLogFiles`, `selDeleteRecord` |
| SEL of the default build | `src/sel_logger.cpp` 276-349 | `recordId`, the log files | `initializeRecordId`, `getNewRecordId`, `clearSelLogFiles` |
| Adding a record | `include/sel_logger.hpp` 68-136, `src/sel_logger.cpp` 364-416 | none | `selAddSystemRecord`, `selAddOemRecord` |
| Journal, rsyslog, logrotate | `rsyslog/phosphor-sel-logger.conf` | journal, `/var/log/ipmi_sel*`, rsyslog's open file | append, rotate, reload |
| Threshold monitor | `include/threshold_event_monitor.hpp` | `assertedEvents` | handler of `ThresholdAsserted` |
| Threshold alarm monitor | `include/threshold_alarm_event_monitor.hpp` | none | `generateEvent`, eight matches |
| Host error monitor | `include/host_error_event_monitor.hpp` | `hostErrorEvents` | two matches, one handler |
| Watchdog monitor | `include/watchdog_event_monitor.hpp` | `wdt_nolog` | handler of `Timeout` |
| Pulse monitor | `include/pulse_event_monitor.hpp` | none | handler of `PropertiesChanged` |
| Scaling of readings | `include/sensorutils.hpp` | none | pure functions |
| Logging service variant | `#ifdef SEL_LOGGER_SEND_TO_LOGGING_SERVICE` | none | one call per record |
| Modification times | `saveClearSelTimestamp`, line 271 | `sel_erase_time`, time of `ipmi_sel` | touch, restore |

How they interact: everything in the daemon runs in one thread, so handlers
exclude each other. The daemon hands a record to the journal; rsyslog reads the
journal in order and appends a line to `/var/log/ipmi_sel`; logrotate renames
the files; Clear and SELDelete remove or rewrite the same files and ask systemd
to reload rsyslog. None of these wait for one another. systemd restarts the
daemon whenever it ends (`Restart=always`). The monitors call the sensor daemon
back while they handle its signal, and those calls may fail.

What is hard: the steps of rsyslog and logrotate between two system calls of a
handler; a crash between truncating and writing a file; records in flight
during Clear or a restart; a pool of free ids that must stay right through long
mixes of Add, SELDelete and Clear; and a set of asserted events updated before
the handler knows whether it will write a record. `PROJECT.json` lists each
hazard at its line.

What makes each component correct:

* the SEL: no id on two records, an Add refused only when every id is held, ids
  ascending in the default build, nothing lost by a restart between two
  requests, every request answered;
* the log files: SELDelete removes the target and nothing else, a record sent
  after a Clear is written to a file that has a name;
* the threshold monitor: asserts and deasserts of an event alternate, and the
  last record of an event tells the sensor's condition;
* the alarm monitor: the last record of an alarm tells whether it is on;
* the host error monitor: asserts and deasserts of an object alternate, and the
  last record is no assert when all its errors have gone;
* the watchdog monitor: the last record tells action and use of the last timer
  that ran out and was set to log;
* the pulse monitor: the last entry tells the last of Off and Running;
* scaling: the loops end with the largest base, the byte of a reading is the
  nearest one, and the limits of a sensor come out at the ends of the byte.

## Modules

| Module | What it is |
|---|---|
| `RecordIdPool` | abstract specification: ids held and not held, `Issue`, `Refuse`, `Release`, `Clear` |
| `SelLogFiles` | journal, log files, rsyslog, logrotate, and the steps of `Clear` both builds share; fragments the two daemons conjoin |
| `SelDelete` | the daemon built with SELDelete; implements `RecordIdPool` |
| `SelCounter` | the daemon of the default build |
| `ThresholdMonitor` | sensors, bus, handler of `ThresholdAsserted`, and the SEL as that handler sees it |
| `EventLoop` | what the other monitors share: bus, thread, `selAddSystemRecord`, the end of the process |
| `AlarmMonitor`, `HostErrorMonitor`, `WatchdogMonitor`, `PulseMonitor` | their environments, their handlers, what their records should tell |
| `Monitors` | the daemon with the monitors its build has |
| `SensorScaling` | `getSensorAttributes` and `scaleIPMIValueFromDouble` |
| `MC...` | the modules TLC runs on |
| `SelLogFilesProofs` | lemmas about the log files: where records can be after each step of rsyslog, logrotate and Clear |
| `SelDeleteProofs`, `SelCounterProofs` | theorems about the two daemons and their proofs |
| `QueueProofs` | lemmas about a queue of messages: what the last one of a kind says |
| `ThresholdProofs`, `MonitorsProofs` | theorems about the monitors and their proofs |
| `ScalingProofs` | theorems about `SensorScaling` and their proofs |

**State.** A record is its id and the position `n` at which it was sent; its
text, type and data take no part in any property. A log file is the set of its
records: rsyslog appends in journal order and nothing reorders lines, so `n`
gives the order. Slot 0 is `ipmi_sel`, slot `s` is `ipmi_sel.s`; `getSELLogFiles`
sorts names, which orders slots as long as there are at most ten (the code says
the same on lines 80-82). `rsyslogFile` is the file rsyslog has open: a slot,
`Closed`, or `Orphan` after Clear has removed it.

**Actions.** A handler is cut where another process can tell the difference: at
each open, truncation, removal and D-Bus call. `pc` says where the daemon is.
An `ofstream` truncates when it is opened and writes when it is closed, which
makes two steps of each rewrite of `next_records` and of a log file; the
append in `selDeleteRecord` is one step. SELDelete is `DeleteBegin` (read the
time of `ipmi_sel`), `DeleteList` (list the files; logrotate may have come
first), one `DeleteScanMiss` per file without the target, `DeleteScanHit` (copy
the others to `temp`), `DeleteTruncate`, `DeleteRewrite` (an appended line
survives only where the copy does not cover it), and `DeleteFree` (back on the
stack and in the backup). When logrotate renames a file between them, the step
by name (`DeleteTruncate`) meets the younger file, the step through an open
stream (`DeleteRewrite`) follows the old one. `Send` may do nothing:
`sd_journal_send`'s result is not looked at. `AddToEmptyCache` is `back()` of a
vector that never held anything, which dereferences a null pointer: the process ends.

**The monitors.** `EventLoop` has the queue of signals, the step of
`selAddSystemRecord` (`AddToSel`, `SelFull`; `CallService`, `ServiceThrows` in
builds that send to the logging service) and `Die`, an exception that leaves a
handler: sdbusplus passes it on to `io.run`, which ends the process. `Kill` ends
it at any other time, in builds without such a handler too. `Restart`
empties the statics and keeps the SEL. Each monitor conjoins these to its own
actions, `Monitors` disjoins the monitors. A handler that only waits is one
step: nothing it read before the wait can change, and the signals that arrive
meanwhile are in the queue as well after it. So the two calls of the alarm
monitor are one step that may fail (`AlarmCallFails`); the watchdog handler has
two, because the host may set the timer between the timeout, `GetAll`
(`WatchdogGetAll`) and Get Watchdog Timer (`Execute`). Of the SEL `last` keeps
the last record of each subject, and `records` the number of all. `build` says which
monitors, objects and timers there are, whether records go to the logging
service, and whether there is SELDelete.

The SEL is not the monitors' alone: `AddOther` is a record of another IPMI
client, which is about no event or subject but takes up room; `DeleteRecord` (and
`DeleteOther`) is SELDelete of any record. In `ThresholdMonitor` the SEL is the
sequence of the monitor's records and the number of the `others`. When the last
record about a subject is deleted, an older one passes for it, and the subject
is in `missed`. A client that added a record made to look like a monitor's own is
left out.

What an alarm record says comes from the name of the signal. `AlarmBranch` is the
code's table of the eight names; `OnName`, `OffName` and `Beyond` are what the
sensor daemons mean by them, stated on their own.

The watchdog handler's branch for a deassert is left out: its only
caller asserts. The set of host errors holds object paths, as in the code, so an
object with both interfaces shares one entry (`Shared`).

**Scaling.** A double is the exact number `n/255 * 10^e`, and every turn of a
loop is a step. The attributes agree with those of IEEE doubles wherever both
were computed side by side, the bytes too except for readings exactly between
two of them, where the last bit of a double decides. `IntegerTracksDouble` and
`BaseIsLargest` are promises of comments in the code (lines 60-61, 152-153). The
promise that `min` maps to 0 and `max` to 255 (lines 197-198) holds only nearly
(`scaling_ends.cfg` violates its first half, `MinMeetsEnd`):
M is rounded to the digits it keeps, and B has ten bits. For limits 1234 and
1244, B is rounded from 1234 to 123 times ten and every byte is shifted: `min`
maps to 102. For a range of 2448e-8, M is rounded from 9.6 to 10 at the lowest
exponent and then divided to 1: `max` maps to 245. `EndsNearlyMet` states what
holds when B keeps its digits (`OffsetExact`) and M, before it was divided by ten,
was 51 or more (`TwoDigits`); only at the lowest exponent can it have been less.

**`damaged`, `missed`, `erased`, `sent`** are history variables; no guard reads
the first three (`sent` bounds the model). `damaged` becomes true exactly when one of
four faults has happened, each with a counterexample of its own: a crash with
`next_records` truncated (`sel_delete_torn`), a rotation before `DeleteTruncate`
(`sel_delete_rotate.cfg`), the deletion of a record from before the last Clear
(`sel_delete_stale`); in `SelCounter`, a start that could not see the
last record (`sel_counter_restart`). Clear makes it false again. The properties that hold are stated
up to it, the documented promises without it: the latter are the violation runs.
`missed` in `ThresholdMonitor` is the set of events the SEL has nothing or
something old about, because a call failed, the SEL was full, cleared or lost the
record to SELDelete, or the daemon was down. In `Monitors` it is the same for the subjects of the four
monitors; there a handler that throws adds the signals that waited, a timer set
while its timeout is handled adds the watchdog, and a property that hid
`CurrentHostState` adds the host. `due` and `power` remember what the last
record should tell.

So `missed` excuses hazards of the code: while a subject is in it, nothing is
claimed about its records, and the next record that is written takes it out.
The failed call of the threshold monitor and its restart have counterexamples of their
own (`threshold_alone`, `threshold_twice.cfg`), because a comment promises better. The full
SEL, Clear, the lost signals of a process that ended, the answer of the IPMI host
without data, the timer set during its timeout and the hidden host state have
none, because no text of the repository says what should happen; nor have two
kinds of errors of one object (`Shared`). `PROJECT.json` says so at each hazard.

## Runs

| Run | Question | Bounds |
|---|---|---|
| `sel_delete` | `UniqueIds`, `FreeIdsUnheld`, `RestartKeepsPool`, refinement of `RecordIdPool` | 2 ids, 2 files, 3 records; any number of crashes, rotations and Clears (3.7 million states) |
| `sel_delete_live` | `HandlersFinish` | 2 ids, 2 files, 2 records, all faults |
| `sel_counter` | `IdsAscend`, `CounterCoversRecords` | 3 ids, 2 files, 4 records, all faults |
| `threshold` | `SelTellsCondition`, `Alternates`, `AlarmLogged` | 1 sensor with 2 alarms, 2 signals queued, SEL of 3; any number of crashes, Clears, and records of other clients added and deleted (182,000 states) |
| `monitors` | `AlarmTold`, `HostErrorTold`, `WatchdogTold`, `PowerTold`, `HostErrorAlternates`, `AlarmLogged` | eleven builds, see below; SEL of 2, 2 alarms, 2 objects with 3 interfaces, 3 timers, 2 signals; any number of kills, restarts, Clears, and records of other clients (460,000 states) |
| `scaling` | `BaseIsLargest`, `IntegerTracksDouble`, `NearestByte`, `EndsNearlyMet`, `Ends` | 10 minima, 12 ranges, 11 units, finite or not (2640 inputs); 13 readings for each |
| `sel_delete_torn` | violation of `UniqueSinceClear` by a crash | 4 ids, 1 file, 4 records |
| `sel_delete_stale` | violation of `UniqueSinceClear` by Clear with a record in the journal | 3 ids, 1 file, 3 records |
| `sel_delete_append` | violation of `DeleteKeepsOthers` by an append | 3 ids, 1 file, 2 records |
| `sel_counter_reload` | violation of `FlushedIsLogged` after a Clear | 3 ids, 1 file, 2 records |
| `sel_counter_restart` | violation of `UniqueSinceClear` by a crash | 3 ids, 1 file, 2 records |
| `threshold_alone` | violation of `NoDeassertAlone` by a failed call | 1 sensor, 1 alarm, SEL of 2 |

Why the bounds are enough: two ids and three records fill the SEL, delete, add
again and refuse; two files make "an older file" and a rotation out of the last
one possible. Crashes, rotations and Clears are switched on with `Allowed` and
not counted. In `sel_counter`, four records overrun three ids.
In `threshold`, two alarms of one sensor tell a set keyed by path from one keyed
by path and event; two signals and the one being handled are enough to be a
crossing behind; a SEL of three is full after an assert, a deassert and an assert.
In `monitors`, a SEL of two is full after one event and its end; two signals make
one that waits while a handler throws. The builds (`MCMonitors`) are each monitor
alone with a SEL (the pulse monitor on its journal path), the alarm and host error
monitors also with the logging service, three builds with SELDelete, and pairs
with the watchdog, in both variants, because an exception ends the other monitors
too. One object has two interfaces because the set is keyed by path. The
watchdog's timers differ in use, action, interrupt and log flag, one with an
interrupt that has no code. In
`scaling` the units reach both ends of the four bits of either exponent, the
minima have signs and up to four digits, and ranges of 0 and -1 are refused.

Deadlock is checked in every run but `scaling`, which models a call that returns;
none occurs.

### What the violation runs show

1. `sel_delete_torn`: `backupCacheToFile` truncates `next_records` before it
   writes it. A daemon that dies in between starts with no ids, dies on every
   Add, and after a SELDelete hands out ids that records hold.
2. `sel_delete_stale`: a record sent before a Clear and written after it can be
   deleted. Its id was free already and is now on the stack twice.
3. `sel_delete_append`: a line rsyslog appends after SELDelete has read the file
   is truncated away.
4. `sel_counter_reload`: `ReloadUnit` answers when the job is queued. Until it
   runs, rsyslog writes to the removed file; records sent after the Clear are lost.
5. `sel_counter_restart`: a restart before rsyslog has written the last record
   gives its id out again.
6. `threshold_alone`: the event enters `assertedEvents` before the two calls
   that may end the handler without a record; the deassert is then logged alone.

### Further counterexamples

Four more configurations each violate one documented promise. They are kept for
the reader to run (`tlc -config sel_delete_rotate.cfg MCSelDelete`), and are not
among the runs of `PROJECT.json`.

| Configuration | Module | Violates | What happens |
|---|---|---|---|
| `sel_delete_rotate.cfg` | `MCSelDelete` | `UniqueSinceClear` (README.md:18) | SELDelete opens the file it has read a second time, by name. If logrotate has renamed it, the record stays in `ipmi_sel.1` while the request is answered, and the next Add gives its id out again. |
| `sel_delete_late.cfg` | `MCSelDelete` | `UniqueLogged` (README.md:18) | Clear starts the ids from 1 while rsyslog still has records of before to write; they appear next to new records with the same ids. |
| `threshold_twice.cfg` | `MCThreshold` | `NoDuplicateLogs` (`threshold_event_monitor.hpp`:44-45) | `assertedEvents` does not outlive the process: after a restart the repeated signal of an alarm that is in the SEL is logged again. |
| `scaling_ends.cfg` | `MCSensorScaling` | `MinMeetsEnd` (`sensorutils.hpp`:197) | 1234 has more digits than B, which becomes 123 times ten: the minimum of a sensor from 1234 to 1244 comes out as 102 instead of 0. |

## Fairness

`SelDelete`: `WF_vars(pc # "idle" /\ Daemon)`. A handler that has begun goes on:
each of its system calls returns, and systemd restarts a daemon that died.
Nothing is assumed of clients, rsyslog, logrotate or the reload job, and crashes
may repeat for ever: a crash ends the request it hits, and the start that
follows it is one step once `next_records` exists.

`ThresholdMonitor`: `WF_vars(Handler)`. The event loop takes the next message
and each call to the sensor returns or fails (sd-bus has a timeout). `Start` is part
of `Handler`.

`Monitors`: `WF_vars(Daemon)`, for the same reasons, and because systemd restarts
the daemon. Nothing is assumed of sensors, host or clients.

`SensorScaling`: `WF_vars(Next)`; the code is sequential and waits for nothing.

A restart that is always tried in the end is more than `Restart=always` says:
systemd gives up a service that has started more than a few times within seconds
(by default five in ten), and the unit sets no limit of its own. The liveness
properties assume that crashes come slower than that, or that somebody resets the
unit. The safety properties do not depend on it.

## Proofs

Every safety invariant and every action property that a run checks is also
proved, for every value of the constants the assumptions allow:

| Module | Theorem | States |
|---|---|---|
| `SelDeleteProofs` | `TypeCorrect` | `TypeOK` |
| | `IdsAreUnique` | `UniqueIds` |
| | `FreeIdsAreUnheld` | `FreeIdsUnheld` |
| | `RestartsKeepThePool` | `RestartKeepsPool` |
| | `ImplementsPool` | `PoolSpec`, the refinement of `RecordIdPool` |
| | `RequestsAreShort` | a bound on the steps to an answer that every step of the daemon lowers |
| `SelCounterProofs` | `TypeCorrect` | `TypeOK` |
| | `IdsDoAscend` | `IdsAscend` |
| | `CounterIsAbove` | `CounterCoversRecords` |
| `ThresholdProofs` | `TypeCorrect` | `TypeOK` |
| | `SelDoesTellCondition` | `SelTellsCondition` |
| | `RecordsAlternate` | `Alternates`, an action property |
| `MonitorsProofs` | `TypeCorrect` | `TypeOK` |
| | `AlarmsAreTold`, `WatchdogIsTold`, `PowerIsTold` | `AlarmTold`, `WatchdogTold`, `PowerTold` |
| | `HostErrorsAreTold` | `HostErrorTold` |
| | `HostErrorsAlternate` | `HostErrorAlternates`, an action property |
| `ScalingProofs` | `TypeCorrect` | `TypeOK` |
| | `BaseIsAsLarge` | `BaseIsLargest` |
| | `IntegerKeepsTrack` | `IntegerTracksDouble` |
| | `NearestByteIsFound` | `NearestByte` |
| | `EndsAreNearlyMet` | `EndsNearlyMet` |
| | `CallsAreShort` | a bound on the steps of a call that every step lowers |

In each module `IInv` is the inductive invariant; TLC checked it on the bounds
of the run before it was proved. Each conjunct has a lemma over `[Next]_vars`,
with one step per action.

**The SEL with deletion**: every `selInvalidRecID >= 2`, every positive number of
log files, any bound on records, with rotations, crashes and Clears allowed or
not (`IdAssumption`, `LogAssumption`). `UniqueIds` is not inductive: that a new id
is unused depends on the shape of the stack, and that a deleted id is unused on
where its record was when SELDelete read the file. `IInv` adds:

* `SentInv`, `BootInv`, `SyncInv`: positions are at most `sent`; there is no
  record before `next_records` exists; outside a rewrite the backup equals the vector;
* and unless `damaged`, `TrustInv`: the vector, and the backup while the daemon is
  down, is a `Stack` (its bottom is above all the rest, which are distinct) and
  every current record's id is `GivenOut` (below the bottom and not stacked);
  the id between `getNewRecordId` and `sd_journal_send` is given out and on no
  record; a record is in one place only; from `DeleteScanHit` to `DeleteTruncate`
  the target is in the file to be truncated and nowhere else; after it, its id is
  on no record until it is back on the stack.

`StackUseUp` and `StackAppend` state what `getNewRecordId` and `selDeleteRecord`
do to a stack, `FreeUseUp` and `FreeAppend` the same for the ids it offers, and
`PoolNext` maps every step to one of `RecordIdPool` or to a stutter.

**The SEL of the default build**: same assumptions. Ids ascend because the counter
is at or above every id in use (`CoverInv`), which a starting daemon learns from
the file it found; until it has read it, the last record must be in that file
(`ReadInv`). `SelLogFilesProofs` shows that the newest record of a file and the
newest file exist, by a least number lemma that follows from the library's
well-foundedness of finite sets.

**The threshold monitor**: any sensors, events and bounds. That the
SEL tells the conditions is a fact about moments of rest. `IInv` says what holds
on the way: the last signal that waits tells the condition (`LastSays`), when
none waits the handler's set does (`SetInv`), and the SEL tells what the set does,
but for the signal in work (`SelInv`). `QueueProofs` has the lemmas on which
signal is last when one is appended, taken, or the queue is lost.
`RecordRemove` of `ThresholdProofs` says what the last record of an event is after
SELDelete of another record.

**The other monitors**: any set of builds, sensors and events, any bounds, and
timers with an action, a use and an interrupt (`TimerAssumption`). One conjunct per monitor,
of the same shape: what the last message about a subject says while one waits,
and what SEL and statics say when none does. `BranchFacts` goes through the table of
alarm names, the reason why an alarm's record is about that alarm. For an object with two interfaces
`HostErrorInv` keeps only what the set keyed by path can know. `WatchdogInv` needs
most: while a timeout waits the timer stays as it was when it ran out, and the use
that `GetAll` read is that timer's.

**Scaling**: limits of any exponent with at most the digits of `InputAssumption`
(minimum up to 5000, range up to 10000 in units of the last digit: the 32 bits of
TLC's integers). `IInv` follows the base through the loops: base and exponent
together stand for the range (`MultiplierInv`), then for the offset (`OffsetInv`);
a base in range rounds to ten bits (`RoundBound`); rounding and dividing by ten
commute (`RoundTenth`), which is why integer and double stay together; a base as
large as it can be rounds to 51 or more (`LargeEnough`), and so M is `Close` to
the double (`CloseRound`, `CloseTenth`). `NearestByte` then follows from `DivDiv`,
`HalfAway` and `NearestMultiple` (dividing in two steps, rounding half away from
zero, clamping), for every integer reading and not only for the 13 of `Probes`
(`ByteIsNearest`). For `EndsNearlyMet`, 255 times the distance of either limit is
the byte at that end times the range (`EndsAre`), and 255 steps of M are the range
but for one part in 102 (`StepsAreClose`).

The proof of `EndsNearlyMet` corrected the property. It used to exclude only
multipliers at the lowest exponent; the case of M rounded there and then divided
by ten could not be proved, and a range of 2448e-8 is its counterexample. `TwoDigits`
is the condition that the proof needs, and the range is now one of the run's.

The assumptions are `IdAssumption` and `LogAssumption` of `SelLogFiles`,
`BoundAssumption` of `ThresholdMonitor` and of `EventLoop`, `AlarmAssumption` of
`AlarmMonitor` (alarms are among the four that have names), `TimerAssumption` of
`WatchdogMonitor` and `InputAssumption` of `SensorScaling`. TLC evaluates each on
the runs of its module.

Model-checked only: liveness under fairness (`HandlersFinish`, `AlarmLogged`,
`Ends`), which the prover does not reach. It reaches what they rest on for two of
them. `CallsAreShort`, of `Ends`: every step leaves fewer steps to the end, of which
there are never more than 199. `RequestsAreShort`, of `HandlersFinish`: each step of the
daemon leaves fewer of at most `NumLogs + 5` to its answer, and no other process
adds to them while it runs.

## Not modelled

* Modification times (`sel_erase_time`, the restored time of `ipmi_sel`): the
  IPMI host daemon reads them, this program decides nothing by them.
* Write errors of the file streams (a full `/var/log`), lines of the log files
  that are not of the rsyslog template, loss in the journal itself (rate limits,
  vacuuming), more than ten log files.
* The level of an entry of the logging service. `selAddSystemRecord` chooses it by
  the first data byte as if it were the bare threshold offset; the alarm monitor
  has set bits 4 and 6 of that byte, so its entries are all Informational, and the
  actions of the watchdog and the kinds of host errors get the level of the
  offset with their number. No text says what the level should be.
* The threshold monitor of builds that send to the logging service; it differs
  from the one modelled in its last call, which may throw.
* Readings beyond the range of `int32_t` once scaled, and NaN: the cast in
  `scaleIPMIValueFromDouble` is then undefined. The rounding in the last bits of a double.
* D-Bus registration, message texts, Redfish message ids.

## Plan

Done: `SelLogFiles`, `SelDelete` with `RecordIdPool`, `SelCounter`,
`ThresholdMonitor`, `EventLoop` with the four monitors and `Monitors`,
`SensorScaling`; proofs of every safety invariant and action property of the runs.

Left, in this order:

1. What the prover can reach of `AlarmLogged`, as for `HandlersFinish`: a number of
   queued messages ahead of an alarm's that each handler lowers.
2. Write errors and modification times in `SelDelete`, with its proofs.
