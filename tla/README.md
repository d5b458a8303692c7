# A TLA+ model of PowerPack

PowerPack measures the power of a machine while a program runs on it and marks
in the log what the program was doing. The repository holds two generations of
it: the C++ measurement server and client of `src/src/`, built around a National
Instruments board, and the C meter tools of `src/old/` (meter servers for
several meters, a network protocol, and a function-level API for the programs
being profiled). This directory specifies both, checks them with TLC and proves
with TLAPS every safety invariant that the runs check, for all values of the
constants.

Paths below are relative to the repository, which is under `src/`; so
`src/socketutils.cpp` is `src/src/socketutils.cpp` in `PROJECT.json`.

## 1. The system

| Part | Where | State | Operations | Talks to |
|---|---|---|---|---|
| NI-DAQmx event handler | `src/nidaqmxeventhandler.cpp` | stamps, output stream, task handle, totals | `startHandler`, `tagHandler`, `endHandler`, destructor; `EveryNCallback`, `DoneCallback` | the driver, on its own threads |
| Session protocol | `src/socketutils.cpp`, examples | sockets, the message being read | `sendSessionStart/Tag/SessionEnd`; `listenForClient`, `handle*`, `readData` | TCP; the handler |
| Configuration | `src/functionapi.cpp` | key/value map | `createConfigurationMap`, `findPair`, `get`, `configure` | the handler, the server |
| Connection tables | `mserver.c`, `multiserver.c` (twice), `sensor_server.c`, `mlogger.c`, `nidaqmx_server.c` | `connection[]`, `running` | `request_handler`, `client_req`, `main` | clients |
| Log control | control messages of `mserver.c`, `multiserver.c`; `functionAPIs/fcontrol.c`; `mcontrol.c` | `fplog`, `logging`, `fp_mutex`, working directory | `powerpack_fp_*`, `send_control_msg`; `NEW_LOG_FILE`, `END_LOG_FILE`, `NEW_SESSION`, `END_SESSION`, `CHG_WORKING_DIR` | the profiled program; monitors |
| Monitors of multiserver | `multiserver.c` | readings of three meter servers, `mutex`, sums | `monitor_netmeter`, `merge_wattsup_nidaq_pwr`, `statistic_nidaq_power`, `send_power` | meter servers, clients, the log |
| Monitors of the other servers | `mserver.c`, `sensor_server.c`, `mlogger.c` | `cumulative_energy`, last reading | `monitor`, `integrate`, `reset_energy` | a meter, clients |
| Watts Up USB meter | `mapi/watts_up.c` | `asyncBuffer`, `asyncValid`, reader thread | set-up, `AsyncReadThread`, `ReadWattsUpUSB`, close | USB port |
| Meter front end, serial meters | `mapi/meter.c`, `fluke_189.c`, `protek_506.c`, `rs_22812.c`, `watts_up.c` | serial line, partial answers | `meter_init`, `meter_read`, `meter_command`, each meter's query, read and parse; units | serial line; `msend.c` |
| niserver | `old/niserver/niserver/` | `nidaq_milli_powers`, `hMutex`, a task | acquisition, callbacks, `send_power` | the board, clients |
| netmeter library, mclient | `mapi/netmeter.c`, `mclient.c` | a socket, the message | `netmeter_connect`, `netmeter_request`, `netmeter_convert` | servers |
| Support | `support/*.c` | sockets, string buffers | `tcp_connect_port`, `tcp_passive_port`, `sb_*` | all tools |

What is hard in it: driver callbacks share the handler with the server thread
and no lock is taken; either end of a session may die between any two steps and
TCP cuts messages anywhere; the connection tables are written by the listener
and by every client thread without a lock and are scanned one entry too far;
each control message travels on a connection of its own, so messages overtake
each other; monitors test and use a `FILE` that other threads close; a monitor
unlocks a mutex it does not hold; energy is added to and reset by two threads;
a reader thread is given a fixed time to end before its port is closed; serial
answers come in pieces, late or never. `PROJECT.json` lists these hazards at
their lines, with the properties that would catch each going wrong.

What makes each part correct:

- handler: the report at the end is whole, last and consistent; no task or
  callback outlives it; nothing but the driver's own two calls can block its end;
- session: events are recorded once and in order, whoever dies; a start that was
  acknowledged was recorded; an ended session produces its report; the handler
  gets what the configuration file says;
- reading: the reader stays in step with the byte stream, and where it cannot,
  it is known why;
- tables: an entry in use is not reused, replies go to their askers, entries are
  not lost, waiting clients are served, the server can stop;
- log control: one open file at most, none used after it is closed, marks in
  order, every message handled;
- monitors: the mutex excludes and is returned, averages are of the readings they
  claim, energy is counted once, what a wrap of the RAPL register loses is bounded,
  records are taken once, and the end of one thread ends the program;
- clients: what is reported as an answer is the answer, and a request returns.

## 2. Modules

| Module | Models |
|---|---|
| `NIDAQmxEventHandler` | the handler and the driver's threads |
| `Session`, `MCSession` | `socketClient` and `socketServer` around the handler, started from a configuration file |
| `Configuration` | operators: the file, the map, what the handler takes from it |
| `SessionRecord` | abstract: what a session promises |
| `ReadData`, `MCReadData` | `readData` and the bare reads, byte by byte |
| `ConnectionTable` | six listeners, their tables and client threads, shutdown |
| `LogControl` | control messages, log file, the monitors' writes |
| `Multiserver` | the three monitor threads of `multiserver.c` and a client's `send_power` |
| `WattsUp`, `MeterServer` | the USB driver with its reader thread; the monitor loops of three servers on top of it, RAPL and serial meters |
| `Niserver` | acquisition, callbacks, published powers, `send_power`, the end of the process |
| `Netmeter`, `MeterUnits` | a client's requests to each kind of server; operators for units and scales |
| `SerialMeters`, `Rs22812`, `MCSerialMeters` | the meter front end and four serial meters; the packet of the 22-812 as operators |
| `Session_proofs` | theorems about the handler, the session and its configuration |
| `Netmeter_proofs` | theorems about the client library and about niserver, one of its servers |
| the other `*_proofs` | theorems about the reader, the tables, log control, multiserver, the meter servers and the serial meters |

`Session` extends `NIDAQmxEventHandler` and `Configuration`: the handler's actions
are conjuncts of the server's. It implements `SessionRecord` through the mapping
`AbstractRecord`. `MeterServer` extends `WattsUp`: the loop's read is the driver's
`Take`, its end the driver's close. The operators marked as mutants
(`EndHandlerNoStop`, `ReadPeek`, ...) are part of no specification; they are the
wrong forms that show that a property can fail.

**`NIDAQmxEventHandler`.** `endHandler` is five actions, one per statement that
others can observe between: the stamp, `DAQmxStopTask`, `DAQmxClearTask`, the
stamps in the file, the totals. `EveryNCallback` is entered, reads, adds to the
total and writes its line in a step each; after a read that failed it stops its task
and clears it in two more, and `DoneCallback` runs before it clears. The
driver is not in the repository. Two facts about it are assumed: `StopWaits`,
that clearing a task waits for a callback already running (the code needs this,
as it has no lock), and that a call on a dead handle returns an error, which the
code ignores. Nothing is assumed of a callback that is about to stop or clear its own
task while `endHandler` waits for it (`Crossed`): the driver may let the two through
or leave them waiting for each other. `Disciplined` is a caller that does what
`clientexample.cpp` does: one start, tags, one end.

**`Session`.** One frame is one message: the client writes each with one `send`.
The server first reads one of several files (a key twice, a key missing, a line
that is no pair, comments) and exits or listens. A process in `MayDie` can be
killed at any step. End of stream makes the server's `readData` spin (`read`
returns 0 and `to_read` stays); an unread handshake turns it into a reset and the
server exits. The client's `readData` takes an end of stream for a reply, so it
goes on with an uninitialised byte: both outcomes are in the model.

**`ReadData`.** `buf` is memory: for each byte behind the buffer's address, which
byte of the field was stored there. `readData`'s cursor is an `int *`, so a short
read of n bytes moves it 4n. What was read decides what is read next: a type the
handler, a size the length of the text. A type read from the middle of a field may
be any (`TypesRead`), and a size that is not in place any of `Sizes`, or one for
which there is no memory (`SizesRead`, `HandleSizeTooBig`); `cut` remembers that
this, or a bare read that got too little, has happened.

**`ConnectionTable`.** `server` says which copy of the table a behaviour is about.
The scan goes up to and including index `MAXCONNS`; the word behind the array is
the last entry of `sock`, initially zero or not. Each turn of the scan, `poll` or
`select`, `accept`, the creation of the thread and each part of `client_req` are
separate steps. A request is who sent it, its command and its number; a read
takes one or several of them at once, and each server does with several what its
code does. `nidaqmx_server.c` passes a pointer to the listener's local, read when
the thread starts (`NiThreadStart`).

**`LogControl`.** Each control message has a thread of its own. Using a `FILE` that
is not open is undefined; the model records who did it. `Multi` distinguishes
`multiserver.c` (with `fp_mutex`) from `mserver.c` (without), `tool` an application
from `mcontrol`, and `spaced` a caller that leaves time between two calls.

**`Multiserver`.** A monitor's turn is its request, the merge under `mutex`, the
additions of `statistic_nidaq_power` or its averages, and the log. Every load and
store of `pwr` and `samples` that another thread can come between is a step. A
meter server may go away; a write to a connection that was reset raises SIGPIPE.

**`WattsUp`, `MeterServer`.** Each section between `LockBuffers` and
`UnlockBuffers` is one step, as nothing in it waits. The close sleeps and closes
whatever the reader thread is doing (`CloseEnd`), and its commands to stop the meter
may be lost. The monitor drops a RAPL difference that is negative, where the register
wrapped. `cumulative_energy` is loaded
and stored in two steps, with a client's RESET between them or not. `exact` and
`n` are history: the energy measured since the last RESET and the number of
readings in it; `used` and `sum` are what the RAPL register counted and what of it was
integrated.

**`Niserver`.** Channels are published and copied one by one under `hMutex`; a
channel's power is the number of its acquisition. The callback's read, stop and clear
are separate steps, as in the handler, and with the same freedom of the driver.

**`Netmeter`.** A message is a sequence of words, a reply may be cut anywhere, and
the client makes one read. `num_chs`, which some servers leave unassigned, is any
word of `Garbage`.

**`SerialMeters`.** The device answers in parts, on time, late, with a refusal, or
not at all, and may be unplugged. A value is the number of the query or record it
comes from; for the 22-812 it is the number on the display, through
`Rs22812`: bits, segments, text, scan. A read may fail, and `meter_read`, which looks
only for 0, then parses a buffer that was never assigned; a buffer of the Protek may
hold a carriage return from before and end a read early; a text that is no number
leaves the value unassigned. Such a value is any measurement of an earlier call, 0 or
something else (`Guess`, `Earlier`), and `unassigned` remembers it. `left` counts the
parts of answers that a timeout, a failed read or an early end did not wait for.

## 3. Runs

Each run asks one question of one part; where a part exists in several copies,
the run covers them all (`server` is chosen in `Init`).

| Run | What it shows | Bounds | Distinct states |
|---|---|---|---|
| `handler` | report whole and last (`FinalReport`), totals agree with the lines (`TotalMatchesReadings`), no task left (`MeterShutDown`), the end completes but for two calls of the driver that wait for each other (`EndCompletes`), with driver calls failing at any step | 1 start, 2 tags, 4 board reads, 0 to 2 samples | 8,830 |
| `session` | the handler gets what the file says (`ConfigurationRead`), an acknowledged start has its header (`HandshakeAfterHeader`), a start returns (`StartReturns`), an ended session leaves every stamp (`SessionCompletes`), `SessionRecord` is implemented (`ImplementsRecord`) | any call order, 2 starts, 1 tag, both processes may be killed, callbacks outlive the stop | 144,198 |
| `readmsg` | only a size cut in two or a short bare read puts the reader out of step (`InStep`), messages are otherwise read to their end (`MessageRead`) | START, TAG and END message, 8-byte fields cut to 3 bytes, wrong sizes 0, 1, 2, 4 | 21,472 |
| `conntable` | ownership of entries, replies, no entry lost, clients taken, shutdown | `MAXCONNS` 1 (2 entries with the one behind), 2 clients, one of which never hangs up, 2 requests, six servers | 412,803 |
| `logcontrol` | no closed `FILE` used by a control thread, one open log, header first, marks in order, all handled | two servers, 3 messages of mcontrol, 2 files, 1 round with 2 sessions, 1 reading, 1 monitor | 1,008,146 |
| `multiserver` | exclusion until the stray unlock, mutex returned, averages, no division by zero, the program ends | unsigned int modulo 4 with readings of 3, so that two of them overflow; 2 readings of each kind, 1 server lost, 1 client request | 528,876 |
| `meterserver` | records marked and taken once, energy counted, RAPL energy never counted twice and lost only at wraps (`RaplCounted`), the program ends | 3 records, `asyncValid` capped at 1, 2 seconds, 1 RESET, 3 turns, a register modulo 4 that wraps | 1,141,356 |
| `niserver` | whole readings, no task left, the server ends | 2 channels, 3 acquisitions, 3 requests | 2,612 |
| `netmeter` | a reported answer is the answer, on every scale; a request returns | 3 requests, powers of two lengths, garbage 0 and 3, five servers | 285,427 |
| `serial` | a reading is late by no more than what was left behind (`AnswersOwnQuery`), the 22-812 is read as its display, a read ends | 4 calls, 2 packets, bytes in pieces of 4 and 9, four meters | 3,141,099 |

Runs that end in a counterexample, where the code and a comment disagree:

| Run | Comment | What the code does |
|---|---|---|
| `readmsg_cursor` | "stores the data in the given buffer" (`socketutils.h:49`) | a field that arrives in two pieces is stored partly behind the buffer |
| `session_eof` | "keep reading until handleClientConnection() gives an error" (`socketutils.cpp:75`) | a server whose client is gone never leaves `readData` |

*Why the bounds suffice.* Two clients over one entry are the least with which an
entry is taken, freed and taken again while an old thread is still in
`client_req`; two requests make merging possible. One callback against one
`endHandler` is all the concurrency the handler has per task; four board reads let
callbacks run before, during and after the stop. Three control messages put two
handlers into each other with a third to observe the outcome. In `multiserver` two
readings overflow the sum and a second average follows the first. In `meterserver`
three records let one be overwritten, one taken, and one stored after the cap. In
`readmsg` three bytes are the fewest that come in three pieces, and the bare read of a
START stands before a whole message that can be misread. In `serial` the fourth call
comes behind answers that three earlier ones left, so that a lag of two and more is
seen.

*Conditions in the properties.* Each states where the code stops keeping its
promise. `ShutdownCompletes` and `AcceptedEventually` assume that in the end some
entry stays free: with a full table the listener scans for ever and never looks at
`running`. The table's safety properties are about the servers that pass the
thread's number by value; with the pointer of `nidaqmx_server.c:376` two threads
may serve one entry. `SlotsAccounted` names the one way to lose an entry
(`mserver.c:280`). `ControlNoFault`, `OneOpenLog` need `fp_mutex` or calls with
time between them, `SessionsInOrder` and `BeginFirst` the latter.
`ExclusionUntilStray` ends with the first unlock without a lock
(`multiserver.c:897`). `EnergyCounted` excepts a RESET between load and store;
`MonitorEndExits` a failed `meter_alloc_mms`, which leaves `running` set and `main`
waiting. `RequestReturns` excepts the two commands that `nidaqmx_server.c` never
answers. `InStep` and `MessageRead` hold up to the first size that is not in place or
short bare read (`cut`). `RaplCounted` leaves out a reading that a failed
`gettimeofday` loses. `AnswersOwnQuery` lets a reading lag by one query for each part
left behind, so with nothing left it is the query's own; a value that was never
assigned is outside it, and the property says when, with nothing left behind, there
can be one: after a text of the Protek that is no number. `ReadEnds` excepts answers
left behind, refusals, the hang-ups that two meters' loops do not notice, and a Watts
Up that sends nothing. `EndCompletes` and `StopEnds` except a callback whose own stop
or clear of its task meets the one of `endHandler` or `main`, in a driver that lets
neither return.

*Fairness.* Weak fairness of a thread stands for the operating system scheduling a
thread that can run: the server, listener, client, monitor and reader threads and
`main`. A driver runs the callback it started; a callback's call on its own task
returns, unless the server thread or `main` is waiting in its call on that task
(`Crossed`), for then nothing is assumed. The example client always goes on
to its last call, so its steps are fair in `Session`. Strong fairness is assumed
only for taking a mutex (`MergeLock`, `PublishLock`): a thread that finds it free
again and again gets it. In `LogControl` it is only assumed that some thread that
can run does, which is enough because each handles one message. A device that was
asked answers while it is plugged in (`Reply`, `Arrive`). In `MeterServer` the monitor,
the driver's set-up and close, the listener and `main` are fair, the meter and the
reader thread are not. Clients of the tables, applications and log monitors
are never obliged to act, and nothing that may fail is fair.

*Deadlock* is checked in every run but `niserver`, whose client may stop reading
for ever after the bounds are used up.

## 4. Proofs

All for every value of the constants. The assumptions on the constants are named
in the modules that declare them.

`ConnectionTable_proofs`: `OwnershipHolds`, `NoSlotLost`, `RepliesHold`,
`TypeCorrect`. The invariant `Inv` adds to the properties and the types:

- `ListenerOK`: the entry in the listener's hand is free, or filled with a
  connection that has no thread yet. Without it `SlotOwnership` is not inductive:
  `Accept` would overwrite an entry in use. It holds without a lock because only
  the listener turns a free entry into a used one;
- `NotAccepted`: a client that was not accepted is nowhere in the table, so
  `Accept` cannot make one connection appear twice;
- `InboxOK`, `MsgOK`, `RepliesOK`: where the numbers of a client's requests are
  (socket, thread, answered), which makes the order of replies inductive across
  merged reads.

`Session_proofs`, the handler: `HandlerTypeCorrect` without further assumptions;
`EverySampleCounted` assuming `Disciplined`; `FinalReportHolds`, `MeterShutDownHolds` and
`TotalMatchesReadingsHolds` assuming `Disciplined` and `StopWaits`. `HandlerInv` says
that only the task `taskHandle` names was ever created (`OneTask`), that a callback
holding samples has a task that is not cleared (`BusyAlive`), hence that from
`DAQmxClearTask` on nothing of the driver runs (`Silent`), and that between stamps
and totals the file ends with the stamps (`StampsLast`). `SamplesCounted` says that
`totalSamplesRead` is the sum over the lines of readings and of what the callback has
counted and not yet written (`Unwritten`); it needs one start, as the additions of two
tasks' callbacks may overwrite each other. When the report is written no callback is
left in between, which makes it the sum over the lines.

`Session_proofs`, the session: `HandshakeHolds`, `SessionImplementsRecord`, `ConfigurationReadHolds`,
`SessionImplementsHandler`, `SessionReport`. `SessionInv` has these parts:

- `LinkInv`: what the handler has, followed by what is on the way, is what was sent.
  It carries the refinement: `Sending` maps to `Produce`, `Taking` to `Record`,
  `WriteTotals` to `Report`, everything else to a stutter;
- `ClientInv`, `ServerInv`: the calls in the order the client makes them, and the
  headers the handler wrote for the starts it received. They are also what makes
  every server step one that `HandlerSpec` allows; so `Spec => HandlerSpec`, and the
  theorems about the handler hold in a session with the same assumptions
  (`SessionReport`);
- `HandshakeInv`: of a start that is waited for, exactly one of the message, the
  server's debt and the reply exists. Without it a reply could let the client past a
  later start;
- `StampInv`: the stamps in the file are in one piece and are the record, although
  callbacks that outlive the stop write before and behind them. `SessionRecord` is
  therefore implemented without `StopWaits`, which only `SessionReport` needs.

`ConfigInv` says that the configuration is what `configure` makes of the map of the
file. That the map's values are those of the file is shown line by line: a line that
comes second for its key, or is no pair, stops the server.

`ReadData_proofs`: `InStepHolds`, from `ReaderCounts`. `AtField` relates `to_read`, the
cursor and the position in the stream to the field being read, its sort and its width;
`ReadInv` has it as long as no size was cut up and no bare read short. At the end of a
field the bytes consumed are those of the fields up to it, and of no other one, since
every field has a byte (`FieldEnds`): the type switched on is therefore the type sent,
and a size in place is the width of the text that follows.

`LogControl_proofs`: `ControlUsesOpenFile`, `NoLogLeaks`, `HeaderComesFirst`,
`MarksInOrder`, for any number of messages, files, sessions and monitors. `LogInv`:
one thread at a time works on the log, because of `fp_mutex` or because of the caller
(`AloneInv`); outside the stretch between `fclose` and `fopen` the one open file is
`fplog`, and inside it no file is open and `logging` is off (`FileInv`); the first file
is empty only until the thread that opened it wrote its header; what the last message
was, given what the application does next, and how many marks that makes.

`Netmeter_proofs`, niserver: `WholeReadingHolds`, `NoTaskLeftHolds`. `NiInv` ties `hMutex` to
the places of its holders (`LockInv`), splits the channels at `k` into those of
this acquisition and those of the one before (`EvenInv`), and says that what was
copied is what all channels show (`CopyInv`); `TaskInv` follows the task.

`Netmeter_proofs`, the client: `AnswersRequestHolds`, from `NetSafety`. One `read` takes
some first part of what is there, so a reply cut in two leaves its rest for the next
request, and nothing in the protocol says which request a reply answers. `NetInv` says
that this cannot happen before the first error: until then client and server take turns,
the stream is empty when a request is sent, and afterwards holds the one reply to it,
whole (`SyncInv`). A read then takes all of it, or the comparison of its size with
`num_chs` fails and the request with it. Behind it are lemmas about `MeterUnits`: a power
in milliwatts is called that, and is worth the same on every scale (`MilliwattsAre`).

`Multiserver_proofs`: `ExclusionHolds`, `MutexReturnedHolds`, `NoDivisionHolds`,
`AverageIsRight`. `MutexInv` adds that a mutex that is not free belongs to a thread
inside. With that the stray unlock is harmless to `MutexReturned`: it can only free
the mutex early, and an unlock of a free mutex changes nothing. `AverageInv` says what
`pwr` and `samples` are at each place of the two threads that add and reset without
a lock, as long as they have not met: the window's sum and size, `pwr` ahead of it by
the reading that was added and not yet counted.

`MeterServer_proofs`: `EnergyHolds`, `MarkedHolds`, `TakenOnceHolds`,
`RaplCountedHolds`. `EnergyInv` says that the interval being added starts where the
last one ended and, unless a RESET came between, that what was loaded is still there.
`DriverInv` holds the types of the driver and `StoredIsMarked`.
`OrderInv` says that records get newer from what was taken over the buffer and the
reader's copy to the wire, and that a marked one was not taken. `RaplInv` says that from
the first read on the register, `rapl_read`'s static and what was used agree up to whole
turns. A difference that is not negative is what was used (`Turns`); one that is
negative belongs to a wrap, and the loop drops at most a turn less one with it, while
`used \div MsrMod` grows by one.

`SerialMeters_proofs`: `AnswersOwnQueryHolds`, `ReadsDisplayHolds`.

- `OwnInv` carries the first. What of the Fluke's and the Protek's answers was asked for
  and not yet taken stands in one stream: buffer, tty, wire, and what the device has
  still to answer. `StreamInv` says that it is no longer than what was left behind plus
  the answer that is waited for, and that each part is in time for its place in it
  (`InTime`): every query takes at least one part off the front, so the part of query
  `q` at place `k` is read at most `left` queries late. What is parsed is then of a
  query in `(query - left)..query`. `OnlyInv` says what the stream is when nothing was
  left: the answer to this query alone, a refusal by itself, a text before its return;
  here the table of commands matters, which says how many lines a caller waits for.
  `ParseInv` carries that over the end of the read, so that with nothing left the only
  value not assigned is that of a text without a number.
  The Watts Up is never asked again, so its records only keep their order, from the
  wire to the buffer, behind what was taken (`RecordInv`), and that needs no such
  condition.
- `FrameInv` is the framing of the 22-812: byte for byte, buffer, line and wire hold
  consecutive pieces of what was sent, however it was cut. A buffer that begins at a
  multiple of nine and has nine bytes therefore begins with one whole packet (`Whole`).
- `ParseIs` is its decoding. The segments of different digits differ once the point
  bit is taken out (`CookDigit`), so the text of a packet shows the display's digits,
  with its point and its sign where they belong (`NumberIs`); the scan of a text that
  shows a number gives that number in thousandths (`ScanShown`), where `10^(3 - dec)`
  must undo the place of the point; and of the two `else if` chains over the flags only
  amps alone gives the word `A` (`WordIs`). Nothing is assumed of the displays but what
  the meter can show (`Displays` is a part of `Display`: four decimal digits, at most
  one unit and one multiplier).

*How sums and counts are proved.* Counts are cardinalities of sets of indices, and
sums, offsets and the configuration map are recursive functions. Facts about them for
every length come from `SetInduction`, which needs no operator as a parameter: a set
that holds 0 and with each number its successor holds them all. It is derived from
the well-foundedness of `<`.

*Only model-checked.* Every liveness property, as fairness and `ENABLED` are beyond
the prover (`EndCompletes`, `StartReturns`, `SessionCompletes`, `MessageRead`,
`AcceptedEventually`, `ShutdownCompletes`, `AllHandled`, `AllStop`, `MonitorEndExits`,
`StopEnds`, `RequestReturns`, `ReadEnds`). The readings that are refused are not
proved about: a whole packet may be decoded to an error, as that of a display without
a unit and without an indicator is.

## 5. Plan

Every component with control of its own is modelled, and every invariant and the
refinement that the runs check is proved. What is left are the liveness properties,
and the hazards that `PROJECT.json` lists without a property or with a note, each with
the reason. Three of them lie at the edge of what is modelled: the close of the USB
meter gives its reader fixed times and no more, so a late reader may use a descriptor
that is closed; what `readData` stores behind a buffer overwrites nothing else in the
model; and the numbers in the readings of the C++ handler, those of no samples among
them, are left out.

## 6. Not modelled

Vendored and generated files, `NIDAQmx.h`, prototypes under `examples/`, clock
reads, and copies of files that are modelled (`usb_wattsup.c`,
`serial_watts_up.c`, the copies under `functionAPIs/` and `niserver/`). Functions
without a caller (`monitor` of `multiserver.c`, `sb_copy`, `util.c`) and
`meter_debug`.

Abstracted inside what is modelled: the numbers in a line of the C++ handler's
readings and their conversion to power; formatting of the log; the `scp` of the log
back to the application; float rounding (`MeterUnits` computes with decimals, and
energies stay below 2^24 J); a request of a netmeter client reaches the server
whole; structures have their 64-bit sizes; client and server are configured with
the same port; the caller of the serial meters may mix `meter_read` and
`meter_command`, which no single tool does; a Watts Up USB record is read whole;
the timestamp that a short bare read leaves partly unassigned;
the copies that `store_last_reading` makes, which nothing reads; the milliwatts
that `sensor_server.c` publishes for RAPL, and its MIC sensor; control messages sent
to the metering port of `multiserver.c`, whose handler takes no `fp_mutex`.

Met while reading, and without a run: `functionapi.cpp:60` says lines that begin
with `!` are skipped, the code tests `#`; a configuration file that opens but cannot
be read makes `createConfigurationMap` loop for ever; the shipped `server.cfg` has 18
channels and 17 voltages; the clamp of a message's length at `mserver.c:322` is
reversed; `fcontrol.c:247` closes descriptor number `port` instead of the socket; a
callback that reads no samples converts averages it never assigned
(`nidaqmxeventhandler.cpp:157`); `startHandler`'s errors reach no one and the
handshake is sent regardless (`socketutils.cpp:111`); a monitor of `multiserver.c`
prints to a log that another thread may have closed (`multiserver.c:1024`); an error
in niserver's callback stops the task and not the server, which goes on with the
last reading (`ContAcq-IntClk.c:214`); a missed Watts Up sample returns an unassigned
result (`watts_up.c:673`); a 22-812 packet that is read from its middle is never
brought back into step (`rs_22812.c:448`); a failed read of a meter returns -1, which
`meter_read` takes for data (`meter.c:169`), and a text of the Protek that is no number
returns an unassigned value as a reading (`protek_506.c:97`).
