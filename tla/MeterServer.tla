----------------------------- MODULE MeterServer -----------------------------
(***************************************************************************)
(* The monitor loop of the legacy meter servers and what it shares with    *)
(* their client threads: cumulative_energy, which the loop adds to and a   *)
(* client's RESET clears, both without a lock, and running.  The loop is   *)
(* the same in mserver.c, sensor_server.c and mlogger.c; server says which *)
(* of them runs, and with that where a reading comes from: the Watts Up    *)
(* USB driver (WattsUp), the RAPL counter, or a serial meter (meter_read). *)
(*                                                                         *)
(* Values are in tenths of a watt, time in seconds, energy in tenths of a  *)
(* joule; cumulative_energy is unsigned int, so every addition of a float  *)
(* to it drops the fraction.  Values above 2^24 J, where float addition    *)
(* rounds, are out of the model's bounds.                                  *)
(***************************************************************************)
EXTENDS WattsUp, Integers

CONSTANTS
    Servers,      \* which servers are checked
    Counts,       \* values of the option -c
    Clock,        \* bound: seconds the clock runs
    Resets,       \* bound: RESET requests
    MaxReads,     \* bound: turns of the loop
    SimVolts,     \* the volts that a meter without watts is taken to have
    MsrMod,       \* the RAPL energy counter wraps at this value (2^32)
    MsrStep       \* joules the package may use between two reads

ASSUME ServerAssumption ==
    /\ Servers \subseteq {"mserver", "sensor_server", "mlogger"}
    /\ Counts \subseteq Nat
    /\ Clock \in Nat /\ Resets \in Nat /\ MaxReads \in Nat
    /\ SimVolts \in Nat \ {0}
    /\ MsrMod \in Nat \ {0} /\ MsrStep \subseteq 0..(MsrMod - 1)

VARIABLES
    server, count,
    scale,             \* what integrate multiplies a value with: 1 for watts
    main,              \* main(): monitor, join, exited
    listener,          \* request_handler: it leaves its loop once running is 0
    mpc, running, loops,
    value, rc,         \* mm[0].value and the result of the read
    last_tv, now,
    cumulative_energy, loaded,  \* the counter, and the copy integrate adds to
    resets,
    msr, last_package, \* the counter register and rapl_read's static
    exact, n,          \* history: tenths of a joule and additions since RESET
    prev, raced,       \* history: time of the last addition; a RESET fell between load and store
    reads,             \* history: reads of the meter
    used, sum,         \* history: RAPL joules used, and the readings integrated
    why                \* history: why the loop ended

monVars == <<mpc, loops, value, rc, last_tv, loaded>>
raplVars == <<msr, last_package, used, sum>>
histVars == <<exact, n, prev, raced>>
vars == <<wattsVars, server, count, scale, main, listener, running, now, cumulative_energy,
          resets, monVars, raplVars, histVars, reads, why>>
envVars == <<server, count, scale>>

Usb == server = "mserver"

Init ==
    /\ WattsInit
    /\ server \in Servers /\ count \in Counts
    \* rapl_read never assigns mm[0].units, so integrate reads what malloc left
    /\ scale \in (IF Usb THEN {1} ELSE {1, SimVolts})
    /\ main = "monitor" /\ listener = "serving"
    /\ mpc = "alloc" /\ running = 1 /\ loops = 0
    /\ value = 0 /\ rc = 0 /\ last_tv = 0 /\ now = 0
    /\ cumulative_energy = 0 /\ loaded = 0 /\ resets = 0
    /\ msr \in (IF server = "sensor_server" THEN {0, MsrMod - 1} ELSE {0})
    /\ last_package = 0
    /\ exact = 0 /\ n = 0 /\ prev = 0 /\ raced = FALSE
    /\ reads = 0 /\ used = 0 /\ sum = 0 /\ why = "none"

-----------------------------------------------------------------------------
(* monitor: up to the loop *)

Alloc ==
    /\ mpc = "alloc"
    /\ loops' = IF count > 0 THEN count - 1 ELSE 0
    /\ mpc' = "init"
    /\ UNCHANGED <<wattsVars, envVars, main, listener, running, now, cumulative_energy, resets,
                   value, rc, last_tv, loaded, raplVars, histVars, reads, why>>

\* meter_alloc_mms fails: monitor returns with running still set.
AllocFail ==
    /\ mpc = "alloc"
    /\ mpc' = "returned" /\ main' = "join" /\ why' = "alloc"
    /\ UNCHANGED <<wattsVars, envVars, listener, running, now, cumulative_energy, resets, loops,
                   value, rc, last_tv, loaded, raplVars, histVars, reads>>

\* The step that all servers take once their meter is up.
Begin ==
    /\ cumulative_energy' = 0
    /\ last_tv' = now /\ prev' = now
    /\ exact' = 0 /\ n' = 0 /\ raced' = FALSE
    /\ mpc' = "top"
    /\ UNCHANGED <<running, why, main>>

InitFailed ==
    /\ running' = 0 /\ main' = "join" /\ mpc' = "returned" /\ why' = "init"
    /\ UNCHANGED <<cumulative_energy, last_tv, histVars>>

\* wattsup_usb_meter_init has returned.
InitUsb ==
    /\ mpc = "init" /\ Usb
    /\ \/ wpc = "up" /\ Begin
       \/ wpc = "failed" /\ InitFailed
    /\ UNCHANGED <<wattsVars, envVars, listener, now, resets, loops, value, rc, loaded,
                   raplVars, reads>>

\* open_msr and read_msr: no device or no right to read it ends the process.
MsrFails ==
    /\ main' = "exited" /\ mpc' = "returned" /\ why' = "msr"
    /\ UNCHANGED <<running, cumulative_energy, last_tv, histVars>>

\* meter_init may fail, and so may the reads of rapl_init.
InitOther ==
    /\ mpc = "init" /\ ~Usb
    /\ \/ Begin
       \/ server = "mlogger" /\ InitFailed
       \/ server = "sensor_server" /\ MsrFails
    /\ UNCHANGED <<wattsVars, envVars, listener, now, resets, loops, value, rc, loaded,
                   raplVars, reads>>

-----------------------------------------------------------------------------
(* The loop: while (running && loops >= 0) *)

Top ==
    /\ mpc = "top"
    /\ IF running = 1 /\ loops >= 0
       THEN /\ reads < MaxReads /\ reads' = reads + 1
            /\ mpc' = "read" /\ why' = why
       ELSE /\ mpc' = "end" /\ reads' = reads
            /\ why' = IF why # "none" THEN why
                      ELSE IF loops < 0 THEN "count" ELSE "signal"
    /\ UNCHANGED <<wattsVars, envVars, main, listener, running, now, cumulative_energy, resets,
                   loops, value, rc, last_tv, loaded, raplVars, histVars>>

\* Mutant: whatever is not zero is integrated.
ResultNonzero(r, v) ==
    /\ rc' = r /\ value' = v
    /\ IF r = -1 THEN mpc' = "end" /\ loops' = -1 /\ why' = "meter"
       ELSE /\ mpc' = IF v # 0 THEN "time" ELSE "top"
            /\ UNCHANGED <<loops, why>>
    /\ UNCHANGED <<envVars, main, listener, running, now, cumulative_energy, resets, last_tv,
                   loaded, histVars, reads>>

\* What the loop does with the result of a read: -1 ends it, and a value that is
\* not above zero is dropped.
Result(r, v) ==
    /\ rc' = r /\ value' = v
    /\ IF r = -1 THEN mpc' = "end" /\ loops' = -1 /\ why' = "meter"
       ELSE /\ mpc' = IF v > 0 THEN "time" ELSE "top"
            /\ UNCHANGED <<loops, why>>
    /\ UNCHANGED <<envVars, main, listener, running, now, cumulative_energy, resets, last_tv,
                   loaded, histVars, reads>>

\* watts_up_parse refuses a record that is not data.
ReadUsb ==
    /\ mpc \in {"read", "again"} /\ Usb
    /\ Take
    /\ IF asyncBuffer.data THEN Result(0, asyncBuffer.w) ELSE Result(-1, 0)
    /\ UNCHANGED raplVars

\* "no data in buffers, or lock failed, try once more"
MissOnce ==
    /\ mpc = "read" /\ Usb /\ asyncValid = 0
    /\ mpc' = "again"
    /\ UNCHANGED <<wattsVars, envVars, main, listener, running, now, cumulative_energy, resets,
                   loops, value, rc, last_tv, loaded, raplVars, histVars, reads, why>>

\* Both attempts found nothing: "Missed 1 sample", and rc is returned without
\* having been assigned.
MissUsb ==
    /\ mpc = "again" /\ Usb /\ asyncValid = 0
    /\ \E r \in {-1, 0, 1} : Result(r, 0)
    /\ UNCHANGED <<wattsVars, raplVars>>

\* rapl_read: the difference of two reads of a counter that wraps, in joules,
\* used as if it were watts; it is negative where the counter wrapped.  The
\* first read is the whole counter, so used starts with that.
RaplRead ==
    /\ mpc = "read" /\ server = "sensor_server"
    /\ \E u \in MsrStep :
          LET package == (msr + u) % MsrMod IN
          /\ msr' = package
          /\ used' = IF reads = 1 THEN package ELSE used + u
          /\ last_package' = package
          /\ Result(0, 10 * (package - last_package))
    /\ UNCHANGED <<wattsVars, sum>>

RaplReadFails ==
    /\ mpc = "read" /\ server = "sensor_server"
    /\ MsrFails
    /\ UNCHANGED <<wattsVars, envVars, listener, now, resets, loops, value, rc, loaded,
                   raplVars, reads>>

\* meter_read on a serial port: an error of select (SIGINT is one), a timeout
\* that leaves 0 in mm->value, or what the meter's parse makes of a line.
MeterRead ==
    /\ mpc = "read" /\ server = "mlogger"
    /\ \/ Result(-1, 0)
       \/ Result(1, 0)
       \/ \E w \in Watts : Result(0, w)
    /\ UNCHANGED <<wattsVars, raplVars>>

\* gettimeofday and integrate up to the read of cumulative_energy.
LoadEnergy ==
    /\ mpc = "time"
    /\ loaded' = cumulative_energy
    /\ mpc' = "add"
    /\ UNCHANGED <<wattsVars, envVars, main, listener, running, now, cumulative_energy, resets,
                   loops, value, rc, last_tv, raplVars, histVars, reads, why>>

TimeFails ==
    /\ mpc = "time"
    /\ loops' = -1
    /\ why' = "clock"
    /\ mpc' = "top"
    /\ UNCHANGED <<wattsVars, envVars, main, listener, running, now, cumulative_energy, resets,
                   value, rc, last_tv, loaded, raplVars, histVars, reads>>

\* What an addition at v tenths of a watt does to the history.
Count(v) ==
    /\ exact' = exact + v * (now - prev)
    /\ n' = n + 1
    /\ prev' = now
    /\ sum' = IF server = "sensor_server" THEN sum + value ELSE sum
    /\ UNCHANGED <<raced, msr, last_package, used>>

\* Mutant: the end of the interval is not kept.
StoreEnergySame ==
    /\ mpc = "add"
    /\ cumulative_energy' = loaded + (value * scale * (now - last_tv)) \div 10
    /\ loops' = IF count > 0 THEN loops - 1 ELSE loops
    /\ mpc' = "top"
    /\ Count(value * scale)
    /\ UNCHANGED <<wattsVars, envVars, main, listener, running, now, resets, value, rc,
                   last_tv, loaded, reads, why>>

\* The rest of integrate, last_tv and loops.
StoreEnergy ==
    /\ mpc = "add"
    /\ cumulative_energy' = loaded + (value * scale * (now - last_tv)) \div 10
    /\ last_tv' = now
    /\ loops' = IF count > 0 THEN loops - 1 ELSE loops
    /\ mpc' = "top"
    /\ Count(value * scale)
    /\ UNCHANGED <<wattsVars, envVars, main, listener, running, now, resets, value, rc,
                   loaded, reads, why>>

\* Mutant: the listener is not told.
EndLoopSilent ==
    /\ mpc = "end"
    /\ mpc' = "close"
    /\ IF Usb THEN CloseBegin ELSE UNCHANGED wattsVars
    /\ UNCHANGED <<envVars, main, listener, running, now, cumulative_energy, resets, loops, value,
                   rc, last_tv, loaded, raplVars, histVars, reads, why>>

\* Behind the loop: running is cleared before the meter is closed.
EndLoop ==
    /\ mpc = "end"
    /\ running' = 0
    /\ mpc' = "close"
    /\ IF Usb THEN CloseBegin ELSE UNCHANGED wattsVars
    /\ UNCHANGED <<envVars, main, listener, now, cumulative_energy, resets, loops, value, rc,
                   last_tv, loaded, raplVars, histVars, reads, why>>

MonitorReturns ==
    /\ mpc = "close"
    /\ Usb => wpc = "closed"
    /\ mpc' = "returned" /\ main' = "join"
    /\ UNCHANGED <<wattsVars, envVars, listener, running, now, cumulative_energy, resets, loops,
                   value, rc, last_tv, loaded, raplVars, histVars, reads, why>>

Monitor == Alloc \/ AllocFail \/ Top \/ TimeFails \/ EndLoop \/ MonitorReturns

\* Each server has its own integrate, in the same words.
MserverIntegrate == server = "mserver" /\ (LoadEnergy \/ StoreEnergy)
SensorIntegrate == server = "sensor_server" /\ (LoadEnergy \/ StoreEnergy)
MloggerIntegrate == server = "mlogger" /\ (LoadEnergy \/ StoreEnergy)

watts_up_usb_meter_read == ReadUsb \/ MissOnce \/ MissUsb

MserverMonitor == server = "mserver" /\ (Monitor \/ MserverIntegrate \/ InitUsb \/ watts_up_usb_meter_read)
SensorMonitor == server = "sensor_server" /\ (Monitor \/ SensorIntegrate \/ InitOther \/ RaplRead \/ RaplReadFails)
MloggerMonitor == server = "mlogger" /\ (Monitor \/ MloggerIntegrate \/ InitOther \/ MeterRead)

-----------------------------------------------------------------------------
(* The driver, main, the listener, a client, SIGINT and the clock *)

serverVars == <<envVars, main, listener, running, now, cumulative_energy, resets, monVars,
                raplVars, histVars, reads, why>>

\* main is in wattsup_usb_meter_init or in the close.
DriverStep == Usb /\ mpc \in {"init", "close"} /\ Driver /\ UNCHANGED serverVars
ReaderStep == main # "exited" /\ Reader /\ UNCHANGED serverVars
MeterStep == main # "exited" /\ (Emit \/ Unplug) /\ UNCHANGED serverVars

ListenerEnds ==
    /\ running = 0 /\ listener = "serving"
    /\ listener' = "done"
    /\ UNCHANGED <<wattsVars, envVars, main, running, now, cumulative_energy, resets, monVars,
                   raplVars, histVars, reads, why>>

Join ==
    /\ main = "join" /\ listener = "done"
    /\ main' = "exited"
    /\ UNCHANGED <<wattsVars, envVars, listener, running, now, cumulative_energy, resets, monVars,
                   raplVars, histVars, reads, why>>

Main == ListenerEnds \/ Join
MserverMain == server = "mserver" /\ Main
SensorMain == server = "sensor_server" /\ Main
MloggerMain == server = "mlogger" /\ Main

\* client_req on NETMETER_CMD_RESET.
Reset ==
    /\ main # "exited" /\ resets < Resets
    /\ cumulative_energy' = 0
    /\ resets' = resets + 1
    /\ exact' = 0 /\ n' = 0
    /\ raced' = (mpc = "add")
    /\ UNCHANGED <<wattsVars, envVars, main, listener, running, now, monVars, raplVars, prev,
                   reads, why>>

signal_exit ==
    /\ main # "exited" /\ running = 1
    /\ running' = 0
    /\ UNCHANGED <<wattsVars, envVars, main, listener, now, cumulative_energy, resets, monVars,
                   raplVars, histVars, reads, why>>

\* Time passes where the loop waits: in a read.
Tick ==
    /\ mpc = "read" /\ now < Clock
    /\ now' = now + 1
    /\ UNCHANGED <<wattsVars, envVars, main, listener, running, cumulative_energy, resets,
                   monVars, raplVars, histVars, reads, why>>

Exited == main = "exited" /\ UNCHANGED vars

Next == \/ MserverMonitor \/ SensorMonitor \/ MloggerMonitor
        \/ DriverStep \/ ReaderStep \/ MeterStep
        \/ MserverMain \/ SensorMain \/ MloggerMain \/ Reset \/ signal_exit \/ Tick \/ Exited

Spec == Init /\ [][Next]_vars

\* The operating system runs the monitor, main and the listener; nothing is
\* assumed of the meter, of the clients or of the reader thread.
Fairness == /\ WF_vars(MserverMonitor \/ SensorMonitor \/ MloggerMonitor)
            /\ WF_vars(DriverStep)
            /\ WF_vars(ListenerEnds) /\ WF_vars(Join)

FairSpec == Spec /\ Fairness

-----------------------------------------------------------------------------
(* Properties *)

\* cumulative_energy is what was measured since the last RESET, less than a
\* joule per reading short of it: no interval is counted twice or left out.
\* The exception is a RESET between integrate's load and its store.
EnergyCounted ==
    ~raced => /\ 10 * cumulative_energy <= exact
              /\ exact <= 10 * cumulative_energy + 9 * n

\* What rapl_read has returned and integrate not yet added.
Pending == IF mpc \in {"time", "add"} THEN value ELSE 0

\* The package's energy is not integrated twice, although integrate drops the
\* negative difference of a wrap; and what is dropped is less than one turn of
\* the register for each turn that it made.  A failed gettimeofday loses its
\* reading and ends the loop.
RaplCounted ==
    (server = "sensor_server" /\ why # "clock") =>
        /\ sum + Pending <= 10 * used
        /\ 10 * used <= sum + Pending + 10 * ((used \div MsrMod) * (MsrMod - 1))

\* No record is delivered twice or out of order: what the loop takes is newer
\* than what it took before.
TakenOnce == [][(mpc \in {"read", "again"} /\ Usb /\ mpc' = "time") => taken' > taken]_vars

\* Once the loop is left, for whatever reason, or the meter did not come up,
\* the listener is told and the program ends, although nobody waits for the
\* reader thread, which may be in read when the port is closed.  (A failed
\* meter_alloc_mms returns without telling it.)
MonitorEndExits == (mpc \in {"end", "returned"} /\ why # "alloc") ~> (main = "exited")
=============================================================================
