------------------------- MODULE NIDAQmxEventHandler -------------------------
(***************************************************************************)
(* The measurement handler of the meter server                             *)
(* (src/src/nidaqmxeventhandler.cpp).  Two kinds of thread share one       *)
(* object and take no lock: the server thread runs startHandler,           *)
(* tagHandler and endHandler as messages arrive, and the NI-DAQmx driver   *)
(* runs EveryNCallback and DoneCallback on threads of its own while a task *)
(* is running.                                                             *)
(*                                                                         *)
(* The driver is external.  A call on a handle that names no live task     *)
(* returns an error code that the code ignores, so it changes nothing.     *)
(* The callbacks of one task do not overlap.  StopWaits says whether       *)
(* clearing a task waits for a callback that is already running: the code  *)
(* takes no lock of its own, so the report it writes last depends on it.   *)
(* A callback that stops and clears its own task is not waited for by      *)
(* these calls of its own; whether the driver lets them through while the  *)
(* server thread waits in its call on the same task is left open.          *)
(***************************************************************************)
EXTENDS Naturals, Sequences

CONSTANTS
    MaxStarts,      \* bound: sessions started on one connection
    MaxTags,        \* bound: tags received
    MaxReads,       \* bound: EveryN events that read the board
    MaxSamples,     \* samples one callback may read
    Disciplined,    \* callers do start, tags, end, as clientexample.cpp does
    StopWaits       \* the driver lets a running callback finish first

ASSUME HandlerAssumption ==
    /\ MaxStarts \in Nat \ {0}
    /\ MaxTags \in Nat
    /\ MaxReads \in Nat
    /\ MaxSamples \in Nat
    /\ Disciplined \in BOOLEAN
    /\ StopWaits \in BOOLEAN

VARIABLES
    timestamps,        \* the (tag, time) pairs received so far
    writer,            \* the lines written to the log file
    task,              \* driver: the state of the task of each start
    taskHandle,        \* the member of that name; 0 names no task
    totalSamplesRead,
    cb,                \* how far the EveryNCallback of each task is
    ending,            \* tasks whose DoneCallback is about to clear them
    samplesRead,       \* the samples such a callback holds
    starts,            \* starts so far; also the name of the newest task
    reads,             \* EveryN events so far (bound only)
    hpc                \* where the server thread is in the handler

handlerVars == <<timestamps, writer, task, taskHandle, totalSamplesRead,
                 cb, ending, samplesRead, starts, reads, hpc>>
callbackVars == <<cb, ending, samplesRead, reads>>
driverVars == <<task, callbackVars>>

Tasks == 1..MaxStarts
TaskStates == {"none", "created", "running", "stopped", "cleared"}
CallbackStates == {"idle", "entered", "read", "counted", "failed", "halted"}
busy == {t \in Tasks : cb[t] # "idle"} \cup ending
Stamp(tag, ts) == [tag |-> tag, ts |-> ts]
Line(kind, a, b) == [kind |-> kind, a |-> a, b |-> b]
Stamps == [tag : {"START", "TAG", "END"}, ts : Nat]
Lines == [kind : {"header", "reading", "stamp", "trailer"}, a : Nat, b : Nat]

HandlerInit ==
    /\ timestamps = <<>>
    /\ writer = <<>>
    /\ task = [t \in Tasks |-> "none"]
    /\ taskHandle = 0
    /\ totalSamplesRead = 0
    /\ cb = [t \in Tasks |-> "idle"]
    /\ ending = {}
    /\ samplesRead = [t \in Tasks |-> 0]
    /\ starts = 0
    /\ reads = 0
    /\ hpc = "ready"

-----------------------------------------------------------------------------
(* The server thread *)

\* startHandler: the header carries the time of the FIRST stamp, whatever it
\* is; the chain of driver calls may fail before the task exists, after it
\* exists, or not at all, and the caller is not told.
StartHandler(ts) ==
    /\ hpc = "ready"
    /\ starts < MaxStarts
    /\ timestamps' = Append(timestamps, Stamp("START", ts))
    /\ writer' = Append(writer, Line("header", timestamps'[1].ts, 0))
    /\ starts' = starts + 1
    /\ \E outcome \in {"none", "created", "running"} :
          /\ taskHandle' = IF outcome = "none" THEN 0 ELSE starts + 1
          /\ task' = [task EXCEPT ![starts + 1] = outcome]
    /\ UNCHANGED <<totalSamplesRead, callbackVars, hpc>>

TagHandler(ts) ==
    /\ hpc = "ready"
    /\ timestamps' = Append(timestamps, Stamp("TAG", ts))
    /\ UNCHANGED <<writer, taskHandle, totalSamplesRead, starts, hpc, driverVars>>

\* Mutant: the stop and clear calls are forgotten.
EndHandlerNoStop(ts) ==
    /\ hpc = "ready"
    /\ timestamps' = Append(timestamps, Stamp("END", ts))
    /\ hpc' = "dumping"
    /\ UNCHANGED <<writer, taskHandle, totalSamplesRead, starts, driverVars>>

\* endHandler in the order of its statements: stamp, DAQmxStopTask,
\* DAQmxClearTask, the timestamps, the totals.
EndHandler(ts) ==
    /\ hpc = "ready"
    /\ timestamps' = Append(timestamps, Stamp("END", ts))
    /\ hpc' = "stopping"
    /\ UNCHANGED <<writer, taskHandle, totalSamplesRead, starts, driverVars>>

\* DAQmxStopTask and DAQmxClearTask, by whichever thread: no effect on a task
\* that is not running, or that does not exist.
Stop(S) == task' = [t \in Tasks |-> IF t \in S /\ task[t] = "running"
                                    THEN "stopped" ELSE task[t]]
Clear(S) == task' = [t \in Tasks |-> IF t \in S /\ task[t] # "none"
                                     THEN "cleared" ELSE task[t]]

StopTask ==
    /\ hpc = "stopping"
    /\ Stop({taskHandle})
    /\ hpc' = "clearing"
    /\ UNCHANGED <<timestamps, writer, taskHandle, totalSamplesRead, starts, callbackVars>>

\* Mutant: the task is stopped and not cleared.
ClearTaskForgotten ==
    /\ hpc = "clearing"
    /\ StopWaits => taskHandle \notin busy
    /\ hpc' = "dumping"
    /\ UNCHANGED <<timestamps, writer, taskHandle, totalSamplesRead, starts, driverVars>>

ClearTask ==
    /\ hpc = "clearing"
    /\ StopWaits => taskHandle \notin busy
    /\ Clear({taskHandle})
    /\ hpc' = "dumping"
    /\ UNCHANGED <<timestamps, writer, taskHandle, totalSamplesRead, starts, callbackVars>>

DumpTimestamps ==
    /\ hpc = "dumping"
    /\ writer' = writer \o [i \in 1..Len(timestamps) |->
                               Line("stamp", timestamps[i].ts, 0)]
    /\ hpc' = "totals"
    /\ UNCHANGED <<timestamps, taskHandle, totalSamplesRead, starts, driverVars>>

WriteTotals ==
    /\ hpc = "totals"
    /\ writer' = Append(writer, Line("trailer", Len(timestamps), totalSamplesRead))
    /\ hpc' = "done"
    /\ UNCHANGED <<timestamps, taskHandle, totalSamplesRead, starts, driverVars>>

\* ~NIDAQmxEventHandler: the stream is closed and the process ends.
Destroy ==
    /\ hpc = "done"
    /\ hpc' = "closed"
    /\ UNCHANGED <<timestamps, writer, taskHandle, totalSamplesRead, starts, driverVars>>

-----------------------------------------------------------------------------
(* The driver's threads *)

At(t, from, to) == cb[t] = from /\ cb' = [cb EXCEPT ![t] = to]
serverVars == <<timestamps, taskHandle, starts, hpc>>

\* EveryNCallback: the driver calls it while the task runs.
EveryNCallback(t) ==
    /\ hpc # "closed"
    /\ task[t] = "running"
    /\ reads < MaxReads
    /\ At(t, "idle", "entered")
    /\ reads' = reads + 1
    /\ UNCHANGED <<serverVars, writer, task, totalSamplesRead, ending, samplesRead>>

\* DAQmxReadAnalogF64, which does not wait for samples.
EveryNRead(t, n) ==
    /\ hpc # "closed"
    /\ At(t, "entered", "read")
    /\ task[t] \in {"running", "stopped"}
    /\ samplesRead' = [samplesRead EXCEPT ![t] = n]
    /\ UNCHANGED <<serverVars, writer, task, totalSamplesRead, ending, reads>>

\* The same call fails, as it must when the task has been cleared meanwhile.
EveryNError(t) ==
    /\ hpc # "closed"
    /\ At(t, "entered", "failed")
    /\ UNCHANGED <<serverVars, writer, task, totalSamplesRead, ending, samplesRead, reads>>

\* Mutant: the total is assigned, not added to.
EveryNCountAssign(t) ==
    /\ hpc # "closed"
    /\ At(t, "read", "counted")
    /\ totalSamplesRead' = samplesRead[t]
    /\ UNCHANGED <<serverVars, writer, task, ending, samplesRead, reads>>

\* The running total; no samples add nothing.  The addition is not atomic: that
\* of another task's callback may overwrite it.
EveryNCount(t) ==
    /\ hpc # "closed"
    /\ At(t, "read", "counted")
    /\ totalSamplesRead' \in {totalSamplesRead + samplesRead[t]}
          \cup {totalSamplesRead : u \in {v \in Tasks \ {t} : cb[v] = "read"}}
    /\ UNCHANGED <<serverVars, writer, task, ending, samplesRead, reads>>

\* Mutant: the callback needs a lock that endHandler holds while it stops.
EveryNWriteLocked(t) ==
    /\ hpc = "ready"
    /\ At(t, "counted", "idle")
    /\ writer' = Append(writer, Line("reading", samplesRead[t], t))
    /\ UNCHANGED <<serverVars, task, totalSamplesRead, ending, samplesRead, reads>>

\* One line of readings, of no samples too.
EveryNWrite(t) ==
    /\ hpc # "closed"
    /\ At(t, "counted", "idle")
    /\ writer' = Append(writer, Line("reading", samplesRead[t], t))
    /\ UNCHANGED <<serverVars, task, totalSamplesRead, ending, samplesRead, reads>>

\* After a read that failed the callback stops its task, then clears it.
EveryNStop(t) ==
    /\ hpc # "closed"
    /\ At(t, "failed", "halted")
    /\ Stop({t})
    /\ UNCHANGED <<serverVars, writer, totalSamplesRead, ending, samplesRead, reads>>

EveryNClear(t) ==
    /\ hpc # "closed"
    /\ At(t, "halted", "idle")
    /\ Clear({t})
    /\ UNCHANGED <<serverVars, writer, totalSamplesRead, ending, samplesRead, reads>>

\* The board stops the task by an error and the driver calls DoneCallback, ...
DoneCallback(t) ==
    /\ hpc # "closed"
    /\ task[t] = "running"
    /\ StopWaits => t \notin busy
    /\ Stop({t})
    /\ ending' = ending \cup {t}
    /\ UNCHANGED <<serverVars, writer, totalSamplesRead, cb, samplesRead, reads>>

\* ... which clears the task.
DoneClear(t) ==
    /\ hpc # "closed"
    /\ t \in ending
    /\ Clear({t})
    /\ ending' = ending \ {t}
    /\ UNCHANGED <<serverVars, writer, totalSamplesRead, cb, samplesRead, reads>>

\* The steps of a callback that no other thread can hold up, and its calls on
\* its own task.
Proceeds(t) ==
    (\E n \in 0..MaxSamples : EveryNRead(t, n)) \/ EveryNError(t)
    \/ EveryNCount(t) \/ EveryNWrite(t)
OwnCall(t) == EveryNStop(t) \/ EveryNClear(t) \/ DoneClear(t)

Driver == \E t \in Tasks : EveryNCallback(t) \/ DoneCallback(t) \/ Proceeds(t) \/ OwnCall(t)

ServerThread == StopTask \/ ClearTask \/ DumpTimestamps \/ WriteTotals \/ Destroy

-----------------------------------------------------------------------------
(* The handler under any caller; a caller's clock gives each event its own  *)
(* time, in order.                                                          *)

Now == Len(timestamps) + 1
Tags == Len(timestamps) - starts

Call ==
    \/ (Disciplined => timestamps = <<>>) /\ StartHandler(Now)
    \/ (Disciplined => timestamps # <<>>) /\ Tags < MaxTags /\ TagHandler(Now)
    \/ (Disciplined => timestamps # <<>>) /\ EndHandler(Now)

Stopped == hpc = "closed" /\ UNCHANGED handlerVars

HandlerNext == Call \/ ServerThread \/ Driver \/ Stopped

HandlerSpec == HandlerInit /\ [][HandlerNext]_handlerVars

\* The server thread waits for the task of taskHandle to be cleared, and a
\* callback of the task is in a call that stops or clears it.
Crossed(t) ==
    /\ StopWaits
    /\ hpc = "clearing" /\ t = taskHandle
    /\ cb[t] \in {"failed", "halted"} \/ t \in ending

\* The server thread and the callbacks are run; a callback's call on its own
\* task returns unless the server thread is in its call on that task, when it
\* may never do so.  Nothing obliges a client to send more.
HandlerFairness ==
    /\ WF_handlerVars(ServerThread)
    /\ \A t \in Tasks : WF_handlerVars(Proceeds(t))
    /\ \A t \in Tasks : WF_handlerVars(~Crossed(t) /\ OwnCall(t))

FairHandlerSpec == HandlerSpec /\ HandlerFairness

-----------------------------------------------------------------------------
(* Properties *)

\* Types of the handler's members and of the driver's tasks.
HandlerTypeOK ==
    /\ timestamps \in Seq(Stamps)
    /\ writer \in Seq(Lines)
    /\ task \in [Tasks -> TaskStates]
    /\ taskHandle \in 0..MaxStarts
    /\ totalSamplesRead \in Nat
    /\ cb \in [Tasks -> CallbackStates]
    /\ ending \subseteq Tasks
    /\ samplesRead \in [Tasks -> 0..MaxSamples]
    /\ starts \in 0..MaxStarts
    /\ reads \in 0..MaxReads
    /\ hpc \in {"ready", "stopping", "clearing", "dumping", "totals", "done", "closed"}

Ended == hpc \in {"done", "closed"}

\* Once endHandler has returned, the file ends with the stamps of the whole
\* session in the order received, then totals that agree with the handler:
\* no callback has written into or after the report (endHandler, 99-113).
FinalReport ==
    Ended => LET n == Len(timestamps)
                 m == Len(writer)
             IN  /\ m > n
                 /\ writer[m] = Line("trailer", n, totalSamplesRead)
                 /\ \A i \in 1..n : writer[m - n - 1 + i] = Line("stamp", timestamps[i].ts, 0)

\* endHandler "performs meter shutdown, cleanup": when it has returned no
\* driver task is left alive and no callback is still running, whichever of
\* the start calls failed and whichever callback cleared the task first.
MeterShutDown ==
    Ended => /\ busy = {}
             /\ \A t \in Tasks : task[t] \in {"none", "cleared"}

\* The samples behind the lines of readings in w.
SamplesIn(w) ==
    LET sum[k \in 0..Len(w)] ==
            IF k = 0 THEN 0 ELSE sum[k - 1] + (IF w[k].kind = "reading" THEN w[k].a ELSE 0)
    IN  sum[Len(w)]

\* The TOTAL SAMPLES TAKEN of the report is the number of samples behind the
\* lines of readings above it (EveryNCallback 168-181, endHandler 112).
TotalMatchesReadings == Ended => SamplesIn(writer) = writer[Len(writer)].b

\* A session end that was received ends in a complete report and a closed file,
\* whichever callback is on its way to read, to write or to give up; only one
\* whose own stop or clear meets endHandler's (102, 191-192, 217), in a driver
\* that lets neither of the two go on, can keep it from there.
EndCompletes ==
    \/ <>[](\E t \in Tasks : Crossed(t))
    \/ (hpc = "stopping") ~> (hpc = "closed")
=============================================================================
