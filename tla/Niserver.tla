------------------------------ MODULE Niserver ------------------------------
(***************************************************************************)
(* The Windows meter server of the NI-DAQ device: start_nidaq_meter and the *)
(* driver callbacks of ContAcq-IntClk.c, and send_power and main of         *)
(* nidaqmx_server.c.  EveryNCallback publishes the average of each channel  *)
(* in nidaq_milli_powers under hMutex; client threads copy them under       *)
(* hMutex.  The connection table is in ConnectionTable.                     *)
(*                                                                         *)
(* The driver is external.  A call on a handle that names no live task      *)
(* returns an error that the code ignores; the callbacks of a task do not   *)
(* overlap; clearing a task waits for a callback that runs, and whether a   *)
(* callback's own stop or clear gets through while main waits like that is  *)
(* left open.                                                               *)
(*                                                                         *)
(* Two channels stand for the sixteen; a channel's power is the number of   *)
(* the acquisition that it was computed from, 0 before the first one.       *)
(***************************************************************************)
EXTENDS Naturals, Sequences

CONSTANTS
    Chans,       \* channels, published in order 1, 2, ...
    MaxAcq,      \* bound: acquisitions
    MaxSends     \* bound: POWER requests of the client

ASSUME NiAssumption == Chans \in Nat \ {0} /\ MaxAcq \in Nat /\ MaxSends \in Nat

VARIABLES
    running, main,     \* main: starting, loop, stop, clear, wait, exited
    task,              \* none, created, running, stopped, cleared
    cb, k,             \* EveryNCallback: its place, and the channel it publishes
    ending,            \* DoneCallback is about to clear the task
    acq,               \* acquisitions so far: the one the callback works on
    nidaq_milli_powers,
    hMutex,            \* its owner, or "free"
    cpc, pkg, sends,   \* send_power: its place, what it copied
    newest             \* history: the newest acquisition published when the copy began

cbVars == <<cb, k, ending, acq>>
sendVars == <<cpc, pkg, sends, newest>>
niVars == <<running, main, task, cbVars, nidaq_milli_powers, hMutex, sendVars>>

NiInit ==
    /\ running = 1 /\ main = "starting" /\ task = "none"
    /\ cb = "idle" /\ k = 1 /\ ending = FALSE /\ acq = 0
    /\ nidaq_milli_powers = [c \in 1..Chans |-> 0]
    /\ hMutex = "free"
    /\ cpc = "idle" /\ pkg = <<>> /\ sends = 0 /\ newest = 0

Up == main # "exited"

-----------------------------------------------------------------------------
(* start_nidaq_meter *)

\* DAQmxCreateTask, the channels, the clock, the two registrations and the
\* start; a failure goes to Error, where a task that exists is stopped.
StartTask ==
    /\ main = "starting"
    /\ \/ task' = "running" /\ main' = "loop"
       \/ task' = "created" /\ main' = "stop"
       \/ task' = "none" /\ main' = "wait"
    /\ UNCHANGED <<running, cbVars, nidaq_milli_powers, hMutex, sendVars>>

\* Mutant: only the end of the task ends the loop.
LoopEndsOnError ==
    /\ main = "loop" /\ task = "cleared"
    /\ main' = "stop"
    /\ UNCHANGED <<running, task, cbVars, nidaq_milli_powers, hMutex, sendVars>>

\* while (running): error is a local that nothing changes any more, so only
\* running ends the loop.
LoopEnds ==
    /\ main = "loop" /\ running = 0
    /\ main' = "stop"
    /\ UNCHANGED <<running, task, cbVars, nidaq_milli_powers, hMutex, sendVars>>

\* DAQmxStopTask and DAQmxClearTask, by whichever thread.
Halt == task' = IF task = "running" THEN "stopped" ELSE task
Clear == task' = IF task = "none" THEN "none" ELSE "cleared"

StopTask ==
    /\ main = "stop"
    /\ Halt
    /\ main' = "clear"
    /\ UNCHANGED <<running, cbVars, nidaq_milli_powers, hMutex, sendVars>>

\* Mutant: the task is left to the driver.
ClearTaskSkip ==
    /\ main = "clear"
    /\ main' = "wait"
    /\ UNCHANGED <<running, task, cbVars, nidaq_milli_powers, hMutex, sendVars>>

\* The driver lets a callback that runs return before a task is cleared.
ClearTask ==
    /\ main = "clear" /\ cb = "idle" /\ ~ending
    /\ Clear
    /\ main' = "wait"
    /\ UNCHANGED <<running, cbVars, nidaq_milli_powers, hMutex, sendVars>>

\* WaitForSingleObject(thread, 0) does not wait: main returns and the process
\* ends with whatever its other threads were doing.
MainReturns ==
    /\ main = "wait"
    /\ main' = "exited"
    /\ UNCHANGED <<running, task, cbVars, nidaq_milli_powers, hMutex, sendVars>>

\* SIGINT, or the listener's select fails.
Stop ==
    /\ Up /\ running = 1
    /\ running' = 0
    /\ UNCHANGED <<main, task, cbVars, nidaq_milli_powers, hMutex, sendVars>>

-----------------------------------------------------------------------------
(* EveryNCallback and DoneCallback, called by the driver *)

Place(from, to) == Up /\ cb = from /\ cb' = to
elseVars == <<running, main, nidaq_milli_powers, hMutex, sendVars>>

\* The driver calls it while the task runs.
EveryNCallback ==
    /\ Place("idle", "entered")
    /\ task = "running" /\ acq < MaxAcq
    /\ UNCHANGED <<task, k, ending, acq, elseVars>>

\* The read returned samples, which are averaged and converted ...
EveryNRead ==
    /\ Place("entered", "lock")
    /\ task \in {"running", "stopped"}
    /\ acq' = acq + 1 /\ k' = 1
    /\ UNCHANGED <<task, ending, elseVars>>

\* ... or none, and the callback returns ...
EveryNEmpty ==
    /\ Place("entered", "idle")
    /\ task \in {"running", "stopped"}
    /\ UNCHANGED <<task, k, ending, acq, elseVars>>

\* ... or it failed, as it must when the task has been cleared.
EveryNError ==
    /\ Place("entered", "failed")
    /\ UNCHANGED <<task, k, ending, acq, elseVars>>

\* After a failed read the callback stops its task, then clears it; nobody sets
\* running.
EveryNStop ==
    /\ Place("failed", "halted")
    /\ Halt
    /\ UNCHANGED <<k, ending, acq, elseVars>>

EveryNClear ==
    /\ Place("halted", "idle")
    /\ Clear
    /\ UNCHANGED <<k, ending, acq, elseVars>>

\* An error ends the task and the driver calls DoneCallback, ...
DoneCallback ==
    /\ Up /\ task = "running" /\ cb = "idle" /\ ~ending
    /\ Halt
    /\ ending' = TRUE
    /\ UNCHANGED <<cb, k, acq, elseVars>>

\* ... which clears it.
DoneClear ==
    /\ Up /\ ending
    /\ Clear
    /\ ending' = FALSE
    /\ UNCHANGED <<cb, k, acq, elseVars>>

\* Mutant: nidaq_diff_volt_to_power without the mutex.
PublishLockNone ==
    /\ Up /\ cb = "lock"
    /\ cb' = "publish"
    /\ UNCHANGED <<running, main, task, k, ending, acq, hMutex, nidaq_milli_powers, sendVars>>

PublishLock ==
    /\ Up /\ cb = "lock" /\ hMutex = "free"
    /\ hMutex' = "callback" /\ cb' = "publish"
    /\ UNCHANGED <<running, main, task, k, ending, acq, nidaq_milli_powers, sendVars>>

\* One channel at a time; the last one releases hMutex.
Publish ==
    /\ Up /\ cb = "publish"
    /\ nidaq_milli_powers' = [nidaq_milli_powers EXCEPT ![k] = acq]
    /\ IF k = Chans
       THEN cb' = "idle" /\ k' = 1 /\ hMutex' = (IF hMutex = "callback" THEN "free" ELSE hMutex)
       ELSE k' = k + 1 /\ UNCHANGED <<cb, hMutex>>
    /\ UNCHANGED <<running, main, task, ending, acq, sendVars>>

-----------------------------------------------------------------------------
(* send_power in a client thread *)

SendLock ==
    /\ Up /\ cpc = "idle" /\ sends < MaxSends /\ hMutex = "free"
    /\ hMutex' = "client" /\ cpc' = "copy" /\ pkg' = <<>>
    /\ sends' = sends + 1 /\ newest' = nidaq_milli_powers[1]
    /\ UNCHANGED <<running, main, task, cbVars, nidaq_milli_powers>>

\* memcpy, a channel at a time.
SendCopy ==
    /\ Up /\ cpc = "copy"
    /\ pkg' = Append(pkg, nidaq_milli_powers[Len(pkg) + 1])
    /\ IF Len(pkg) + 1 = Chans
       THEN cpc' = "send" /\ hMutex' = "free" ELSE UNCHANGED <<cpc, hMutex>>
    /\ UNCHANGED <<running, main, task, cbVars, nidaq_milli_powers, sends, newest>>

\* The wait for the socket may fail and the reply is dropped; a client that
\* does not read makes send wait for ever, with hMutex free by then.
SendPkg ==
    /\ Up /\ cpc = "send"
    /\ cpc' = "idle"
    /\ UNCHANGED <<running, main, task, cbVars, nidaq_milli_powers, hMutex, pkg, sends, newest>>

Reads == EveryNRead \/ EveryNEmpty \/ EveryNError
OwnCall == EveryNStop \/ EveryNClear \/ DoneClear
Callback == EveryNCallback \/ DoneCallback \/ Reads \/ PublishLock \/ Publish \/ OwnCall
MainThread == StartTask \/ LoopEnds \/ StopTask \/ ClearTask \/ MainReturns
ClientThread == SendLock \/ SendCopy \/ SendPkg
NiNext == MainThread \/ Stop \/ Callback \/ ClientThread

NiSpec == NiInit /\ [][NiNext]_niVars

\* main waits for the task to be cleared while a callback of it is in, or on its
\* way to, a call that stops or clears it.
Crossed == main = "clear" /\ (cb \in {"failed", "halted"} \/ ending)

\* The operating system runs main and the driver's thread, and a thread that is
\* copying; a callback's call on its own task returns unless main is in its call
\* on that task; nothing makes a client read its reply.
NiFairness ==
    /\ WF_niVars(MainThread) /\ WF_niVars(SendCopy)
    /\ WF_niVars(Reads) /\ SF_niVars(PublishLock) /\ WF_niVars(Publish)
    /\ WF_niVars(~Crossed /\ OwnCall)

NiFairSpec == NiSpec /\ NiFairness

-----------------------------------------------------------------------------
(* Properties *)

\* Types.
NiTypeOK ==
    /\ running \in 0..1
    /\ main \in {"starting", "loop", "stop", "clear", "wait", "exited"}
    /\ task \in {"none", "created", "running", "stopped", "cleared"}
    /\ cb \in {"idle", "entered", "lock", "publish", "failed", "halted"}
    /\ ending \in BOOLEAN /\ k \in 1..Chans /\ acq \in 0..MaxAcq
    /\ nidaq_milli_powers \in [1..Chans -> 0..MaxAcq]
    /\ hMutex \in {"free", "callback", "client"}
    /\ cpc \in {"idle", "copy", "send"} /\ pkg \in Seq(0..MaxAcq)
    /\ sends \in Nat /\ newest \in 0..MaxAcq

\* A reply holds the channels of one acquisition, the newest one published when
\* the copy began, although they are published and copied one by one.
WholeReading == cpc = "send" => \A i \in 1..Len(pkg) : pkg[i] = newest

\* When start_nidaq_meter has returned no task is left that could call back,
\* whichever of its calls failed and whichever callback cleared the task first.
NoTaskLeft ==
    main \in {"wait", "exited"} => task \in {"none", "cleared"} /\ cb = "idle" /\ ~ending

\* The server ends once running is cleared, although a client may never read its
\* reply and a callback may be reading, publishing or giving up; only a callback
\* whose own stop or clear meets main's, in a driver that lets neither of the two
\* go on, can keep it from there (123-124, 214-215, 232).
StopEnds == <>[]Crossed \/ ((running = 0) ~> (main = "exited"))
=============================================================================
