------------------------------- MODULE WattsUp -------------------------------
(***************************************************************************)
(* The Watts Up USB driver, watts_up.c: wattsup_usb_meter_init sets the     *)
(* meter up and starts AsyncReadThread, which copies each record that the   *)
(* meter sends into asyncBuffer; ReadWattsUpUSB takes the latest one;       *)
(* watts_up_usb_meter_read_close ends it.  asyncBuffer and asyncValid are   *)
(* only touched between LockBuffers and UnlockBuffers, and nothing in there *)
(* waits, so each such section is one step.                                 *)
(*                                                                         *)
(* A record is [n, data, w]: its number, whether it starts with "#d," (the  *)
(* meter also sends replies to set-up commands) and the watts in tenths.    *)
(***************************************************************************)
EXTENDS Naturals, Sequences

CONSTANTS
    Watts,        \* what the meter may measure, in tenths of a watt
    AsyncCap,     \* asyncValid is set back beyond this (100000)
    AsyncLow,     \* to this (100)
    MaxRecords    \* bound: records the meter sends

ASSUME WattsUpAssumption ==
    /\ Watts \subseteq Nat
    /\ MaxRecords \in Nat
    /\ AsyncLow \in Nat \ {0} /\ AsyncCap \in Nat /\ AsyncLow <= AsyncCap

VARIABLES
    port,          \* m_fd: "closed" or "open"
    wpc,           \* the next step of init, or up, failed, closing, closed
    threadState,
    athread,       \* AsyncReadThread's place
    sBuffer,       \* the record the thread has read to its semicolon
    asyncBuffer, asyncValid,
    taken,         \* number of the record that the consumer took last
    talking,       \* the meter sends records
    wire,          \* records sent and not yet read
    sent           \* records sent so far

wattsVars == <<port, wpc, threadState, athread, sBuffer, asyncBuffer,
               asyncValid, taken, talking, wire, sent>>
readerVars == <<athread, sBuffer, asyncBuffer, asyncValid>>
meterVars == <<talking, wire, sent>>

Records == [n : Nat, data : BOOLEAN, w : Watts \cup {0}]
NoRecord == [n |-> 0, data |-> FALSE, w |-> 0]

WattsInit ==
    /\ port = "closed" /\ wpc = "off"
    /\ threadState = 0 /\ athread = "none"
    /\ sBuffer = NoRecord /\ asyncBuffer = NoRecord /\ asyncValid = 0
    /\ taken = 0
    /\ talking = FALSE /\ wire = <<>> /\ sent = 0

-----------------------------------------------------------------------------
(* The meter *)

Emit ==
    /\ talking /\ sent < MaxRecords
    /\ \E w \in Watts, d \in BOOLEAN :
          wire' = Append(wire, [n |-> sent + 1, data |-> d, w |-> w])
    /\ sent' = sent + 1
    /\ UNCHANGED <<port, wpc, threadState, readerVars, taken, talking>>

\* The meter falls silent for good (unplugged).
Unplug ==
    /\ talking /\ talking' = FALSE
    /\ UNCHANGED <<port, wpc, threadState, readerVars, taken, wire, sent>>

-----------------------------------------------------------------------------
(* wattsup_usb_meter_init *)

\* The port is opened and flushed; a closed descriptor is what a failure leaves.
Open ==
    /\ wpc = "off"
    /\ \/ port' = "open" /\ wpc' = "setup" /\ wire' = <<>>
       \/ wpc' = "failed" /\ UNCHANGED <<port, wire>>
    /\ UNCHANGED <<threadState, readerVars, taken, talking, sent>>

\* WriteSetupString or WriteAndReadSetup: the write of a command, or the read of
\* its answer, fails, and init returns with the port still open.
SetupFails == wpc' = "failed" /\ UNCHANGED talking

\* "#V,R", "#R,W", "#H,R" and its answer of at least 40 bytes, "#C,W" and
\* "#L,W,3,E,0,1".  The last one may start the meter's output.
Setup ==
    /\ wpc = "setup"
    /\ \/ SetupFails
       \/ wpc' = "create" /\ talking' \in BOOLEAN
    /\ UNCHANGED <<port, threadState, readerVars, taken, wire, sent>>

\* A thread that cannot be created closes the meter and fails.
CreateReader ==
    /\ wpc = "create"
    /\ threadState' = 1
    /\ \/ wpc' = "check" /\ athread' = "top"
       \/ wpc' = "abandon" /\ athread' = athread
    /\ UNCHANGED <<port, sBuffer, asyncBuffer, asyncValid, taken, meterVars>>

\* watts_up_usb_meter_read_close without a thread.
Abandon ==
    /\ wpc = "abandon"
    /\ threadState' = 0
    /\ port' = "closed" /\ wpc' = "failed"
    /\ talking' = FALSE
    /\ UNCHANGED <<readerVars, taken, wire, sent>>

\* Two seconds later a record must have been received.  The other command
\* format is tried once, and then init fails with the thread still running.
Check ==
    /\ wpc = "check"
    /\ \/ asyncValid > 0 /\ wpc' = "up" /\ talking' = talking
       \/ asyncValid = 0 /\ SetupFails
       \/ asyncValid = 0 /\ wpc' = "check2" /\ talking' \in BOOLEAN
    /\ UNCHANGED <<port, threadState, readerVars, taken, wire, sent>>

CheckAgain ==
    /\ wpc = "check2"
    /\ wpc' = IF asyncValid > 0 THEN "up" ELSE "failed"
    /\ UNCHANGED <<port, threadState, readerVars, taken, meterVars>>

-----------------------------------------------------------------------------
(* AsyncReadThread *)

ReaderTop ==
    /\ athread = "top"
    /\ athread' = IF threadState = 1 THEN "reading" ELSE "done"
    /\ UNCHANGED <<port, wpc, threadState, sBuffer, asyncBuffer, asyncValid, taken, meterVars>>

\* ReadSerialTerm and the search for a semicolon: the loop does not look at
\* threadState, and read takes all that is there, of which only the first
\* record counts.  A read that is under way when the port is closed may still
\* return; one that starts after that fails, and the loop tries it for ever.
ReadRecord ==
    /\ athread = "reading"
    /\ \E k \in 1..Len(wire) :
          /\ sBuffer' = Head(wire)
          /\ wire' = SubSeq(wire, k + 1, Len(wire))
    /\ athread' = "store"
    /\ UNCHANGED <<port, wpc, threadState, asyncBuffer, asyncValid, taken, talking, sent>>

\* Mutant: the counter is set back to nothing.
StoreRecordZero ==
    /\ athread = "store"
    /\ asyncBuffer' = sBuffer
    /\ asyncValid' = IF asyncValid + 1 > AsyncCap THEN 0 ELSE asyncValid + 1
    /\ athread' = "top"
    /\ UNCHANGED <<port, wpc, threadState, sBuffer, taken, meterVars>>

\* Under the lock; "avoid overflow when ptd is idle".
StoreRecord ==
    /\ athread = "store"
    /\ asyncBuffer' = sBuffer
    /\ asyncValid' = IF asyncValid + 1 > AsyncCap THEN AsyncLow ELSE asyncValid + 1
    /\ athread' = "top"
    /\ UNCHANGED <<port, wpc, threadState, sBuffer, taken, meterVars>>

Reader == ReaderTop \/ ReadRecord \/ StoreRecord

-----------------------------------------------------------------------------
(* watts_up_usb_meter_read_close *)

CloseBegin ==
    /\ threadState' = 0
    /\ wpc' = "closing"
    /\ UNCHANGED <<port, readerVars, taken, meterVars>>

\* Sleep(2000), the commands that are to stop the meter's output, more sleeps,
\* and the close, whatever the reader does: the time is meant to let it see
\* threadState, but nothing makes sure that it has.  A command may be lost.
CloseEnd ==
    /\ wpc = "closing"
    /\ port' = "closed" /\ wpc' = "closed"
    /\ talking' \in {talking, FALSE}
    /\ UNCHANGED <<threadState, readerVars, taken, wire, sent>>

Driver == Open \/ Setup \/ CreateReader \/ Abandon \/ Check \/ CheckAgain \/ CloseEnd

-----------------------------------------------------------------------------
(* ReadWattsUpUSB *)

\* Mutant: the record is left marked as valid.
TakeKeep ==
    /\ asyncValid > 0
    /\ taken' = asyncBuffer.n
    /\ UNCHANGED <<port, wpc, threadState, readerVars, meterVars>>

\* The copy under the lock.
Take ==
    /\ asyncValid > 0
    /\ taken' = asyncBuffer.n
    /\ asyncValid' = 0
    /\ UNCHANGED <<port, wpc, threadState, athread, sBuffer, asyncBuffer, meterVars>>

-----------------------------------------------------------------------------
(* Properties *)

\* A record that was stored and not yet taken is marked, however long the
\* consumer was idle: the set-back of asyncValid never hides it.
StoredIsMarked == asyncBuffer.n > taken => asyncValid > 0
=============================================================================
