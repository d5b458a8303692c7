--------------------------- MODULE Session_proofs ---------------------------
(***************************************************************************)
(* Proofs about the handler of one session, for any number of tags, driver *)
(* events and samples: every sample is counted once, the report that       *)
(* endHandler leaves is whole, last in the file and agrees with the lines  *)
(* above it, and the meter is shut down.  All need a caller that starts    *)
(* once (Disciplined), and all but the first a driver that lets a running  *)
(* callback finish before it clears the task (StopWaits): the code has no  *)
(* lock to replace them.                                                   *)
(*                                                                         *)
(* Then about a session over TCP, for any number of starts, tags, driver   *)
(* events and samples, any configuration files, and with either process    *)
(* killed at any moment: the handshake holds back the client until its     *)
(* start is in the file; the handler sees the calls that HandlerSpec       *)
(* allows, so that what is proved of it holds in every session; and the    *)
(* session implements SessionRecord.                                       *)
(***************************************************************************)
EXTENDS Session, TLAPS, SequenceTheorems, FiniteSetTheorems, WellFoundedInduction

-----------------------------------------------------------------------------
(* The handler: the invariant *)

\* Only the task that taskHandle names was ever created, and none before the
\* first stamp; a callback that runs is one of a task that was.
OneTask ==
    /\ \A t \in Tasks : task[t] # "none" => t = taskHandle
    /\ timestamps = <<>> => starts = 0 /\ \A t \in Tasks : task[t] = "none"
    /\ \A t \in Tasks : cb[t] # "idle" => task[t] # "none"

\* A task with a callback that runs is not cleared, and EveryNCallback and
\* DoneCallback do not run at once for it.
BusyAlive ==
    /\ \A t \in busy : task[t] \in {"running", "stopped"}
    /\ \A t \in ending : task[t] = "stopped" /\ cb[t] = "idle"

Reporting == hpc \in {"dumping", "totals", "done", "closed"}

\* From the moment the report is being written no callback runs and none can
\* start.
Silent == Reporting => /\ busy = {}
                       /\ \A t \in Tasks : task[t] \in {"none", "cleared"}

\* Between the stamps and the totals the file ends with the stamps.
StampsLast ==
    hpc = "totals" =>
        /\ Len(writer) >= Len(timestamps)
        /\ \A i \in 1..Len(timestamps) :
              writer[Len(writer) - Len(timestamps) + i] = Line("stamp", timestamps[i].ts, 0)

HandlerInv == HandlerTypeOK /\ OneTask /\ BusyAlive /\ Silent /\ StampsLast /\ FinalReport

-----------------------------------------------------------------------------
\* The steps of the driver's threads that neither count nor write.
Quick(t) ==
    \/ EveryNCallback(t) \/ (\E n \in 0..MaxSamples : EveryNRead(t, n)) \/ EveryNError(t)
    \/ EveryNStop(t) \/ EveryNClear(t) \/ DoneCallback(t) \/ DoneClear(t)

\* A step is a call of the server, a later part of endHandler, a callback of
\* the driver, or changes nothing.
LEMMA HandlerCases ==
    ASSUME [HandlerNext]_handlerVars,
           NEW G,
           (Disciplined => timestamps = <<>>) /\ StartHandler(Now) => G,
           (Disciplined => timestamps # <<>>) /\ TagHandler(Now) => G,
           (Disciplined => timestamps # <<>>) /\ EndHandler(Now) => G,
           StopTask => G, ClearTask => G, DumpTimestamps => G, WriteTotals => G,
           Destroy => G,
           \A t \in Tasks : Quick(t) => G,
           \A t \in Tasks : EveryNCount(t) => G,
           \A t \in Tasks : EveryNWrite(t) => G,
           UNCHANGED handlerVars => G
    PROVE  G
BY DEF HandlerNext, Call, ServerThread, Driver, Proceeds, OwnCall, Quick, Stopped

\* What such a step leaves alone.
LEMMA QuickFacts ==
    ASSUME NEW t \in Tasks, Quick(t)
    PROVE  /\ hpc # "closed"
           /\ UNCHANGED <<timestamps, taskHandle, starts, hpc, writer, totalSamplesRead>>
BY DEF Quick, EveryNCallback, EveryNRead, EveryNError, EveryNStop, EveryNClear, DoneCallback,
       DoneClear, serverVars

\* The types hold initially and every step of either thread keeps them.
LEMMA HandlerTypes ==
    /\ HandlerInit => HandlerTypeOK
    /\ HandlerTypeOK /\ [HandlerNext]_handlerVars => HandlerTypeOK'
<1>1. HandlerInit => HandlerTypeOK
    BY HandlerAssumption DEF HandlerInit, HandlerTypeOK, Tasks, TaskStates, CallbackStates
<1>2. ASSUME HandlerTypeOK, [HandlerNext]_handlerVars PROVE HandlerTypeOK'
    <2> USE HandlerAssumption DEF HandlerTypeOK, Tasks, TaskStates, CallbackStates,
                                  callbackVars
    <2>0. Now \in Nat
        BY <1>2 DEF Now
    <2>1. ASSUME StartHandler(Now) PROVE HandlerTypeOK'
        <3>1. Stamp("START", Now) \in Stamps
            BY <2>0 DEF Stamp, Stamps
        <3>2. timestamps' \in Seq(Stamps) /\ Len(timestamps') > 0
            BY <1>2, <2>1, <3>1 DEF StartHandler
        <3>3. timestamps'[1] \in Stamps
            BY <3>2
        <3>4. Line("header", timestamps'[1].ts, 0) \in Lines
            BY <3>3 DEF Stamps, Line, Lines
        <3>5. writer' \in Seq(Lines)
            BY <1>2, <2>1, <3>4 DEF StartHandler
        <3>6. starts + 1 \in 1..MaxStarts
            BY <1>2, <2>1 DEF StartHandler
        <3>7. starts' \in 0..MaxStarts /\ taskHandle' \in 0..MaxStarts
            BY <2>1, <3>6 DEF StartHandler
        <3>8. task' \in [Tasks -> TaskStates]
            BY <1>2, <2>1 DEF StartHandler
        <3>. QED
            BY <1>2, <2>1, <3>2, <3>5, <3>7, <3>8 DEF StartHandler
    <2>2. ASSUME TagHandler(Now) PROVE HandlerTypeOK'
        <3>1. Stamp("TAG", Now) \in Stamps
            BY <2>0 DEF Stamp, Stamps
        <3>. QED
            BY <1>2, <2>2, <3>1 DEF TagHandler, driverVars
    <2>3. ASSUME EndHandler(Now) PROVE HandlerTypeOK'
        <3>1. Stamp("END", Now) \in Stamps
            BY <2>0 DEF Stamp, Stamps
        <3>. QED
            BY <1>2, <2>3, <3>1 DEF EndHandler, driverVars
    <2>4. ASSUME StopTask PROVE HandlerTypeOK'
        BY <1>2, <2>4 DEF StopTask, Stop
    <2>5. ASSUME ClearTask PROVE HandlerTypeOK'
        BY <1>2, <2>5 DEF ClearTask, Clear
    <2>6. ASSUME DumpTimestamps PROVE HandlerTypeOK'
        <3> DEFINE dump == [i \in 1..Len(timestamps) |-> Line("stamp", timestamps[i].ts, 0)]
        <3>1. \A i \in 1..Len(timestamps) : timestamps[i] \in Stamps
            BY <1>2
        <3>2. \A i \in 1..Len(timestamps) : Line("stamp", timestamps[i].ts, 0) \in Lines
            BY <3>1 DEF Stamps, Line, Lines
        <3>3. dump \in Seq(Lines)
            BY <1>2, <3>2
        <3>4. writer' = writer \o dump
            BY <2>6 DEF DumpTimestamps
        <3> HIDE DEF dump
        <3>5. writer' \in Seq(Lines)
            BY <1>2, <3>3, <3>4
        <3>. QED
            BY <1>2, <2>6, <3>5 DEF DumpTimestamps, driverVars
    <2>7. ASSUME WriteTotals PROVE HandlerTypeOK'
        <3>1. Line("trailer", Len(timestamps), totalSamplesRead) \in Lines
            BY <1>2 DEF Line, Lines
        <3>. QED
            BY <1>2, <2>7, <3>1 DEF WriteTotals, driverVars
    <2>8. ASSUME Destroy PROVE HandlerTypeOK'
        BY <1>2, <2>8 DEF Destroy, driverVars
    <2>9. ASSUME NEW t \in Tasks, Quick(t) PROVE HandlerTypeOK'
        <3> USE DEF At, Stop, Clear, serverVars
        <3>1. CASE EveryNCallback(t)
            BY <1>2, <3>1 DEF EveryNCallback
        <3>2. CASE \E n \in 0..MaxSamples : EveryNRead(t, n)
            BY <1>2, <3>2 DEF EveryNRead
        <3>3. CASE EveryNError(t)
            BY <1>2, <3>3 DEF EveryNError
        <3>4. CASE EveryNStop(t)
            BY <1>2, <3>4 DEF EveryNStop
        <3>5. CASE EveryNClear(t)
            BY <1>2, <3>5 DEF EveryNClear
        <3>6. CASE DoneCallback(t)
            BY <1>2, <3>6 DEF DoneCallback
        <3>7. CASE DoneClear(t)
            BY <1>2, <3>7 DEF DoneClear
        <3>. QED
            BY <2>9, <3>1, <3>2, <3>3, <3>4, <3>5, <3>6, <3>7 DEF Quick
    <2>10. ASSUME NEW t \in Tasks, EveryNCount(t) PROVE HandlerTypeOK'
        BY <1>2, <2>10 DEF EveryNCount, At, serverVars
    <2>11. ASSUME NEW t \in Tasks, EveryNWrite(t) PROVE HandlerTypeOK'
        <3>1. Line("reading", samplesRead[t], t) \in Lines
            BY <1>2, <2>11 DEF Line, Lines
        <3>. QED
            BY <1>2, <2>11, <3>1 DEF EveryNWrite, At, serverVars
    <2>13. ASSUME UNCHANGED handlerVars PROVE HandlerTypeOK'
        BY <1>2, <2>13 DEF handlerVars
    <2> HIDE DEF HandlerTypeOK, Tasks
    <2>. QED
        BY <1>2, <2>1, <2>2, <2>3, <2>4, <2>5, <2>6, <2>7, <2>8, <2>9, <2>10, <2>11,
           <2>13, HandlerCases
<1>. QED
    BY <1>1, <1>2

-----------------------------------------------------------------------------
(* One task, and silence while the report is written *)

Quietness == OneTask /\ BusyAlive /\ Silent

\* A caller that starts once never has a second task, nor a callback of one.
LEMMA OneTaskStep ==
    ASSUME Disciplined, HandlerTypeOK, OneTask, [HandlerNext]_handlerVars
    PROVE  OneTask'
<1> USE DEF OneTask
<1>0. /\ task \in [Tasks -> TaskStates] /\ cb \in [Tasks -> CallbackStates]
      /\ timestamps \in Seq(Stamps)
    BY DEF HandlerTypeOK
<1>1. ASSUME timestamps = <<>>, StartHandler(Now) PROVE OneTask'
    <2>1. starts = 0 /\ \A t \in Tasks : task[t] = "none" /\ cb[t] = "idle"
        BY <1>1
    <2>2. PICK outcome \in {"none", "created", "running"} :
              /\ taskHandle' = IF outcome = "none" THEN 0 ELSE starts + 1
              /\ task' = [task EXCEPT ![starts + 1] = outcome]
        BY <1>1 DEF StartHandler
    <2>3. timestamps' # <<>> /\ cb' = cb
        BY <1>0, <1>1 DEF StartHandler, callbackVars
    <2>4. \A t \in Tasks : task'[t] # "none" => t = taskHandle'
        BY <1>0, <2>1, <2>2
    <2>. QED
        BY <2>1, <2>3, <2>4
<1>2. ASSUME TagHandler(Now) \/ EndHandler(Now) PROVE OneTask'
    <2>1. timestamps' # <<>>
        BY <1>0, <1>2 DEF TagHandler, EndHandler
    <2>. QED
        BY <1>2, <2>1 DEF TagHandler, EndHandler, driverVars, callbackVars
<1>3. ASSUME StopTask \/ ClearTask PROVE OneTask'
    BY <1>0, <1>3 DEF StopTask, ClearTask, Stop, Clear, callbackVars
<1>4. ASSUME DumpTimestamps \/ WriteTotals \/ Destroy PROVE OneTask'
    BY <1>4 DEF DumpTimestamps, WriteTotals, Destroy, driverVars, callbackVars
<1>5. ASSUME NEW t \in Tasks, Quick(t) PROVE OneTask'
    <2>1. UNCHANGED <<timestamps, taskHandle, starts>>
        BY <1>5, QuickFacts
    <2>2. \A u \in Tasks : task'[u] = "none" <=> task[u] = "none"
        BY <1>0, <1>5 DEF Quick, EveryNCallback, EveryNRead, EveryNError, EveryNStop,
           EveryNClear, DoneCallback, DoneClear, Stop, Clear
    <2>3. \A u \in Tasks : cb'[u] # "idle" => cb[u] # "idle" \/ task[u] # "none"
        BY <1>0, <1>5 DEF Quick, EveryNCallback, EveryNRead, EveryNError, EveryNStop,
           EveryNClear, DoneCallback, DoneClear, At
    <2>. QED
        BY <2>1, <2>2, <2>3
<1>6. ASSUME NEW t \in Tasks, EveryNCount(t) \/ EveryNWrite(t) PROVE OneTask'
    BY <1>0, <1>6 DEF EveryNCount, EveryNWrite, At, serverVars
<1>7. ASSUME UNCHANGED handlerVars PROVE OneTask'
    BY <1>7 DEF handlerVars
<1> HIDE DEF OneTask
<1>. QED
    BY <1>1, <1>2, <1>3, <1>4, <1>5, <1>6, <1>7, HandlerCases

\* No step clears a task under a running callback, or lets a callback run while
\* the report is written.
LEMMA QuietnessStep ==
    ASSUME Disciplined, StopWaits, HandlerTypeOK, Quietness, [HandlerNext]_handlerVars
    PROVE  Quietness'
<1> DEFINE Q == BusyAlive /\ Silent
<1> SUFFICES Q'
    BY OneTaskStep DEF Quietness
<1> USE DEF Quietness, BusyAlive, Silent, Reporting, busy
<1>0. /\ ending \subseteq Tasks /\ busy \subseteq Tasks
      /\ task \in [Tasks -> TaskStates] /\ cb \in [Tasks -> CallbackStates]
    BY DEF HandlerTypeOK
<1>1. ASSUME timestamps = <<>>, StartHandler(Now) PROVE Q'
    <2>1. \A t \in Tasks : task[t] = "none"
        BY <1>1 DEF OneTask
    <2>2. (\A t \in Tasks : cb[t] = "idle") /\ ending = {}
        BY <1>0, <2>1
    <2>. QED
        BY <1>1, <2>2 DEF StartHandler, callbackVars
<1>2. ASSUME TagHandler(Now) \/ EndHandler(Now) PROVE Q'
    BY <1>2 DEF TagHandler, EndHandler, driverVars, callbackVars
<1>3. ASSUME StopTask PROVE Q'
    BY <1>0, <1>3 DEF StopTask, Stop, callbackVars
<1>4. ASSUME ClearTask PROVE Q'
    <2>1. \A t \in Tasks : task'[t] = IF t = taskHandle /\ task[t] # "none"
                                      THEN "cleared" ELSE task[t]
        BY <1>4 DEF ClearTask, Clear
    <2>2. busy = {}
        BY <1>0, <1>4 DEF ClearTask, OneTask
    <2>. QED
        BY <1>4, <2>1, <2>2 DEF ClearTask, callbackVars, OneTask
<1>5. ASSUME DumpTimestamps \/ WriteTotals \/ Destroy PROVE Q'
    BY <1>5 DEF DumpTimestamps, WriteTotals, Destroy, driverVars, callbackVars
<1>6. ASSUME NEW t \in Tasks, Quick(t) PROVE Q'
    <2>0. ~Reporting /\ hpc' = hpc
        BY <1>6, QuickFacts DEF Quick, EveryNCallback, EveryNRead, EveryNError, EveryNStop,
           EveryNClear, DoneCallback, DoneClear, At
    <2> USE DEF At, Stop, Clear
    <2>1. CASE EveryNCallback(t)
        BY <1>0, <2>0, <2>1 DEF EveryNCallback
    <2>2. CASE (\E n \in 0..MaxSamples : EveryNRead(t, n)) \/ EveryNError(t)
        BY <1>0, <2>0, <2>2 DEF EveryNRead, EveryNError
    <2>3. CASE EveryNStop(t)
        BY <1>0, <2>0, <2>3 DEF EveryNStop
    <2>4. CASE EveryNClear(t)
        BY <1>0, <2>0, <2>4 DEF EveryNClear
    <2>5. CASE DoneCallback(t)
        BY <1>0, <2>0, <2>5 DEF DoneCallback
    <2>6. CASE DoneClear(t)
        BY <1>0, <2>0, <2>6 DEF DoneClear
    <2>. QED
        BY <1>6, <2>1, <2>2, <2>3, <2>4, <2>5, <2>6 DEF Quick
<1>7. ASSUME NEW t \in Tasks, EveryNCount(t) \/ EveryNWrite(t) PROVE Q'
    BY <1>0, <1>7 DEF EveryNCount, EveryNWrite, At, serverVars
<1>8. ASSUME UNCHANGED handlerVars PROVE Q'
    BY <1>8 DEF handlerVars
<1> HIDE DEF Q
<1>. QED
    BY <1>1, <1>2, <1>3, <1>4, <1>5, <1>6, <1>7, <1>8, HandlerCases

-----------------------------------------------------------------------------
(* The report *)

Report == StampsLast /\ FinalReport

\* A step that is not the writing of the report leaves it as it is: it changes
\* neither the file nor the stamps, or it happens before the report.
LEMMA ReportKept ==
    ASSUME Report,
           \/ hpc' \notin {"totals", "done", "closed"}
           \/ /\ UNCHANGED <<writer, timestamps, totalSamplesRead>>
              /\ hpc' = hpc \/ (hpc = "done" /\ hpc' = "closed")
    PROVE  Report'
BY DEF Report, StampsLast, FinalReport, Ended

\* The stamps are appended in order behind whatever the callbacks wrote, and
\* the totals behind the stamps.
LEMMA ReportStep ==
    ASSUME HandlerTypeOK, Quietness, Report, [HandlerNext]_handlerVars
    PROVE  Report'
<1>0. timestamps \in Seq(Stamps) /\ writer \in Seq(Lines)
    BY DEF HandlerTypeOK
<1>1. StartHandler(Now) => Report'
    BY ReportKept DEF StartHandler
<1>2. TagHandler(Now) => Report'
    BY ReportKept DEF TagHandler
<1>3. EndHandler(Now) => Report'
    BY ReportKept DEF EndHandler
<1>4. StopTask => Report'
    BY ReportKept DEF StopTask
<1>5. ClearTask => Report'
    BY ReportKept DEF ClearTask
<1>6. ASSUME DumpTimestamps PROVE Report'
    <2> DEFINE dump == [i \in 1..Len(timestamps) |-> Line("stamp", timestamps[i].ts, 0)]
    <2>1. writer' = writer \o dump /\ timestamps' = timestamps /\ hpc' = "totals"
        BY <1>6 DEF DumpTimestamps
    <2>2. dump \in Seq(Lines) /\ Len(dump) = Len(timestamps)
        <3>1. \A i \in 1..Len(timestamps) : timestamps[i] \in Stamps
            BY <1>0
        <3>2. \A i \in 1..Len(timestamps) : Line("stamp", timestamps[i].ts, 0) \in Lines
            BY <3>1 DEF Stamps, Line, Lines
        <3>. QED
            BY <1>0, <3>2
    <2>3. \A i \in 1..Len(timestamps) : dump[i] = Line("stamp", timestamps[i].ts, 0)
        OBVIOUS
    <2> HIDE DEF dump
    <2>4. /\ Len(writer \o dump) = Len(writer) + Len(timestamps)
          /\ \A i \in 1..Len(timestamps) : (writer \o dump)[Len(writer) + i] = dump[i]
        BY <1>0, <2>2
    <2>5. Len(writer) \in Nat /\ Len(timestamps) \in Nat
        BY <1>0
    <2>6. StampsLast'
        BY <2>1, <2>3, <2>4, <2>5 DEF StampsLast
    <2>. QED
        BY <2>1, <2>6 DEF Report, FinalReport, Ended
<1>7. ASSUME WriteTotals PROVE Report'
    <2> DEFINE n == Len(timestamps)
               m == Len(writer)
               last == Line("trailer", n, totalSamplesRead)
               stamp(i) == Line("stamp", timestamps[i].ts, 0)
    <2>1. /\ writer' = Append(writer, last)
          /\ UNCHANGED <<timestamps, totalSamplesRead>>
          /\ hpc = "totals" /\ hpc' = "done"
        BY <1>7 DEF WriteTotals
    <2>2. n \in Nat /\ m \in Nat
        BY <1>0
    <2>3. m >= n /\ \A i \in 1..n : writer[m - n + i] = stamp(i)
        BY <2>1 DEF Report, StampsLast
    <2> HIDE DEF last, stamp
    <2>4. /\ Len(writer') = m + 1 /\ writer'[m + 1] = last
          /\ \A j \in 1..m : writer'[j] = writer[j]
        BY <1>0, <2>1
    <2> HIDE DEF n, m
    <2>5. \A i \in 1..n : m - n + i \in 1..m /\ (m + 1) - n - 1 + i = m - n + i
        BY <2>2, <2>3
    <2>6. \A i \in 1..n : writer'[(m + 1) - n - 1 + i] = stamp(i)
        BY <2>3, <2>4, <2>5
    <2>7. m + 1 > n
        BY <2>2, <2>3
    <2>8. FinalReport'
        BY <2>1, <2>4, <2>6, <2>7 DEF FinalReport, n, m, last, stamp
    <2>. QED
        BY <2>1, <2>8 DEF Report, StampsLast
<1>8. Destroy => Report'
    BY ReportKept DEF Destroy
<1>9. \A t \in Tasks : Quick(t) => Report'
    BY QuickFacts, ReportKept
<1>10. \A t \in Tasks : EveryNCount(t) => Report'
    BY ReportKept DEF EveryNCount, At, serverVars, Quietness, Silent, Reporting, busy
<1>11. \A t \in Tasks : EveryNWrite(t) => Report'
    BY ReportKept DEF EveryNWrite, At, serverVars, Quietness, Silent, Reporting, busy
<1>13. UNCHANGED handlerVars => Report'
    BY ReportKept DEF handlerVars
<1>. QED
    BY <1>1, <1>2, <1>3, <1>4, <1>5, <1>6, <1>7, <1>8, <1>9, <1>10, <1>11, <1>13,
       HandlerCases

-----------------------------------------------------------------------------
\* HandlerInv holds throughout, if the caller starts once and the driver waits
\* for a running callback before it clears the task.
THEOREM HandlerSafety == Disciplined /\ StopWaits => (HandlerSpec => []HandlerInv)
<1> SUFFICES ASSUME Disciplined, StopWaits PROVE HandlerSpec => []HandlerInv
    OBVIOUS
<1>1. HandlerInit => HandlerInv
    <2> SUFFICES ASSUME HandlerInit PROVE HandlerInv
        OBVIOUS
    <2>1. HandlerTypeOK
        BY HandlerTypes
    <2>. QED
        BY <2>1 DEF HandlerInit, HandlerInv, OneTask, BusyAlive, Silent, Reporting,
                    StampsLast, FinalReport, Ended, busy
<1>2. HandlerInv /\ [HandlerNext]_handlerVars => HandlerInv'
    BY HandlerTypes, QuietnessStep, ReportStep DEF HandlerInv, Quietness, Report
<1>. QED
    BY <1>1, <1>2, PTL DEF HandlerSpec

\* The types of the handler's members and the driver's tasks, whoever calls and
\* whatever the driver does.
THEOREM HandlerTypeCorrect == HandlerSpec => []HandlerTypeOK
<1>1. HandlerInit => HandlerTypeOK
    BY HandlerTypes
<1>2. HandlerTypeOK /\ [HandlerNext]_handlerVars => HandlerTypeOK'
    BY HandlerTypes
<1>. QED
    BY <1>1, <1>2, PTL DEF HandlerSpec

\* Once endHandler has returned the file ends with the whole report: no
\* callback of the driver wrote into it or behind it.
THEOREM FinalReportHolds == Disciplined /\ StopWaits => (HandlerSpec => []FinalReport)
<1>1. HandlerInv => FinalReport
    BY DEF HandlerInv
<1>. QED
    BY <1>1, HandlerSafety, PTL

\* Once endHandler has returned no task of the driver is alive and no callback
\* is running, whichever call failed and whoever cleared the task first.
THEOREM MeterShutDownHolds == Disciplined /\ StopWaits => (HandlerSpec => []MeterShutDown)
<1>1. HandlerInv => MeterShutDown
    BY DEF HandlerInv, Silent, Reporting, MeterShutDown, Ended
<1>. QED
    BY <1>1, HandlerSafety, PTL

-----------------------------------------------------------------------------
(* The totals *)

\* A set that holds 0 and with each number its successor holds every number.
LEMMA SetInduction ==
    ASSUME NEW S, 0 \in S, \A n \in Nat : n \in S => n + 1 \in S
    PROVE  Nat \subseteq S
<1> DEFINE T == Nat \ S
           Rel == OpToRel(<, Nat)
<1> SUFFICES ASSUME T # {} PROVE FALSE
    OBVIOUS
<1>1. IsWellFoundedOn(Rel, Nat)
    BY NatLessThanWellFounded
<1>2. T \subseteq Nat
    OBVIOUS
<1>3. PICK x \in T : \A y \in T : ~(<<y, x>> \in Rel)
  <2> HIDE DEF Rel, T
  <2> QED
      BY <1>1, <1>2, WFMin
<1>4. x \in Nat /\ x # 0 /\ x - 1 \in Nat /\ x - 1 < x /\ (x - 1) + 1 = x
    OBVIOUS
<1>5. <<x - 1, x>> \in Rel
    BY <1>4 DEF OpToRel
<1>6. x - 1 \in S
    BY <1>3, <1>4, <1>5
<1> QED
    BY <1>4, <1>6

\* The samples behind one line, and the running sum of them up to n.
Behind(l) == IF l.kind = "reading" THEN l.a ELSE 0
IsSum(f, w, n) == f = [k \in 0..n |-> IF k = 0 THEN 0 ELSE f[k - 1] + Behind(w[k])]

\* The recursion of SamplesIn defines a function.
LEMMA SumExists == ASSUME NEW w, NEW m \in Nat PROVE \E f : IsSum(f, w, m)
<1> DEFINE S == {n \in Nat : \E f : IsSum(f, w, n)}
<1>1. 0 \in S
  <2>1. IsSum([k \in 0..0 |-> 0], w, 0)
      BY DEF IsSum
  <2> QED
      BY <2>1
<1>2. ASSUME NEW n \in Nat, n \in S PROVE n + 1 \in S
  <2>1. PICK f : IsSum(f, w, n)
      BY <1>2
  <2> DEFINE g == [k \in 0..n + 1 |-> IF k = n + 1 THEN f[n] + Behind(w[n + 1]) ELSE f[k]]
  <2>2. ASSUME NEW k \in 0..n + 1
        PROVE  g[k] = IF k = 0 THEN 0 ELSE g[k - 1] + Behind(w[k])
    <3>1. CASE k = n + 1
      <4>1. k - 1 = n /\ k - 1 \in 0..n + 1 /\ k - 1 # n + 1 /\ k # 0
          BY <3>1
      <4> QED
          BY <3>1, <4>1
    <3>2. CASE k # n + 1
      <4>1. k \in 0..n
          BY <3>2
      <4>2. g[k] = f[k] /\ f[k] = IF k = 0 THEN 0 ELSE f[k - 1] + Behind(w[k])
          BY <2>1, <3>2, <4>1 DEF IsSum
      <4>3. k # 0 => g[k - 1] = f[k - 1]
          BY <4>1
      <4> QED
          BY <4>2, <4>3
    <3> QED
        BY <3>1, <3>2
  <2>3. IsSum(g, w, n + 1)
    <3>1. g = [k \in 0..n + 1 |-> g[k]]
        OBVIOUS
    <3> HIDE DEF g
    <3> QED
        BY <2>2, <3>1 DEF IsSum
  <2> HIDE DEF g
  <2> QED
      BY <2>3
<1> HIDE DEF S
<1>3. m \in S
    BY <1>1, <1>2, SetInduction
<1> QED
    BY <1>3 DEF S

LEMMA SumIs ==
    ASSUME NEW w \in Seq(Lines)
    PROVE  \E f : IsSum(f, w, Len(w)) /\ SamplesIn(w) = f[Len(w)]
<1> DEFINE sum == CHOOSE f : IsSum(f, w, Len(w))
<1>1. IsSum(sum, w, Len(w))
    BY SumExists, LenProperties
<1>2. SamplesIn(w) = sum[Len(w)]
    BY DEF SamplesIn, IsSum, Behind
<1> QED
    BY <1>1, <1>2

\* Running sums of files that agree up to n agree up to n.
LEMMA SumAgrees ==
    ASSUME NEW f, NEW g, NEW v, NEW w, NEW a \in Nat, NEW b \in Nat, NEW n \in Nat,
           IsSum(f, v, a), IsSum(g, w, b), n <= a, n <= b, \A k \in 1..n : v[k] = w[k]
    PROVE  f[n] = g[n]
<1> DEFINE S == {k \in Nat : k <= n => f[k] = g[k]}
<1>1. 0 \in S
    BY DEF IsSum
<1>2. ASSUME NEW k \in Nat, k \in S PROVE k + 1 \in S
  <2> SUFFICES ASSUME k + 1 <= n PROVE f[k + 1] = g[k + 1]
      OBVIOUS
  <2>1. /\ k + 1 \in 0..a /\ k + 1 \in 0..b /\ k + 1 \in 1..n /\ k + 1 # 0
        /\ (k + 1) - 1 = k /\ k <= n
      OBVIOUS
  <2>2. f[k + 1] = f[k] + Behind(v[k + 1]) /\ g[k + 1] = g[k] + Behind(w[k + 1])
      BY <2>1 DEF IsSum
  <2> QED
      BY <1>2, <2>1, <2>2
<1> HIDE DEF S
<1>3. n \in S
    BY <1>1, <1>2, SetInduction
<1> QED
    BY <1>3 DEF S

\* Lines that are no readings add nothing.
LEMMA SamplesKept ==
    ASSUME NEW w \in Seq(Lines), NEW v \in Seq(Lines), Len(w) <= Len(v),
           \A k \in 1..Len(w) : v[k] = w[k],
           \A k \in (Len(w) + 1)..Len(v) : v[k].kind # "reading",
           SamplesIn(w) \in Nat
    PROVE  SamplesIn(v) = SamplesIn(w)
<1>0. Len(w) \in Nat /\ Len(v) \in Nat
    BY LenProperties
<1>1. PICK f : IsSum(f, w, Len(w)) /\ SamplesIn(w) = f[Len(w)]
    BY SumIs
<1>2. PICK g : IsSum(g, v, Len(v)) /\ SamplesIn(v) = g[Len(v)]
    BY SumIs
<1>3. g[Len(w)] = f[Len(w)]
    BY <1>0, <1>1, <1>2, SumAgrees
<1> DEFINE S == {d \in Nat : Len(w) + d <= Len(v) => g[Len(w) + d] = SamplesIn(w)}
<1>4. 0 \in S
    BY <1>0, <1>1, <1>3
<1>5. ASSUME NEW d \in Nat, d \in S PROVE d + 1 \in S
  <2> SUFFICES ASSUME Len(w) + (d + 1) <= Len(v) PROVE g[Len(w) + (d + 1)] = SamplesIn(w)
      OBVIOUS
  <2> DEFINE k == Len(w) + (d + 1)
  <2>1. /\ k \in 0..Len(v) /\ k # 0 /\ k \in (Len(w) + 1)..Len(v)
        /\ k - 1 = Len(w) + d /\ Len(w) + d <= Len(v)
      BY <1>0
  <2>2. g[k] = g[k - 1] + Behind(v[k]) /\ Behind(v[k]) = 0
      BY <1>2, <2>1 DEF IsSum, Behind
  <2> QED
      BY <1>5, <2>1, <2>2
<1>6. Len(v) - Len(w) \in S
  <2> HIDE DEF S
  <2>1. Len(v) - Len(w) \in Nat
      BY <1>0
  <2> QED
      BY <1>4, <1>5, <2>1, SetInduction
<1>7. Len(w) + (Len(v) - Len(w)) = Len(v)
    BY <1>0
<1> QED
    BY <1>0, <1>2, <1>6, <1>7

\* A line of readings adds its samples.
LEMMA SamplesAdded ==
    ASSUME NEW w \in Seq(Lines), NEW e \in Lines
    PROVE  SamplesIn(Append(w, e)) = SamplesIn(w) + Behind(e)
<1> DEFINE v == Append(w, e)
<1>0. /\ Len(w) \in Nat /\ v \in Seq(Lines) /\ Len(v) = Len(w) + 1 /\ v[Len(w) + 1] = e
      /\ \A k \in 1..Len(w) : v[k] = w[k]
    BY LenProperties, AppendProperties
<1> HIDE DEF v
<1>1. PICK f : IsSum(f, w, Len(w)) /\ SamplesIn(w) = f[Len(w)]
    BY SumIs
<1>2. PICK g : IsSum(g, v, Len(v)) /\ SamplesIn(v) = g[Len(v)]
    BY <1>0, SumIs
<1>3. g[Len(w)] = f[Len(w)]
    BY <1>0, <1>1, <1>2, SumAgrees
<1>4. Len(w) + 1 \in 0..Len(v) /\ Len(w) + 1 # 0 /\ (Len(w) + 1) - 1 = Len(w)
    BY <1>0
<1>5. g[Len(w) + 1] = g[Len(w)] + Behind(v[Len(w) + 1])
    BY <1>2, <1>4 DEF IsSum
<1> QED
    BY <1>0, <1>1, <1>2, <1>3, <1>5 DEF v

\* The samples that a callback has counted and not yet written a line for.
Unwritten ==
    IF taskHandle \in Tasks /\ cb[taskHandle] = "counted" THEN samplesRead[taskHandle] ELSE 0

\* The running total is the sum of the samples behind the lines of the file and
\* of those the next line is for.
SamplesCounted == totalSamplesRead = SamplesIn(writer) + Unwritten

CountInv == OneTask /\ SamplesIn(writer) \in Nat /\ SamplesCounted

LEMMA SamplesStep ==
    ASSUME Disciplined, HandlerTypeOK, CountInv, [HandlerNext]_handlerVars
    PROVE  CountInv'
<1> DEFINE C == SamplesIn(writer) \in Nat /\ SamplesCounted
<1> SUFFICES C'
    BY OneTaskStep DEF CountInv
<1>0. /\ timestamps \in Seq(Stamps) /\ writer \in Seq(Lines) /\ totalSamplesRead \in Nat
      /\ SamplesIn(writer) \in Nat /\ Len(timestamps) \in Nat /\ Len(writer) \in Nat
      /\ cb \in [Tasks -> CallbackStates] /\ samplesRead \in [Tasks -> 0..MaxSamples]
      /\ SamplesCounted /\ OneTask
    BY LenProperties DEF HandlerTypeOK, CountInv
<1>a. Unwritten \in Nat /\ \A t \in Tasks : samplesRead[t] \in Nat
    BY <1>0, HandlerAssumption DEF Unwritten
<1>1. ASSUME UNCHANGED <<writer, totalSamplesRead>>, Unwritten' = Unwritten PROVE C'
    BY <1>0, <1>1 DEF SamplesCounted
<1>2. ASSUME NEW e, writer' = Append(writer, e), e.kind # "reading", e \in Lines,
             totalSamplesRead' = totalSamplesRead, Unwritten' = Unwritten
      PROVE  C'
  <2>1. SamplesIn(writer') = SamplesIn(writer) + Behind(e)
      BY <1>0, <1>2, SamplesAdded
  <2>2. Behind(e) = 0
      BY <1>2 DEF Behind
  <2> QED
      BY <1>0, <1>2, <2>1, <2>2 DEF SamplesCounted
<1>3. ASSUME timestamps = <<>>, StartHandler(Now) PROVE C'
  <2>1. timestamps' = Append(timestamps, Stamp("START", Now)) /\ Now \in Nat
      BY <1>0, <1>3 DEF StartHandler, Now
  <2>2. Stamp("START", Now) \in Stamps
      BY <2>1 DEF Stamp, Stamps
  <2>3. timestamps' \in Seq(Stamps) /\ Len(timestamps') >= 1
      BY <1>0, <2>1, <2>2, AppendProperties
  <2>4. timestamps'[1] \in Stamps
      BY <2>3, ElementOfSeq
  <2>5. Line("header", timestamps'[1].ts, 0) \in Lines
        /\ Line("header", timestamps'[1].ts, 0).kind # "reading"
      BY <2>4 DEF Stamps, Line, Lines
  <2>6. \A t \in Tasks : cb[t] = "idle"
      BY <1>0, <1>3 DEF OneTask
  <2>7. Unwritten = 0 /\ Unwritten' = 0
      BY <1>3, <2>6 DEF Unwritten, StartHandler, callbackVars
  <2> QED
      BY <1>2, <1>3, <2>5, <2>7 DEF StartHandler
<1>b. ASSUME UNCHANGED <<taskHandle, cb, samplesRead>> PROVE Unwritten' = Unwritten
    BY <1>b DEF Unwritten
<1>4. ASSUME DumpTimestamps PROVE C'
  <2> DEFINE d == [i \in 1..Len(timestamps) |-> Line("stamp", timestamps[i].ts, 0)]
  <2>1. \A i \in 1..Len(timestamps) : Line("stamp", timestamps[i].ts, 0) \in Lines
    <3> TAKE i \in 1..Len(timestamps)
    <3>1. timestamps[i] \in Stamps
        BY <1>0, ElementOfSeq
    <3> QED
        BY <3>1 DEF Stamps, Line, Lines
  <2>2. d \in Seq(Lines) /\ Len(d) = Len(timestamps)
      BY <1>0, <2>1
  <2>3. \A i \in 1..Len(d) : d[i].kind # "reading"
      BY <2>2 DEF Line
  <2>4. writer' = writer \o d /\ totalSamplesRead' = totalSamplesRead
        /\ UNCHANGED <<taskHandle, cb, samplesRead>>
      BY <1>4 DEF DumpTimestamps, driverVars, callbackVars
  <2> HIDE DEF d
  <2>5. /\ writer' \in Seq(Lines) /\ Len(writer') = Len(writer) + Len(d) /\ Len(d) \in Nat
        /\ \A i \in 1..(Len(writer) + Len(d)) :
              writer'[i] = IF i <= Len(writer) THEN writer[i] ELSE d[i - Len(writer)]
      BY <1>0, <2>2, <2>4, ConcatProperties, LenProperties
  <2>6. \A k \in 1..Len(writer) : writer'[k] = writer[k]
      BY <1>0, <2>5
  <2>7. \A k \in (Len(writer) + 1)..Len(writer') : writer'[k].kind # "reading"
    <3> TAKE k \in (Len(writer) + 1)..Len(writer')
    <3>1. k - Len(writer) \in 1..Len(d) /\ writer'[k] = d[k - Len(writer)]
        BY <1>0, <2>5
    <3> QED
        BY <2>3, <3>1
  <2>8. SamplesIn(writer') = SamplesIn(writer)
    <3>1. writer \in Seq(Lines) /\ SamplesIn(writer) \in Nat
        BY <1>0
    <3>2. writer' \in Seq(Lines) /\ Len(writer) <= Len(writer')
        BY <1>0, <2>5
    <3> QED
        BY <3>1, <3>2, <2>6, <2>7, SamplesKept
  <2> QED
      BY <1>0, <1>b, <2>4, <2>8 DEF SamplesCounted
<1>5. ASSUME WriteTotals PROVE C'
  <2>1. Line("trailer", Len(timestamps), totalSamplesRead) \in Lines
        /\ Line("trailer", Len(timestamps), totalSamplesRead).kind # "reading"
      BY <1>0 DEF Line, Lines
  <2> QED
      BY <1>2, <1>5, <1>b, <2>1 DEF WriteTotals, driverVars, callbackVars
<1>6. ASSUME NEW t \in Tasks, cb[t] # "idle" PROVE t = taskHandle /\ taskHandle \in Tasks
    BY <1>0, <1>6 DEF OneTask
<1>7. ASSUME NEW t \in Tasks, EveryNCount(t) PROVE C'
  <2>1. \A u \in Tasks \ {t} : cb[u] # "read"
      BY <1>6, <1>7 DEF EveryNCount, At
  <2>2. totalSamplesRead' = totalSamplesRead + samplesRead[t]
      BY <1>7, <2>1 DEF EveryNCount
  <2>3. t = taskHandle /\ taskHandle \in Tasks
      BY <1>6, <1>7 DEF EveryNCount, At
  <2>4. Unwritten = 0 /\ Unwritten' = samplesRead[t]
      BY <1>0, <1>7, <2>3 DEF EveryNCount, At, serverVars, Unwritten
  <2>5. writer' = writer
      BY <1>7 DEF EveryNCount
  <2> QED
      BY <1>0, <1>a, <2>2, <2>4, <2>5 DEF SamplesCounted
<1>8. ASSUME NEW t \in Tasks, EveryNWrite(t) PROVE C'
  <2> DEFINE e == Line("reading", samplesRead[t], t)
  <2>1. samplesRead[t] \in Nat /\ t \in Nat
      BY <1>a, HandlerAssumption DEF Tasks
  <2>2. e \in Lines /\ Behind(e) = samplesRead[t]
      BY <2>1 DEF Line, Lines, Behind
  <2>3. writer' = Append(writer, e) /\ totalSamplesRead' = totalSamplesRead
      BY <1>8 DEF EveryNWrite
  <2> HIDE DEF e
  <2>4. SamplesIn(writer') = SamplesIn(writer) + Behind(e)
      BY <1>0, <2>2, <2>3, SamplesAdded
  <2>5. t = taskHandle /\ taskHandle \in Tasks
      BY <1>6, <1>8 DEF EveryNWrite, At
  <2>6. Unwritten = samplesRead[t] /\ Unwritten' = 0
      BY <1>0, <1>8, <2>5 DEF EveryNWrite, At, serverVars, Unwritten
  <2> QED
      BY <1>0, <2>1, <2>2, <2>3, <2>4, <2>6 DEF SamplesCounted
<1>9. ASSUME NEW t \in Tasks, Quick(t) PROVE C'
  <2>1. UNCHANGED <<taskHandle, writer, totalSamplesRead>>
      BY <1>9, QuickFacts
  <2>2. \A u \in Tasks : /\ cb'[u] = "counted" <=> cb[u] = "counted"
                         /\ cb[u] = "counted" => samplesRead'[u] = samplesRead[u]
      BY <1>0, <1>9 DEF Quick, EveryNCallback, EveryNRead, EveryNError, EveryNStop,
         EveryNClear, DoneCallback, DoneClear, At, serverVars
  <2>3. Unwritten' = Unwritten
      BY <2>1, <2>2 DEF Unwritten
  <2> QED
      BY <1>1, <2>1, <2>3
<1>10. StopTask \/ ClearTask \/ Destroy => C'
    BY <1>1, <1>b DEF StopTask, ClearTask, Destroy, driverVars, callbackVars
<1>11. TagHandler(Now) \/ EndHandler(Now) => C'
    BY <1>1, <1>b DEF TagHandler, EndHandler, driverVars, callbackVars
<1>12. UNCHANGED handlerVars => C'
    BY <1>1, <1>b DEF handlerVars
<1> HIDE DEF C
<1> QED
    BY <1>3, <1>4, <1>5, <1>7, <1>8, <1>9, <1>10, <1>11, <1>12, HandlerCases

\* The count is right throughout.
LEMMA CountHolds == Disciplined => (HandlerSpec => []CountInv)
<1> SUFFICES ASSUME Disciplined PROVE HandlerSpec => []CountInv
    OBVIOUS
<1>1. HandlerInit => CountInv
  <2> SUFFICES ASSUME HandlerInit PROVE CountInv
      OBVIOUS
  <2>1. writer = <<>> /\ totalSamplesRead = 0 /\ <<>> \in Seq(Lines) /\ Len(<<>>) = 0
      BY EmptySeq DEF HandlerInit
  <2>2. PICK f : IsSum(f, writer, 0) /\ SamplesIn(writer) = f[0]
      BY <2>1, SumIs
  <2>3. f[0] = 0
      BY <2>2 DEF IsSum
  <2>4. Unwritten = 0 /\ OneTask
      BY DEF HandlerInit, Unwritten, OneTask
  <2> QED
      BY <2>1, <2>2, <2>3, <2>4 DEF SamplesCounted, CountInv
<1>2. HandlerTypeOK /\ CountInv /\ [HandlerNext]_handlerVars => CountInv'
    BY SamplesStep
<1> QED
    BY <1>1, <1>2, HandlerTypeCorrect, PTL DEF HandlerSpec

\* No sample is lost or counted twice by a caller that starts once, whatever the
\* driver does: the running total is that of the lines of readings, and between
\* the two statements of a callback (168-171, 181) it is ahead of them by the
\* samples this callback is about to write.
THEOREM EverySampleCounted == Disciplined => (HandlerSpec => []SamplesCounted)
<1>1. CountInv => SamplesCounted
    BY DEF CountInv
<1> QED
    BY <1>1, CountHolds, PTL

\* TOTAL SAMPLES TAKEN of a finished report is the number of samples behind
\* the lines of readings above it.
THEOREM TotalMatchesReadingsHolds ==
    Disciplined /\ StopWaits => (HandlerSpec => []TotalMatchesReadings)
<1>1. HandlerInv /\ CountInv => TotalMatchesReadings
  <2> SUFFICES ASSUME HandlerInv, CountInv, Ended
               PROVE  SamplesIn(writer) = writer[Len(writer)].b
      BY DEF TotalMatchesReadings
  <2>1. writer[Len(writer)] = Line("trailer", Len(timestamps), totalSamplesRead)
      BY DEF HandlerInv, FinalReport
  <2>2. Unwritten = 0
      BY DEF HandlerInv, Silent, Reporting, Ended, busy, Unwritten
  <2> QED
      BY <2>1, <2>2 DEF Line, SamplesCounted, CountInv
<1> QED
    BY <1>1, CountHolds, HandlerSafety, PTL

-----------------------------------------------------------------------------
(* The session: the invariant *)

Got == Len(timestamps)

\* The elements of s up to n whose tag is tag.
Tagged(s, n, tag) == {i \in 1..n : s[i].tag = tag}
Num(n, tag) == Cardinality(Tagged(sent, n, tag))

SessionTypes ==
    /\ HandlerTypeOK
    /\ sent \in Seq(Stamps) /\ c2s \in Seq(Stamps) /\ s2c \in Nat

\* What the handler has and what is on the way is what was sent, in order; the
\* client's clock numbers it.
LinkInv ==
    /\ Len(sent) = Got + Len(c2s)
    /\ \A i \in 1..Got : timestamps[i] = sent[i]
    /\ \A i \in 1..Len(c2s) : c2s[i] = sent[Got + i]
    /\ \A i \in 1..Len(sent) : sent[i].ts = i

Calling == cpc \in {"connect", "ready", "await"}

\* The order in which the client makes its calls.
ClientInv ==
    /\ cpc = "connect" => sent = <<>>
    /\ Calling => Len(sent) = Count("START") + Count("TAG")
    /\ Calling => \A i \in 1..Len(sent) : sent[i].tag # "END"
    /\ cpc = "await" => sent # <<>> /\ sent[Len(sent)].tag = "START"
    /\ Disciplined => \A i \in 1..Len(sent) : sent[i].tag = "START" <=> i = 1
    /\ Count("START") <= MaxStarts /\ Count("TAG") <= MaxTags

\* What the handler has counted and written, seen from what it received.
ServerInv ==
    /\ starts = Num(Got, "START") /\ Cardinality(Headers) = starts
    /\ hpc = "ready" => Got = starts + Num(Got, "TAG")
    /\ hpc # "ready" => Got > 0 /\ timestamps[Got].tag = "END"

Pending == {i \in (Got + 1)..Len(sent) : sent[i].tag = "START"}

\* The handshake: of a start that the client waits for, one of the message,
\* the server's debt and the reply exists; of others none.
HandshakeInv ==
    ~ServerGone =>
        /\ cpc \in {"connect", "ready", "ended"} => Pending = {} /\ s2c = 0 /\ spc # "reply"
        /\ cpc = "await" =>
              \/ Pending = {Len(sent)} /\ s2c = 0 /\ spc # "reply"
              \/ Pending = {} /\ s2c = 0 /\ spc = "reply"
              \/ Pending = {} /\ s2c = 1 /\ spc # "reply"

\* The stamps in the file are those of the record, in one piece, although
\* callbacks write before and behind it.
StampsAt(a) ==
    /\ a + Got <= Len(writer)
    /\ \A i \in 1..Got : writer[a + i] = Line("stamp", timestamps[i].ts, 0)
    /\ StampLines = (a + 1)..(a + Got)

StampInv ==
    IF hpc \in {"totals", "done", "closed"} THEN \E a \in 0..Len(writer) : StampsAt(a)
                                            ELSE StampLines = {}

SessionInv == /\ SessionTypes /\ LinkInv /\ ClientInv /\ ServerInv /\ HandshakeInv
              /\ StampInv

-----------------------------------------------------------------------------
(* Counting *)

LEMMA TaggedFinite ==
    ASSUME NEW s, NEW n \in Nat, NEW tag
    PROVE  /\ IsFiniteSet(Tagged(s, n, tag)) /\ Cardinality(Tagged(s, n, tag)) \in Nat
           /\ Tagged(s, 0, tag) = {}
<1>1. IsFiniteSet(1..n) /\ Tagged(s, n, tag) \subseteq 1..n
    BY FS_Interval DEF Tagged
<1>2. IsFiniteSet(Tagged(s, n, tag))
    BY <1>1, FS_Subset
<1>3. Tagged(s, 0, tag) = {}
    BY DEF Tagged
<1> QED
    BY <1>2, <1>3, FS_CardinalityType

LEMMA TaggedNext ==
    ASSUME NEW s, NEW n \in Nat, NEW tag
    PROVE  Cardinality(Tagged(s, n + 1, tag))
             = Cardinality(Tagged(s, n, tag)) + (IF s[n + 1].tag = tag THEN 1 ELSE 0)
<1>1. IsFiniteSet(Tagged(s, n, tag)) /\ Cardinality(Tagged(s, n, tag)) \in Nat
    BY TaggedFinite
<1>2. CASE s[n + 1].tag = tag
  <2>1. Tagged(s, n + 1, tag) = Tagged(s, n, tag) \cup {n + 1} /\ n + 1 \notin Tagged(s, n, tag)
      BY <1>2 DEF Tagged
  <2> QED
      BY <1>1, <1>2, <2>1, FS_AddElement
<1>3. CASE s[n + 1].tag # tag
  <2>1. Tagged(s, n + 1, tag) = Tagged(s, n, tag)
      BY <1>3 DEF Tagged
  <2> QED
      BY <1>1, <1>3, <2>1
<1> QED
    BY <1>2, <1>3

LEMMA TaggedGrows ==
    ASSUME NEW s, NEW n \in Nat, NEW m \in Nat, n <= m, NEW tag
    PROVE  Cardinality(Tagged(s, n, tag)) <= Cardinality(Tagged(s, m, tag))
<1>1. Tagged(s, n, tag) \subseteq Tagged(s, m, tag)
    BY DEF Tagged
<1> QED
    BY <1>1, TaggedFinite, FS_Subset

\* Sequences that agree up to n have the same tags up to n.
LEMMA TaggedSame ==
    ASSUME NEW s, NEW t, NEW n \in Nat, NEW tag, \A i \in 1..n : s[i] = t[i]
    PROVE  Tagged(s, n, tag) = Tagged(t, n, tag)
BY DEF Tagged

-----------------------------------------------------------------------------
(* Steps *)

Calls == {<<"START", "await">>, <<"TAG", "ready">>, <<"END", "ended">>}

\* A message leaves the client.
Sending(tag, next) ==
    /\ cpc = "ready" /\ cpc' = next /\ <<tag, next>> \in Calls
    /\ sent' = Append(sent, Stamp(tag, Len(sent) + 1))
    /\ c2s' = Append(c2s, Stamp(tag, Len(sent) + 1))
    /\ UNCHANGED <<s2c, spc, handlerVars>>
    /\ tag = "START" => Count("START") < MaxStarts /\ (Disciplined => sent = <<>>)
    /\ tag = "TAG" => Count("TAG") < MaxTags
    /\ tag # "START" => (Disciplined => Started)

\* A message reaches the handler.
Taking ==
    /\ spc = "reading" /\ c2s # <<>> /\ c2s' = Tail(c2s)
    /\ \/ Head(c2s).tag = "START" /\ StartHandler(Head(c2s).ts) /\ spc' = "reply"
       \/ Head(c2s).tag = "TAG" /\ TagHandler(Head(c2s).ts) /\ spc' = "reading"
       \/ Head(c2s).tag = "END" /\ EndHandler(Head(c2s).ts) /\ spc' = "ending"
    /\ UNCHANGED <<cpc, sent, s2c>>

\* endHandler goes on, or a callback runs.
Working ==
    /\ ServerThread \/ Driver
    /\ spc' = spc \/ ServerGone'
    /\ UNCHANGED <<cpc, sent, c2s, s2c>>

\* Nothing is sent or handled.
Aside ==
    /\ UNCHANGED <<handlerVars, sent, c2s>>
    /\ cpc' # cpc => cpc' \in {"exited", "closed"} \/ (cpc \in {"connect", "await"} /\ cpc' = "ready")
    /\ \/ ServerGone' /\ s2c' = s2c
       \/ UNCHANGED <<s2c, spc>> /\ (cpc = "await" => cpc' # "ready")
       \/ cpc = "await" /\ cpc' = "ready" /\ s2c' = s2c - 1 /\ s2c > 0 /\ spc' = spc
       \/ UNCHANGED <<s2c, cpc>> /\ spc # "reply" /\ spc' # "reply" /\ ~ServerGone
       \/ spc = "reply" /\ spc' = "reading" /\ s2c' = s2c + 1 /\ cpc' = cpc

LEMMA SessionCases ==
    ASSUME [Next]_sessionVars
    PROVE  \/ \E tag \in {"START", "TAG", "END"}, next \in {"await", "ready", "ended"} :
                  Sending(tag, next)
           \/ Taking \/ Working \/ Aside
<1> USE DEF netVars
<1>1. CASE SendSessionStart \/ SendTag \/ SendSessionEnd
  <2>1. ASSUME NEW tag, NEW next, cpc = "ready", Send(tag, next)
        PROVE  \/ /\ sent' = Append(sent, Stamp(tag, Len(sent) + 1))
                  /\ c2s' = Append(c2s, Stamp(tag, Len(sent) + 1))
                  /\ cpc' = next
                  /\ UNCHANGED <<s2c, spc, handlerVars>>
               \/ Aside
      BY <2>1 DEF Send, Aside, ServerGone
  <2>2. CASE SendSessionStart
      BY <2>1, <2>2 DEF SendSessionStart, Sending, Calls
  <2>3. CASE SendTag
      BY <2>1, <2>3 DEF SendTag, Sending, Calls
  <2>4. CASE SendSessionEnd
      BY <2>1, <2>4 DEF SendSessionEnd, Sending, Calls
  <2> QED
      BY <1>1, <2>2, <2>3, <2>4
<1>2. CASE Connect \/ ReadResponse \/ ReadResponseEof \/ CloseClient \/ KillClient
    BY <1>2 DEF Connect, ReadResponse, ReadResponseEof, CloseClient, KillClient, Aside, ServerGone
<1>3. CASE Configure \/ Listen \/ Accept \/ Reply \/ ReadEof \/ KillServer
    BY <1>3 DEF Configure, Listen, Accept, Reply, ReadEof, KillServer, Aside, ServerGone
<1>4. CASE HandleSessionStart \/ HandleTag \/ HandleSessionEnd
    BY <1>4 DEF HandleSessionStart, HandleTag, HandleSessionEnd, Taking
<1>5. CASE FinishEnd \/ DriverStep
    BY <1>5 DEF FinishEnd, DriverStep, Working, ServerGone
<1>6. CASE Spin \/ Quiet \/ UNCHANGED sessionVars
    BY <1>6 DEF Spin, Quiet, sessionVars, Aside
<1> QED
    BY <1>1, <1>2, <1>3, <1>4, <1>5, <1>6 DEF Next, Client, Server

\* The message that the handler takes is the next one that was sent.
LEMMA TakingFacts ==
    ASSUME SessionTypes, LinkInv, Taking
    PROVE  /\ Got \in Nat /\ Len(sent) \in Nat /\ Got + 1 <= Len(sent)
           /\ Head(c2s) = sent[Got + 1] /\ Head(c2s).ts = Now
           /\ timestamps' = Append(timestamps, sent[Got + 1])
           /\ timestamps' \in Seq(Stamps) /\ Len(timestamps') = Got + 1
           /\ timestamps'[Got + 1] = sent[Got + 1]
           /\ \A i \in 1..Got : timestamps'[i] = timestamps[i]
           /\ c2s' \in Seq(Stamps) /\ Len(c2s') = Len(c2s) - 1
           /\ \A i \in 1..Len(c2s') : c2s'[i] = c2s[i + 1]
           /\ hpc = "ready"
<1>1. /\ timestamps \in Seq(Stamps) /\ sent \in Seq(Stamps) /\ c2s \in Seq(Stamps)
      /\ Got \in Nat /\ Len(sent) \in Nat /\ Len(c2s) \in Nat
    BY LenProperties DEF SessionTypes, HandlerTypeOK, Got
<1>2. c2s # <<>> /\ c2s' = Tail(c2s)
    BY DEF Taking
<1>3. /\ Head(c2s) = c2s[1] /\ Head(c2s) \in Stamps /\ Len(c2s) > 0
      /\ c2s' \in Seq(Stamps) /\ Len(c2s') = Len(c2s) - 1
      /\ \A i \in 1..Len(c2s') : c2s'[i] = c2s[i + 1]
    BY <1>1, <1>2, HeadTailProperties, EmptySeq
<1>4. Got + 1 <= Len(sent) /\ Head(c2s) = sent[Got + 1] /\ Head(c2s).ts = Got + 1
    BY <1>1, <1>3 DEF LinkInv
<1>5. hpc = "ready" /\ timestamps' = Append(timestamps, Stamp(Head(c2s).tag, Head(c2s).ts))
    BY DEF Taking, StartHandler, TagHandler, EndHandler
<1>6. Stamp(Head(c2s).tag, Head(c2s).ts) = Head(c2s)
    BY <1>3 DEF Stamps, Stamp
<1>7. timestamps' = Append(timestamps, sent[Got + 1]) /\ sent[Got + 1] \in Stamps
    BY <1>3, <1>4, <1>5, <1>6
<1>8. /\ timestamps' \in Seq(Stamps) /\ Len(timestamps') = Got + 1
      /\ timestamps'[Got + 1] = sent[Got + 1]
      /\ \A i \in 1..Got : timestamps'[i] = timestamps[i]
    BY <1>1, <1>7, AppendProperties DEF Got
<1> QED
    BY <1>1, <1>3, <1>4, <1>5, <1>7, <1>8 DEF Now, Got

\* A message is sent behind the others, and the client's clock numbers it.
LEMMA SendingFacts ==
    ASSUME SessionTypes, NEW tag \in {"START", "TAG", "END"}, NEW next, Sending(tag, next)
    PROVE  /\ Len(sent) \in Nat /\ Len(c2s) \in Nat
           /\ sent' \in Seq(Stamps) /\ Len(sent') = Len(sent) + 1
           /\ sent'[Len(sent) + 1].tag = tag /\ sent'[Len(sent) + 1].ts = Len(sent) + 1
           /\ \A i \in 1..Len(sent) : sent'[i] = sent[i]
           /\ c2s' \in Seq(Stamps) /\ Len(c2s') = Len(c2s) + 1
           /\ c2s'[Len(c2s) + 1] = sent'[Len(sent) + 1]
           /\ \A i \in 1..Len(c2s) : c2s'[i] = c2s[i]
<1> DEFINE e == Stamp(tag, Len(sent) + 1)
<1>1. sent \in Seq(Stamps) /\ c2s \in Seq(Stamps) /\ Len(sent) \in Nat /\ Len(c2s) \in Nat
    BY LenProperties DEF SessionTypes
<1>2. e \in Stamps /\ e.tag = tag /\ e.ts = Len(sent) + 1
    BY <1>1 DEF Stamp, Stamps
<1>3. sent' = Append(sent, e) /\ c2s' = Append(c2s, e)
    BY DEF Sending
<1> HIDE DEF e
<1> QED
    BY <1>1, <1>2, <1>3, AppendProperties

LEMMA CountNum == \A tag : Count(tag) = Num(Len(sent), tag)
BY DEF Count, Num, Tagged

\* What the session does to the handler is a step of HandlerSpec: the client's
\* discipline and its bounds are the handler's.
LEMMA HandlerStep ==
    ASSUME SessionTypes, LinkInv, ClientInv, ServerInv, [Next]_sessionVars
    PROVE  [HandlerNext]_handlerVars
<1>1. CASE Taking
  <2>1. /\ Got \in Nat /\ Len(sent) \in Nat /\ Got + 1 <= Len(sent) /\ hpc = "ready"
        /\ Head(c2s) = sent[Got + 1] /\ Head(c2s).ts = Now
      BY <1>1, TakingFacts
  <2>2. CASE Head(c2s).tag = "START" /\ StartHandler(Head(c2s).ts)
    <3>1. Disciplined => Got = 0
        BY <2>1, <2>2 DEF ClientInv
    <3>2. timestamps \in Seq(Stamps)
        BY DEF SessionTypes, HandlerTypeOK
    <3>3. Disciplined => timestamps = <<>>
        BY <3>1, <3>2, EmptySeq DEF Got
    <3> QED
        BY <2>1, <2>2, <3>3 DEF HandlerNext, Call
  <2>3. Head(c2s).tag # "START" => (Disciplined => timestamps # <<>>)
    <3>1. Disciplined => (sent[Got + 1].tag = "START" <=> Got + 1 = 1)
        BY <2>1 DEF ClientInv
    <3>2. Len(<<>>) = 0
        BY EmptySeq
    <3>3. timestamps = <<>> => Got + 1 = 1
        BY <3>2 DEF Got
    <3> QED
        BY <2>1, <3>1, <3>3
  <2>4. CASE Head(c2s).tag = "TAG" /\ TagHandler(Head(c2s).ts)
    <3>0. Num(Got, "TAG") \in Nat /\ Num(Len(sent), "TAG") \in Nat
        BY <2>1, TaggedFinite DEF Num
    <3>1. Num(Got, "TAG") \in Nat /\ starts \in Nat /\ MaxTags \in Nat
          /\ Count("TAG") \in Nat
        BY <3>0, CountNum, HandlerAssumption DEF SessionTypes, HandlerTypeOK
    <3>2. Num(Got + 1, "TAG") = Num(Got, "TAG") + 1
        BY <2>1, <2>4, TaggedNext DEF Num
    <3>3. Num(Got + 1, "TAG") <= Count("TAG")
        BY <2>1, CountNum, TaggedGrows DEF Num
    <3>4. Tags = Num(Got, "TAG")
        BY <2>1, <3>1 DEF Tags, ServerInv, Got
    <3>5. Count("TAG") <= MaxTags
        BY DEF ClientInv
    <3>6. Tags < MaxTags
        BY <3>1, <3>2, <3>3, <3>4, <3>5
    <3> QED
        BY <2>1, <2>3, <2>4, <3>6 DEF HandlerNext, Call
  <2>5. CASE Head(c2s).tag = "END" /\ EndHandler(Head(c2s).ts)
      BY <2>1, <2>3, <2>5 DEF HandlerNext, Call
  <2> QED
      BY <1>1, <2>2, <2>4, <2>5 DEF Taking
<1>2. CASE Working
    BY <1>2 DEF Working, HandlerNext
<1> QED
    BY <1>1, <1>2, SessionCases DEF Sending, Aside

\* What the handler's own steps leave alone.
LEMMA WorkingFacts ==
    ASSUME Working
    PROVE  /\ UNCHANGED <<timestamps, starts, cpc, sent, c2s, s2c>>
           /\ hpc' = "ready" <=> hpc = "ready"
<1>1. CASE ServerThread
    BY <1>1 DEF Working, ServerThread, StopTask, ClearTask, DumpTimestamps, WriteTotals, Destroy
<1>2. ASSUME NEW t \in Tasks, Quick(t) \/ EveryNCount(t) \/ EveryNWrite(t)
      PROVE  UNCHANGED <<timestamps, starts, hpc>>
    BY <1>2, QuickFacts DEF EveryNCount, EveryNWrite, serverVars
<1> QED
    BY <1>1, <1>2 DEF Working, Driver, Proceeds, OwnCall, Quick

LEMMA TypesStep ==
    ASSUME SessionTypes, LinkInv, ClientInv, ServerInv, [Next]_sessionVars
    PROVE  SessionTypes'
<1>1. HandlerTypeOK'
    BY HandlerStep, HandlerTypes DEF SessionTypes
<1>2. ASSUME NEW tag \in {"START", "TAG", "END"}, NEW next, Sending(tag, next)
      PROVE  SessionTypes'
  <2>1. sent' \in Seq(Stamps) /\ c2s' \in Seq(Stamps) /\ s2c' = s2c
      BY <1>2, SendingFacts DEF Sending
  <2> QED
      BY <1>1, <2>1 DEF SessionTypes
<1>3. CASE Taking
  <2>1. c2s' \in Seq(Stamps) /\ UNCHANGED <<sent, s2c>>
      BY <1>3, TakingFacts DEF Taking
  <2> QED
      BY <1>1, <2>1 DEF SessionTypes
<1>4. CASE Working
    BY <1>1, <1>4 DEF Working, SessionTypes
<1>5. CASE Aside
  <2>1. s2c' \in Nat
      BY <1>5 DEF Aside, SessionTypes
  <2> QED
      BY <1>1, <1>5, <2>1 DEF Aside, SessionTypes
<1> QED
    BY <1>2, <1>3, <1>4, <1>5, SessionCases

LEMMA LinkStep ==
    ASSUME SessionTypes, LinkInv, [Next]_sessionVars
    PROVE  LinkInv'
<1>1. ASSUME NEW tag \in {"START", "TAG", "END"}, NEW next, Sending(tag, next)
      PROVE  LinkInv'
  <2>1. /\ Len(sent) \in Nat /\ Len(c2s) \in Nat /\ Len(sent') = Len(sent) + 1
        /\ sent'[Len(sent) + 1].ts = Len(sent) + 1
        /\ \A i \in 1..Len(sent) : sent'[i] = sent[i]
        /\ Len(c2s') = Len(c2s) + 1 /\ c2s'[Len(c2s) + 1] = sent'[Len(sent) + 1]
        /\ \A i \in 1..Len(c2s) : c2s'[i] = c2s[i]
      BY <1>1, SendingFacts
  <2>2. Got \in Nat /\ timestamps' = timestamps /\ Got' = Got
      BY <1>1, LenProperties DEF Sending, handlerVars, Got, SessionTypes, HandlerTypeOK
  <2>3. Len(sent) = Got + Len(c2s)
      BY DEF LinkInv
  <2>4. \A i \in 1..Got : timestamps'[i] = sent'[i]
      BY <2>1, <2>2, <2>3 DEF LinkInv
  <2>5. \A i \in 1..Len(c2s') : c2s'[i] = sent'[Got + i]
    <3> TAKE i \in 1..Len(c2s')
    <3>1. CASE i \in 1..Len(c2s)
      <4>1. c2s'[i] = c2s[i] /\ c2s[i] = sent[Got + i] /\ Got + i \in 1..Len(sent)
          BY <2>1, <2>2, <2>3, <3>1 DEF LinkInv
      <4> QED
          BY <2>1, <4>1
    <3>2. CASE i = Len(c2s) + 1
        BY <2>1, <2>2, <2>3, <3>2
    <3> QED
        BY <2>1, <3>1, <3>2
  <2>6. \A i \in 1..Len(sent') : sent'[i].ts = i
    <3> TAKE i \in 1..Len(sent')
    <3>1. i \in 1..Len(sent) \/ i = Len(sent) + 1
        BY <2>1
    <3> QED
        BY <2>1, <3>1 DEF LinkInv
  <2> QED
      BY <2>1, <2>2, <2>3, <2>4, <2>5, <2>6 DEF LinkInv
<1>2. CASE Taking
  <2>1. /\ Got \in Nat /\ Len(sent) \in Nat /\ Got + 1 <= Len(sent)
        /\ timestamps'[Got + 1] = sent[Got + 1]
        /\ \A i \in 1..Got : timestamps'[i] = timestamps[i]
        /\ Len(c2s') = Len(c2s) - 1 /\ \A i \in 1..Len(c2s') : c2s'[i] = c2s[i + 1]
      BY <1>2, TakingFacts
  <2>2. Got' = Got + 1 /\ sent' = sent
      BY <1>2, TakingFacts DEF Got, Taking
  <2>3. Len(c2s) \in Nat /\ Len(sent) = Got + Len(c2s)
      BY LenProperties DEF LinkInv, SessionTypes
  <2>4. \A i \in 1..(Got + 1) : timestamps'[i] = sent[i]
    <3> TAKE i \in 1..(Got + 1)
    <3>1. i \in 1..Got \/ i = Got + 1
        BY <2>1
    <3> QED
        BY <2>1, <3>1 DEF LinkInv
  <2>5. \A i \in 1..Len(c2s') : c2s'[i] = sent[Got + 1 + i]
    <3> TAKE i \in 1..Len(c2s')
    <3>1. c2s'[i] = c2s[i + 1] /\ i + 1 \in 1..Len(c2s)
        BY <2>1, <2>3
    <3>2. c2s[i + 1] = sent[Got + (i + 1)] /\ Got + (i + 1) = Got + 1 + i
        BY <2>1, <3>1 DEF LinkInv
    <3> QED
        BY <3>1, <3>2
  <2>6. Len(sent') = Got' + Len(c2s')
      BY <2>1, <2>2, <2>3
  <2>7. \A i \in 1..Got' : timestamps'[i] = sent'[i]
      BY <2>2, <2>4
  <2>8. \A i \in 1..Len(c2s') : c2s'[i] = sent'[Got' + i]
      BY <2>2, <2>5
  <2> QED
      BY <2>2, <2>6, <2>7, <2>8 DEF LinkInv
<1>3. CASE Working
    BY <1>3, WorkingFacts DEF LinkInv, Got
<1>4. CASE Aside
    BY <1>4 DEF Aside, handlerVars, LinkInv, Got
<1> QED
    BY <1>1, <1>2, <1>3, <1>4, SessionCases

\* A message that is sent is counted under its own tag.
LEMMA SendCounts ==
    ASSUME SessionTypes, NEW tag \in {"START", "TAG", "END"}, NEW next, Sending(tag, next), NEW k
    PROVE  /\ Count(k) \in Nat
           /\ Count(k)' = Count(k) + (IF tag = k THEN 1 ELSE 0)
<1>1. /\ Len(sent) \in Nat /\ Len(sent') = Len(sent) + 1 /\ sent'[Len(sent) + 1].tag = tag
      /\ \A i \in 1..Len(sent) : sent'[i] = sent[i]
    BY SendingFacts
<1>2. Tagged(sent', Len(sent), k) = Tagged(sent, Len(sent), k)
    BY <1>1, TaggedSame
<1>3. Cardinality(Tagged(sent', Len(sent) + 1, k))
        = Cardinality(Tagged(sent', Len(sent), k)) + (IF tag = k THEN 1 ELSE 0)
    BY <1>1, TaggedNext
<1>4. Count(k) = Cardinality(Tagged(sent, Len(sent), k))
    BY DEF Count, Tagged
<1>5. Count(k)' = Cardinality(Tagged(sent', Len(sent'), k))
    BY DEF Count, Tagged
<1>6. Count(k) \in Nat
    BY <1>1, <1>4, TaggedFinite
<1> QED
    BY <1>1, <1>2, <1>3, <1>4, <1>5, <1>6

LEMMA ClientKept ==
    ASSUME ClientInv, sent' = sent,
           cpc' = cpc \/ cpc' \in {"exited", "closed"} \/ (Calling /\ cpc' = "ready")
    PROVE  ClientInv'
<1>1. \A k : Count(k)' = Count(k)
    BY DEF Count
<1>2. Calling' => Calling
    BY DEF Calling
<1>3. cpc' \in {"connect", "await"} => cpc' = cpc
    OBVIOUS
<1> QED
    BY <1>1, <1>2, <1>3 DEF ClientInv

LEMMA ClientStep ==
    ASSUME SessionTypes, ClientInv, [Next]_sessionVars
    PROVE  ClientInv'
<1>1. ASSUME NEW tag \in {"START", "TAG", "END"}, NEW next, Sending(tag, next)
      PROVE  ClientInv'
  <2>1. /\ Len(sent) \in Nat /\ Len(sent') = Len(sent) + 1 /\ sent'[Len(sent) + 1].tag = tag
        /\ \A i \in 1..Len(sent) : sent'[i] = sent[i]
      BY <1>1, SendingFacts
  <2>2. cpc = "ready" /\ cpc' = next /\ <<tag, next>> \in Calls
      BY <1>1 DEF Sending
  <2>3. /\ Count("START") \in Nat /\ Count("TAG") \in Nat
        /\ Count("START")' = Count("START") + (IF tag = "START" THEN 1 ELSE 0)
        /\ Count("TAG")' = Count("TAG") + (IF tag = "TAG" THEN 1 ELSE 0)
      BY <1>1, SendCounts
  <2>4. MaxStarts \in Nat /\ MaxTags \in Nat
      BY HandlerAssumption
  <2>5. Calling /\ (Calling' => tag # "END")
      BY <2>2 DEF Calling, Calls
  <2>6. cpc' # "connect"
      BY <2>2 DEF Calls
  <2>7. Calling' => Len(sent') = Count("START")' + Count("TAG")'
      BY <2>1, <2>3, <2>5 DEF ClientInv
  <2>8. Calling' => \A i \in 1..Len(sent') : sent'[i].tag # "END"
    <3> SUFFICES ASSUME Calling', NEW i \in 1..Len(sent')
                 PROVE  sent'[i].tag # "END"
        OBVIOUS
    <3>1. i \in 1..Len(sent) \/ i = Len(sent) + 1
        BY <2>1
    <3> QED
        BY <2>1, <2>5, <3>1 DEF ClientInv
  <2>9. cpc' = "await" => sent' # <<>> /\ sent'[Len(sent')].tag = "START"
    <3>1. sent' # <<>>
        BY <2>1, EmptySeq
    <3>2. cpc' = "await" => tag = "START"
        BY <2>2 DEF Calls
    <3> QED
        BY <2>1, <3>1, <3>2
  <2>10. Disciplined => \A i \in 1..Len(sent') : sent'[i].tag = "START" <=> i = 1
    <3> SUFFICES ASSUME Disciplined, NEW i \in 1..Len(sent')
                 PROVE  sent'[i].tag = "START" <=> i = 1
        OBVIOUS
    <3>1. tag = "START" <=> Len(sent) = 0
      <4>1. tag = "START" => sent = <<>>
          BY <1>1 DEF Sending
      <4>2. tag # "START" => \E j \in 1..Len(sent) : sent[j].tag = "START"
          BY <1>1 DEF Sending, Started
      <4>3. Len(<<>>) = 0
          BY EmptySeq
      <4> QED
          BY <2>1, <4>1, <4>2, <4>3
    <3>2. i \in 1..Len(sent) \/ i = Len(sent) + 1
        BY <2>1
    <3>3. CASE i \in 1..Len(sent)
        BY <2>1, <3>3 DEF ClientInv
    <3>4. CASE i = Len(sent) + 1
        BY <2>1, <3>1, <3>4
    <3> QED
        BY <3>2, <3>3, <3>4
  <2>11. Count("START")' <= MaxStarts /\ Count("TAG")' <= MaxTags
    <3>1. tag = "START" => Count("START") < MaxStarts
        BY <1>1 DEF Sending
    <3>2. tag = "TAG" => Count("TAG") < MaxTags
        BY <1>1 DEF Sending
    <3>3. Count("START") <= MaxStarts /\ Count("TAG") <= MaxTags
        BY DEF ClientInv
    <3> QED
        BY <2>3, <2>4, <3>1, <3>2, <3>3
  <2> QED
      BY <2>6, <2>7, <2>8, <2>9, <2>10, <2>11 DEF ClientInv
<1>2. CASE Taking
    BY <1>2, ClientKept DEF Taking
<1>3. CASE Working
    BY <1>3, ClientKept DEF Working
<1>4. CASE Aside
  <2>1. sent' = sent
      BY <1>4 DEF Aside
  <2>2. cpc' = cpc \/ cpc' \in {"exited", "closed"} \/ (Calling /\ cpc' = "ready")
      BY <1>4 DEF Aside, Calling
  <2> QED
      BY <2>1, <2>2, ClientKept
<1> QED
    BY <1>1, <1>2, <1>3, <1>4, SessionCases

-----------------------------------------------------------------------------
(* The file *)

\* The lines of w whose kind is k.
OfKind(w, k) == {i \in 1..Len(w) : w[i].kind = k}

LEMMA OfKindAppend ==
    ASSUME NEW w \in Seq(Lines), NEW e \in Lines, NEW k
    PROVE  /\ Len(w) \in Nat /\ Len(Append(w, e)) = Len(w) + 1
           /\ \A i \in 1..Len(w) : Append(w, e)[i] = w[i]
           /\ OfKind(Append(w, e), k)
                = IF e.kind = k THEN OfKind(w, k) \cup {Len(w) + 1} ELSE OfKind(w, k)
           /\ Len(w) + 1 \notin OfKind(w, k) /\ IsFiniteSet(OfKind(w, k))
<1>1. /\ Len(w) \in Nat /\ Len(Append(w, e)) = Len(w) + 1
      /\ \A i \in 1..Len(w) : Append(w, e)[i] = w[i]
      /\ Append(w, e)[Len(w) + 1] = e
    BY LenProperties, AppendProperties
<1>2. IsFiniteSet(1..Len(w)) /\ OfKind(w, k) \subseteq 1..Len(w)
    BY <1>1, FS_Interval DEF OfKind
<1>3. Len(w) + 1 \notin OfKind(w, k) /\ IsFiniteSet(OfKind(w, k))
    BY <1>1, <1>2, FS_Subset
<1>4. ASSUME NEW i
      PROVE  i \in OfKind(Append(w, e), k)
               <=> i \in OfKind(w, k) \/ (e.kind = k /\ i = Len(w) + 1)
  <2>1. i \in 1..(Len(w) + 1) <=> i \in 1..Len(w) \/ i = Len(w) + 1
      BY <1>1
  <2> QED
      BY <1>1, <2>1 DEF OfKind
<1> QED
    BY <1>1, <1>3, <1>4

\* The stamps that endHandler writes, behind what is there.
LEMMA Dumped ==
    ASSUME HandlerTypeOK, DumpTimestamps
    PROVE  /\ Got \in Nat /\ Len(writer) \in Nat /\ Len(writer') = Len(writer) + Got
           /\ \A i \in 1..Len(writer) : writer'[i] = writer[i]
           /\ \A i \in 1..Got : writer'[Len(writer) + i] = Line("stamp", timestamps[i].ts, 0)
           /\ OfKind(writer', "header") = OfKind(writer, "header")
           /\ OfKind(writer', "stamp")
                = OfKind(writer, "stamp") \cup (Len(writer) + 1)..(Len(writer) + Got)
<1> DEFINE d == [i \in 1..Got |-> Line("stamp", timestamps[i].ts, 0)]
<1>1. timestamps \in Seq(Stamps) /\ writer \in Seq(Lines) /\ Got \in Nat /\ Len(writer) \in Nat
    BY LenProperties DEF HandlerTypeOK, Got
<1>2. \A i \in 1..Got : Line("stamp", timestamps[i].ts, 0) \in Lines
  <2> TAKE i \in 1..Got
  <2>1. timestamps[i] \in Stamps
      BY <1>1, ElementOfSeq DEF Got
  <2> QED
      BY <2>1 DEF Stamps, Lines, Line
<1>3. d \in Seq(Lines) /\ Len(d) = Got
    BY <1>1, <1>2
<1>4. writer' = writer \o d
    BY DEF DumpTimestamps, Got
<1>5. \A i \in 1..Got : d[i] = Line("stamp", timestamps[i].ts, 0)
    OBVIOUS
<1> HIDE DEF d
<1>6. /\ Len(writer') = Len(writer) + Got
      /\ \A i \in 1..(Len(writer) + Got) :
            writer'[i] = IF i <= Len(writer) THEN writer[i] ELSE d[i - Len(writer)]
    BY <1>1, <1>3, <1>4, ConcatProperties
<1>7. \A i \in 1..Len(writer) : writer'[i] = writer[i]
    BY <1>1, <1>6
<1>8. \A i \in 1..Got : writer'[Len(writer) + i] = Line("stamp", timestamps[i].ts, 0)
  <2> TAKE i \in 1..Got
  <2>1. /\ Len(writer) + i \in 1..(Len(writer) + Got) /\ ~(Len(writer) + i <= Len(writer))
        /\ Len(writer) + i - Len(writer) = i
      BY <1>1
  <2> QED
      BY <1>5, <1>6, <2>1
<1>9. \A i \in (Len(writer) + 1)..(Len(writer) + Got) : writer'[i].kind = "stamp"
  <2> TAKE i \in (Len(writer) + 1)..(Len(writer) + Got)
  <2>1. i - Len(writer) \in 1..Got /\ Len(writer) + (i - Len(writer)) = i
      BY <1>1
  <2>2. writer'[i] = Line("stamp", timestamps[i - Len(writer)].ts, 0)
      BY <1>8, <2>1
  <2> QED
      BY <2>2 DEF Line
<1>10. ASSUME NEW i
       PROVE  i \in 1..Len(writer') <=> \/ i \in 1..Len(writer)
                                        \/ i \in (Len(writer) + 1)..(Len(writer) + Got)
    BY <1>1, <1>6
<1>11. OfKind(writer', "header") = OfKind(writer, "header")
    BY <1>7, <1>9, <1>10 DEF OfKind
<1>12. OfKind(writer', "stamp")
         = OfKind(writer, "stamp") \cup (Len(writer) + 1)..(Len(writer) + Got)
    BY <1>7, <1>9, <1>10 DEF OfKind
<1> QED
    BY <1>1, <1>6, <1>7, <1>8, <1>11, <1>12

\* What the other steps of the handler write: nothing, or a line that is
\* neither a header nor a stamp.
LEMMA Written ==
    ASSUME HandlerTypeOK, Working
    PROVE  \/ /\ writer' = writer
              /\ \/ hpc' = hpc
                 \/ hpc \in {"stopping", "clearing"} /\ hpc' \in {"clearing", "dumping"}
                 \/ hpc = "done" /\ hpc' = "closed"
           \/ /\ \E e \in Lines : writer' = Append(writer, e) /\ e.kind \in {"reading", "trailer"}
              /\ hpc' = hpc \/ (hpc = "totals" /\ hpc' = "done")
           \/ DumpTimestamps
<1>1. ASSUME NEW t \in Tasks, EveryNWrite(t)
      PROVE  /\ \E e \in Lines : writer' = Append(writer, e) /\ e.kind \in {"reading", "trailer"}
             /\ hpc' = hpc
  <2>1. samplesRead[t] \in Nat /\ t \in Nat
      BY HandlerAssumption DEF HandlerTypeOK, Tasks
  <2>2. Line("reading", samplesRead[t], t) \in Lines /\ Line("reading", samplesRead[t], t).kind = "reading"
      BY <2>1 DEF Line, Lines
  <2> QED
      BY <1>1, <2>2 DEF EveryNWrite, serverVars
<1>2. CASE WriteTotals
  <2>1. Line("trailer", Len(timestamps), totalSamplesRead) \in Lines
        /\ Line("trailer", Len(timestamps), totalSamplesRead).kind = "trailer"
      BY LenProperties DEF HandlerTypeOK, Line, Lines
  <2> QED
      BY <1>2, <2>1 DEF WriteTotals
<1>3. CASE StopTask \/ ClearTask \/ Destroy
    BY <1>3 DEF StopTask, ClearTask, Destroy
<1>4. ASSUME NEW t \in Tasks, Quick(t) \/ EveryNCount(t) PROVE writer' = writer /\ hpc' = hpc
    BY <1>4, QuickFacts DEF EveryNCount, serverVars
<1> QED
    BY <1>1, <1>2, <1>3, <1>4 DEF Working, ServerThread, Driver, Proceeds, OwnCall, Quick

-----------------------------------------------------------------------------
(* What the handler has counted *)

\* Each start that the handler takes adds its header, before the reply.
LEMMA HeaderWritten ==
    ASSUME SessionTypes, SessionTypes', LinkInv, Taking
    PROVE  /\ Head(c2s).tag = "START" =>
                /\ starts' = starts + 1 /\ hpc' = "ready" /\ spc' = "reply"
                /\ \E e \in Lines : writer' = Append(writer, e) /\ e.kind = "header"
           /\ Head(c2s).tag # "START" =>
                /\ UNCHANGED <<starts, writer>> /\ spc' # "reply"
                /\ Head(c2s).tag = "TAG" => hpc' = "ready"
                /\ Head(c2s).tag = "END" => hpc' = "stopping"
<1>1. timestamps' \in Seq(Stamps) /\ Len(timestamps') = Got + 1 /\ Got \in Nat
    BY TakingFacts
<1>2. timestamps'[1] \in Stamps
    BY <1>1, ElementOfSeq
<1>3. /\ Line("header", timestamps'[1].ts, 0) \in Lines
      /\ Line("header", timestamps'[1].ts, 0).kind = "header"
    BY <1>2 DEF Stamps, Line, Lines
<1> QED
    BY <1>3 DEF Taking, StartHandler, TagHandler, EndHandler

LEMMA ServerStep ==
    ASSUME SessionTypes, SessionTypes', LinkInv, ServerInv, [Next]_sessionVars
    PROVE  ServerInv'
<1>0. /\ Headers = OfKind(writer, "header") /\ Headers' = OfKind(writer', "header")
      /\ writer \in Seq(Lines) /\ starts \in Nat
    BY DEF Headers, OfKind, SessionTypes, HandlerTypeOK
<1>1. CASE \E tag \in {"START", "TAG", "END"}, next \in {"await", "ready", "ended"} :
              Sending(tag, next)
  <2> PICK tag \in {"START", "TAG", "END"}, next \in {"await", "ready", "ended"} :
              Sending(tag, next)
      BY <1>1
  <2>1. UNCHANGED handlerVars /\ \A i \in 1..Len(sent) : sent'[i] = sent[i]
      BY SendingFacts DEF Sending
  <2>2. Got \in Nat /\ Len(c2s) \in Nat /\ Got <= Len(sent) /\ Len(sent) \in Nat
      BY LenProperties DEF LinkInv, SessionTypes, HandlerTypeOK, Got
  <2>3. \A k : Tagged(sent', Got, k) = Tagged(sent, Got, k)
    <3>1. \A i \in 1..Got : sent'[i] = sent[i]
        BY <2>1, <2>2
    <3> QED
        BY <2>2, <3>1, TaggedSame
  <2>4. UNCHANGED <<hpc, timestamps, starts, Headers, Got>>
      BY <2>1 DEF handlerVars, Headers, Got
  <2>5. \A k : Num(Got, k)' = Num(Got, k)
      BY <2>3, <2>4 DEF Num
  <2> QED
      BY <2>4, <2>5 DEF ServerInv
<1>2. CASE Taking
  <2>1. /\ Got \in Nat /\ Head(c2s) = sent[Got + 1] /\ hpc = "ready"
        /\ timestamps'[Got + 1] = sent[Got + 1] /\ Got' = Got + 1 /\ sent' = sent
      BY <1>2, TakingFacts DEF Got, Taking
  <2>2. ASSUME NEW k
        PROVE  /\ Num(Got, k) \in Nat
               /\ Num(Got, k)' = Num(Got, k) + (IF sent[Got + 1].tag = k THEN 1 ELSE 0)
    <3>1. Num(Got, k)' = Cardinality(Tagged(sent, Got + 1, k))
        BY <2>1 DEF Num
    <3> QED
        BY <2>1, <3>1, TaggedNext, TaggedFinite DEF Num
  <2>3. /\ Num(Got, "START")' = Num(Got, "START") + (IF sent[Got + 1].tag = "START" THEN 1 ELSE 0)
        /\ Num(Got, "TAG")' = Num(Got, "TAG") + (IF sent[Got + 1].tag = "TAG" THEN 1 ELSE 0)
        /\ Num(Got, "START") \in Nat /\ Num(Got, "TAG") \in Nat
      BY <2>2
  <2>4. /\ starts = Num(Got, "START") /\ Cardinality(Headers) = starts
        /\ Got = starts + Num(Got, "TAG")
      BY <2>1 DEF ServerInv
  <2>5. CASE Head(c2s).tag = "START"
    <3>1. PICK e \in Lines : writer' = Append(writer, e) /\ e.kind = "header"
        BY <1>2, <2>5, HeaderWritten
    <3>2. /\ OfKind(writer', "header") = OfKind(writer, "header") \cup {Len(writer) + 1}
          /\ Len(writer) + 1 \notin OfKind(writer, "header")
          /\ IsFiniteSet(OfKind(writer, "header"))
        BY <1>0, <3>1, OfKindAppend
    <3>3. Cardinality(Headers') = Cardinality(Headers) + 1
        BY <1>0, <3>2, FS_AddElement
    <3>4. starts' = starts + 1 /\ hpc' = "ready"
        BY <1>2, <2>5, HeaderWritten
    <3>5. starts' = Num(Got, "START")' /\ Cardinality(Headers') = starts'
        BY <2>1, <2>3, <2>4, <2>5, <3>3, <3>4
    <3>6. Got' = starts' + Num(Got, "TAG")'
        BY <1>0, <2>1, <2>3, <2>4, <2>5, <3>4
    <3> QED
        BY <3>4, <3>5, <3>6 DEF ServerInv
  <2>6. CASE Head(c2s).tag # "START"
    <3>1. UNCHANGED <<starts, writer>>
        BY <1>2, <2>6, HeaderWritten
    <3>2. starts' = Num(Got, "START")' /\ Cardinality(Headers') = starts'
        BY <1>0, <2>1, <2>3, <2>4, <2>6, <3>1
    <3>3. CASE Head(c2s).tag = "TAG"
      <4>1. hpc' = "ready" /\ Got' = starts' + Num(Got, "TAG")'
          BY <1>0, <1>2, <2>1, <2>3, <2>4, <3>1, <3>3, HeaderWritten
      <4> QED
          BY <3>2, <4>1 DEF ServerInv
    <3>4. CASE Head(c2s).tag = "END"
      <4>1. hpc' = "stopping" /\ Got' > 0 /\ timestamps'[Got'].tag = "END"
          BY <1>2, <2>1, <3>4, HeaderWritten
      <4> QED
          BY <3>2, <4>1 DEF ServerInv
    <3> QED
        BY <1>2, <2>6, <3>3, <3>4 DEF Taking
  <2> QED
      BY <2>5, <2>6
<1>3. CASE Working
  <2>1. UNCHANGED <<timestamps, starts, sent, Got>> /\ (hpc' = "ready" <=> hpc = "ready")
      BY <1>3, WorkingFacts DEF Got
  <2>2. \A k : Num(Got, k)' = Num(Got, k)
      BY <2>1 DEF Num
  <2>3. Headers' = Headers
    <3>1. CASE writer' = writer
        BY <3>1 DEF Headers
    <3>2. CASE \E e \in Lines : writer' = Append(writer, e) /\ e.kind \in {"reading", "trailer"}
      <4> PICK e \in Lines : writer' = Append(writer, e) /\ e.kind \in {"reading", "trailer"}
          BY <3>2
      <4> QED
          BY <1>0, OfKindAppend
    <3>3. CASE DumpTimestamps
        BY <1>0, <3>3, Dumped DEF SessionTypes
    <3> QED
        BY <1>3, <3>1, <3>2, <3>3, Written DEF SessionTypes
  <2> QED
      BY <2>1, <2>2, <2>3 DEF ServerInv
<1>4. CASE Aside
  <2>1. UNCHANGED <<timestamps, starts, sent, Got, Headers, hpc>>
      BY <1>4 DEF Aside, handlerVars, Got, Headers
  <2>2. \A k : Num(Got, k)' = Num(Got, k)
      BY <2>1 DEF Num
  <2> QED
      BY <2>1, <2>2 DEF ServerInv
<1> QED
    BY <1>1, <1>2, <1>3, <1>4, SessionCases

-----------------------------------------------------------------------------
(* The handshake *)

LEMMA HandshakeStep ==
    ASSUME SessionTypes, SessionTypes', LinkInv, HandshakeInv, [Next]_sessionVars
    PROVE  HandshakeInv'
<1> SUFFICES ASSUME ~ServerGone' PROVE HandshakeInv'
    BY DEF HandshakeInv
<1>0. /\ Got \in Nat /\ Len(c2s) \in Nat /\ Len(sent) \in Nat /\ s2c \in Nat
      /\ Got <= Len(sent)
    BY LenProperties DEF LinkInv, SessionTypes, HandlerTypeOK, Got
<1>1. ASSUME NEW tag \in {"START", "TAG", "END"}, NEW next, Sending(tag, next)
      PROVE  HandshakeInv'
  <2>1. /\ Len(sent') = Len(sent) + 1 /\ sent'[Len(sent) + 1].tag = tag
        /\ \A i \in 1..Len(sent) : sent'[i] = sent[i]
      BY <1>1, SendingFacts
  <2>2. /\ cpc = "ready" /\ cpc' = next /\ <<tag, next>> \in Calls
        /\ UNCHANGED <<s2c, spc>> /\ Got' = Got
      BY <1>1 DEF Sending, handlerVars, Got
  <2>3. Pending = {} /\ s2c = 0 /\ spc # "reply"
      BY <2>2 DEF HandshakeInv, ServerGone
  <2>4. ASSUME NEW i PROVE i \in Pending' <=> tag = "START" /\ i = Len(sent) + 1
    <3>1. i \in (Got + 1)..(Len(sent) + 1)
            <=> i \in (Got + 1)..Len(sent) \/ i = Len(sent) + 1
        BY <1>0
    <3>2. i \in (Got + 1)..Len(sent) => i \in 1..Len(sent)
        BY <1>0
    <3> QED
        BY <2>1, <2>2, <2>3, <3>1, <3>2 DEF Pending
  <2>5. CASE tag = "START"
    <3>1. cpc' = "await" /\ Pending' = {Len(sent')}
        BY <2>1, <2>2, <2>4, <2>5 DEF Calls
    <3> QED
        BY <2>2, <2>3, <3>1 DEF HandshakeInv
  <2>6. CASE tag # "START"
    <3>1. cpc' # "await" /\ Pending' = {}
        BY <2>2, <2>4, <2>6 DEF Calls
    <3> QED
        BY <2>2, <2>3, <3>1 DEF HandshakeInv
  <2> QED
      BY <2>5, <2>6
<1>2. CASE Taking
  <2>1. /\ Got + 1 <= Len(sent) /\ Head(c2s) = sent[Got + 1]
        /\ Got' = Got + 1
      BY <1>2, TakingFacts DEF Got
  <2>2. UNCHANGED <<cpc, sent, s2c>> /\ spc = "reading" /\ ~ServerGone
      BY <1>2 DEF Taking, ServerGone
  <2>3. Pending' = Pending \ {Got + 1}
    <3>1. ASSUME NEW i
          PROVE  i \in (Got + 1 + 1)..Len(sent) <=> i \in (Got + 1)..Len(sent) /\ i # Got + 1
        BY <1>0
    <3> QED
        BY <2>1, <2>2, <3>1 DEF Pending
  <2>4. CASE Head(c2s).tag = "START"
    <3>1. Got + 1 \in Pending
        BY <1>0, <2>1, <2>4 DEF Pending
    <3>2. cpc \notin {"connect", "ready", "ended"}
        BY <2>2, <3>1 DEF HandshakeInv
    <3>3. cpc = "await" => Pending = {Len(sent)} /\ s2c = 0
        BY <2>2, <3>1 DEF HandshakeInv
    <3>4. cpc = "await" => Pending' = {}
        BY <2>3, <3>1, <3>3
    <3>5. spc' = "reply"
        BY <1>2, <2>4, HeaderWritten
    <3> QED
        BY <2>2, <3>2, <3>3, <3>4, <3>5 DEF HandshakeInv
  <2>5. CASE Head(c2s).tag # "START"
    <3>1. Pending' = Pending
        BY <2>1, <2>3, <2>5 DEF Pending
    <3>2. spc' # "reply"
        BY <1>2, <2>5, HeaderWritten
    <3> QED
        BY <2>2, <3>1, <3>2 DEF HandshakeInv
  <2> QED
      BY <2>4, <2>5
<1>3. CASE Working
  <2>1. UNCHANGED <<cpc, sent, s2c, spc>> /\ ~ServerGone
      BY <1>3 DEF Working, ServerGone
  <2>2. Pending' = Pending
      BY <1>3, WorkingFacts DEF Pending, Got
  <2> QED
      BY <2>1, <2>2 DEF HandshakeInv
<1>4. CASE Aside
  <2>1. Pending' = Pending /\ sent' = sent
      BY <1>4 DEF Aside, handlerVars, Pending, Got
  <2>2. ~ServerGone
      BY <1>4 DEF Aside, ServerGone
  <2> QED
      BY <1>0, <1>4, <2>1, <2>2 DEF HandshakeInv, Aside
<1> QED
    BY <1>1, <1>2, <1>3, <1>4, SessionCases

-----------------------------------------------------------------------------
(* The stamps in the file *)

LEMMA StampStep ==
    ASSUME SessionTypes, SessionTypes', LinkInv, StampInv, [Next]_sessionVars
    PROVE  StampInv'
<1>0. /\ StampLines = OfKind(writer, "stamp") /\ StampLines' = OfKind(writer', "stamp")
      /\ writer \in Seq(Lines) /\ Len(writer) \in Nat /\ Got \in Nat
    BY LenProperties DEF StampLines, OfKind, SessionTypes, HandlerTypeOK, Got
<1>1. ASSUME UNCHANGED <<timestamps, writer>>,
             hpc' \in {"totals", "done", "closed"} <=> hpc \in {"totals", "done", "closed"}
      PROVE  StampInv'
    BY <1>1 DEF StampInv, StampsAt, StampLines, Got
<1>2. CASE Taking
  <2>1. hpc = "ready" /\ hpc' \in {"ready", "stopping"}
      BY <1>2, TakingFacts, HeaderWritten DEF Taking
  <2>2. StampLines = {}
      BY <2>1 DEF StampInv
  <2>3. StampLines' = {}
    <3>1. CASE writer' = writer
        BY <2>2, <3>1 DEF StampLines
    <3>2. CASE \E e \in Lines : writer' = Append(writer, e) /\ e.kind = "header"
      <4> PICK e \in Lines : writer' = Append(writer, e) /\ e.kind = "header"
          BY <3>2
      <4> QED
          BY <1>0, <2>2, OfKindAppend
    <3> QED
        BY <1>2, <3>1, <3>2, HeaderWritten
  <2> QED
      BY <2>1, <2>3 DEF StampInv
<1>3. CASE Working
  <2>1. timestamps' = timestamps /\ Got' = Got
      BY <1>3, WorkingFacts DEF Got
  <2>2. CASE /\ writer' = writer
             /\ \/ hpc' = hpc
                \/ hpc \in {"stopping", "clearing"} /\ hpc' \in {"clearing", "dumping"}
                \/ hpc = "done" /\ hpc' = "closed"
      BY <1>1, <2>1, <2>2
  <2>3. ASSUME NEW e \in Lines, writer' = Append(writer, e), e.kind \in {"reading", "trailer"},
               hpc' = hpc \/ (hpc = "totals" /\ hpc' = "done")
        PROVE  StampInv'
    <3>1. /\ Len(writer') = Len(writer) + 1 /\ \A i \in 1..Len(writer) : writer'[i] = writer[i]
          /\ StampLines' = StampLines
        BY <1>0, <2>3, OfKindAppend
    <3>2. CASE hpc \in {"totals", "done", "closed"}
      <4>1. PICK a \in 0..Len(writer) : StampsAt(a)
          BY <3>2 DEF StampInv
      <4>2. a + Got <= Len(writer') /\ a \in 0..Len(writer')
          BY <1>0, <3>1, <4>1 DEF StampsAt
      <4>3. ASSUME NEW i \in 1..Got
            PROVE  writer'[a + i] = Line("stamp", timestamps[i].ts, 0)
        <5>1. a + i \in 1..Len(writer)
            BY <1>0, <4>1 DEF StampsAt
        <5> QED
            BY <3>1, <4>1, <5>1 DEF StampsAt
      <4>4. StampLines' = (a + 1)..(a + Got)
          BY <3>1, <4>1 DEF StampsAt
      <4>5. StampsAt(a)'
          BY <2>1, <4>2, <4>3, <4>4 DEF StampsAt
      <4>6. hpc' \in {"totals", "done", "closed"}
          BY <2>3, <3>2
      <4> QED
          BY <4>2, <4>5, <4>6 DEF StampInv
    <3>3. CASE hpc \notin {"totals", "done", "closed"}
        BY <2>3, <3>1, <3>3 DEF StampInv
    <3> QED
        BY <3>2, <3>3
  <2>4. CASE DumpTimestamps
    <3>1. /\ Len(writer') = Len(writer) + Got
          /\ \A i \in 1..Got : writer'[Len(writer) + i] = Line("stamp", timestamps[i].ts, 0)
          /\ StampLines' = StampLines \cup (Len(writer) + 1)..(Len(writer) + Got)
        BY <1>0, <2>4, Dumped DEF SessionTypes
    <3>2. hpc = "dumping" /\ hpc' = "totals"
        BY <2>4 DEF DumpTimestamps
    <3>3. StampLines = {}
        BY <3>2 DEF StampInv
    <3>4. \E a \in 0..Len(writer') :
              /\ a + Got <= Len(writer')
              /\ \A i \in 1..Got : writer'[a + i] = Line("stamp", timestamps[i].ts, 0)
              /\ StampLines' = (a + 1)..(a + Got)
      <4>1. Len(writer) \in 0..Len(writer') /\ Len(writer) + Got <= Len(writer')
          BY <1>0, <3>1
      <4> QED
          BY <3>1, <3>3, <4>1
    <3> QED
        BY <2>1, <3>2, <3>4 DEF StampInv, StampsAt
  <2> QED
      BY <1>3, <2>2, <2>3, <2>4, Written DEF SessionTypes
<1>4. CASE Aside
    BY <1>1, <1>4 DEF Aside, handlerVars
<1>5. ASSUME NEW tag \in {"START", "TAG", "END"}, NEW next, Sending(tag, next)
      PROVE  StampInv'
    BY <1>1, <1>5 DEF Sending, handlerVars
<1> QED
    BY <1>2, <1>3, <1>4, <1>5, SessionCases

-----------------------------------------------------------------------------
(* Theorems *)

LEMMA SessionInitially == Init => SessionInv
<1> SUFFICES ASSUME Init PROVE SessionInv
    OBVIOUS
<1>1. /\ HandlerTypeOK /\ timestamps = <<>> /\ writer = <<>> /\ starts = 0 /\ hpc = "ready"
      /\ sent = <<>> /\ c2s = <<>> /\ s2c = 0 /\ cpc = "connect" /\ spc = "boot"
    BY HandlerTypes DEF Init, HandlerInit
<1>2. /\ <<>> \in Seq(Stamps) /\ Len(<<>>) = 0 /\ Got = 0 /\ Len(sent) = 0 /\ Len(c2s) = 0
      /\ Len(writer) = 0
    BY <1>1, EmptySeq DEF Got
<1>3. SessionTypes
    BY <1>1, <1>2 DEF SessionTypes
<1>4. LinkInv
    BY <1>2 DEF LinkInv
<1>5. \A k : Num(0, k) = 0 /\ Count(k) = 0
  <2>1. Cardinality({}) = 0
      BY FS_EmptySet
  <2>2. \A k : Tagged(sent, 0, k) = {}
      BY DEF Tagged
  <2> QED
      BY <1>2, <2>1, <2>2, CountNum DEF Num
<1>6. ClientInv
  <2>1. MaxStarts \in Nat /\ MaxTags \in Nat
      BY HandlerAssumption
  <2>2. Count("START") = 0 /\ Count("TAG") = 0
      BY <1>5
  <2> QED
      BY <1>1, <1>2, <2>1, <2>2 DEF ClientInv
<1>7. Headers = {} /\ StampLines = {} /\ Pending = {}
    BY <1>2 DEF Headers, StampLines, Pending
<1>8. ServerInv
    BY <1>1, <1>2, <1>5, <1>7, FS_EmptySet DEF ServerInv
<1>9. HandshakeInv /\ StampInv
    BY <1>1, <1>7 DEF HandshakeInv, StampInv
<1> QED
    BY <1>3, <1>4, <1>6, <1>8, <1>9 DEF SessionInv

\* SessionInv holds in every session, whatever the client sends, whichever
\* process dies and whenever the driver calls back.
THEOREM SessionSafety == Spec => []SessionInv
<1>1. SessionInv /\ [Next]_sessionVars => SessionInv'
  <2> SUFFICES ASSUME SessionInv, [Next]_sessionVars PROVE SessionInv'
      OBVIOUS
  <2>1. SessionTypes'
      BY TypesStep DEF SessionInv
  <2>2. LinkInv' /\ ClientInv'
      BY LinkStep, ClientStep DEF SessionInv
  <2>3. ServerInv' /\ HandshakeInv' /\ StampInv'
      BY <2>1, ServerStep, HandshakeStep, StampStep DEF SessionInv
  <2> QED
      BY <2>1, <2>2, <2>3 DEF SessionInv
<1> QED
    BY <1>1, SessionInitially, PTL DEF Spec

\* The reply to one start never lets the client past another: a client that
\* goes on while its server lives has the header of each of its starts in the
\* file (handleSessionStart calls startHandler before it replies).
THEOREM HandshakeHolds == Spec => []HandshakeAfterHeader
<1>1. SessionInv => HandshakeAfterHeader
  <2> SUFFICES ASSUME SessionInv, cpc = "ready", ~ServerGone
               PROVE  Cardinality(Headers) = Count("START")
      BY DEF HandshakeAfterHeader
  <2>1. Got \in Nat /\ Len(c2s) \in Nat /\ Len(sent) = Got + Len(c2s)
      BY LenProperties DEF SessionInv, LinkInv, SessionTypes, HandlerTypeOK, Got
  <2>2. Pending = {}
      BY DEF SessionInv, HandshakeInv
  <2>3. Tagged(sent, Len(sent), "START") = Tagged(sent, Got, "START")
    <3>1. ASSUME NEW i \in 1..Len(sent) PROVE i \in 1..Got \/ i \in (Got + 1)..Len(sent)
        BY <2>1
    <3>2. ASSUME NEW i \in 1..Got PROVE i \in 1..Len(sent)
        BY <2>1
    <3> QED
        BY <2>2, <3>1, <3>2 DEF Tagged, Pending
  <2>4. Cardinality(Headers) = Num(Got, "START")
      BY DEF SessionInv, ServerInv
  <2> QED
      BY <2>3, <2>4, CountNum DEF Num
<1> QED
    BY <1>1, SessionSafety, PTL

\* A session drives the handler only as HandlerSpec allows: the server's loop
\* passes the client's calls on once, in order and with the client's times.
THEOREM SessionImplementsHandler == Spec => HandlerSpec
<1>1. Init => HandlerInit
    BY DEF Init
<1>2. SessionInv /\ [Next]_sessionVars => [HandlerNext]_handlerVars
    BY HandlerStep DEF SessionInv
<1> QED
    BY <1>1, <1>2, SessionSafety, PTL DEF Spec, HandlerSpec

\* So the file of a session of one start, of a client that may die, ends with
\* its whole report, and the meter is shut down when it does.
THEOREM SessionReport ==
    Disciplined /\ StopWaits => (Spec => [](FinalReport /\ MeterShutDown /\ TotalMatchesReadings))
BY SessionImplementsHandler, FinalReportHolds, MeterShutDownHolds, TotalMatchesReadingsHolds, PTL

-----------------------------------------------------------------------------
(* The refinement *)

\* The k-th stamp of the file is in the k-th line of the block that holds them.
LEMMA StampsInOrder ==
    ASSUME NEW a \in Nat, NEW n \in Nat, StampLines = (a + 1)..(a + n)
    PROVE  /\ Cardinality(StampLines) = n
           /\ \A k \in 1..n : StampLine(k) = a + k
<1>1. \A x, y \in Int : Cardinality(x..y) = IF x > y THEN 0 ELSE y - x + 1
    BY FS_Interval
<1>2. Cardinality((a + 1)..(a + n)) = n
    BY <1>1
<1>3. ASSUME NEW i \in StampLines PROVE Cardinality({j \in StampLines : j <= i}) = i - a
  <2>1. i \in (a + 1)..(a + n) /\ {j \in StampLines : j <= i} = (a + 1)..i
      OBVIOUS
  <2>2. Cardinality((a + 1)..i) = i - a
      BY <1>1, <2>1
  <2> QED
      BY <2>1, <2>2
<1>4. ASSUME NEW k \in 1..n
      PROVE  StampLine(k) = a + k
  <2>1. a + k \in StampLines
      OBVIOUS
  <2>2. Cardinality({j \in StampLines : j <= a + k}) = k
      BY <1>3, <2>1
  <2>3. ASSUME NEW i \in StampLines, Cardinality({j \in StampLines : j <= i}) = k
        PROVE  i = a + k
      BY <1>3, <2>3
  <2> QED
      BY <2>1, <2>2, <2>3 DEF StampLine
<1> QED
    BY <1>2, <1>4

\* What the file of an ended session reports is what the handler received.
LEMMA ReportedIs == SessionInv => Reported = IF Ended THEN timestamps ELSE <<>>
<1> SUFFICES ASSUME SessionInv, Ended PROVE Reported = timestamps
    BY DEF Reported
<1>1. /\ timestamps \in Seq(Stamps) /\ Got \in Nat /\ Len(writer) \in Nat /\ Len(c2s) \in Nat
      /\ Len(sent) \in Nat /\ Got <= Len(sent)
    BY LenProperties DEF SessionInv, SessionTypes, HandlerTypeOK, LinkInv, Got
<1>2. PICK a \in 0..Len(writer) : StampsAt(a)
    BY DEF SessionInv, StampInv, Ended
<1>3. Cardinality(StampLines) = Got /\ \A k \in 1..Got : StampLine(k) = a + k
    BY <1>1, <1>2, StampsInOrder DEF StampsAt
<1>4. StampsInFile = [k \in 1..Got |-> writer[a + k]]
    BY <1>3 DEF StampsInFile
<1>5. Len(StampsInFile) = Got
    BY <1>1, <1>4
<1>6. ASSUME NEW k \in 1..Got
      PROVE  (CHOOSE e \in {sent[j] : j \in 1..Len(sent)} : e.ts = StampsInFile[k].a)
                 = timestamps[k]
  <2>1. StampsInFile[k] = Line("stamp", timestamps[k].ts, 0)
      BY <1>2, <1>4 DEF StampsAt
  <2>2. k \in 1..Len(sent) /\ timestamps[k] = sent[k] /\ sent[k].ts = k
      BY <1>1 DEF SessionInv, LinkInv
  <2>3. StampsInFile[k].a = k
      BY <2>1, <2>2 DEF Line
  <2>4. \A j \in 1..Len(sent) : sent[j].ts = k => j = k
      BY DEF SessionInv, LinkInv
  <2> QED
      BY <2>2, <2>3, <2>4
<1>7. Reported = [k \in 1..Got |->
                     CHOOSE e \in {sent[j] : j \in 1..Len(sent)} : e.ts = StampsInFile[k].a]
    BY <1>5 DEF Reported
<1>8. Reported = [k \in 1..Got |-> timestamps[k]]
    BY <1>6, <1>7
<1>9. timestamps = [k \in 1..Got |-> timestamps[k]]
  <2>1. timestamps \in [1..Got -> Stamps]
      BY <1>1, LenProperties DEF Got
  <2> QED
      BY <2>1
<1> QED
    BY <1>8, <1>9

LEMMA RecordStep ==
    ASSUME SessionInv, SessionInv', [Next]_sessionVars
    PROVE  [AbstractRecord!RecordNext]_<<sent, timestamps, Reported>>
<1>0. /\ Reported = (IF Ended THEN timestamps ELSE <<>>)
      /\ Reported' = (IF Ended' THEN timestamps' ELSE <<>>)
  <2>1. Reported = (IF Ended THEN timestamps ELSE <<>>)
      BY ReportedIs
  <2>2. SessionInv' => (Reported = (IF Ended THEN timestamps ELSE <<>>))'
      BY ReportedIs, PTL
  <2> QED
      BY <2>1, <2>2
<1>1. ASSUME NEW tag \in {"START", "TAG", "END"}, NEW next, Sending(tag, next)
      PROVE  AbstractRecord!Produce
  <2>1. UNCHANGED <<timestamps, Reported>>
      BY <1>0, <1>1 DEF Sending, handlerVars, Ended
  <2>2. sent' = Append(sent, Stamp(tag, Len(sent) + 1)) /\ cpc = "ready"
      BY <1>1 DEF Sending
  <2>3. Len(sent) = Count("START") + Count("TAG")
        /\ Count("START") <= MaxStarts /\ Count("TAG") <= MaxTags
      BY <2>2 DEF SessionInv, ClientInv, Calling
  <2>4. /\ Count("START") \in Nat /\ Count("TAG") \in Nat
        /\ MaxStarts \in Nat /\ MaxTags \in Nat
      BY <1>1, SendCounts, HandlerAssumption DEF SessionInv
  <2>5. Len(sent) + 1 \in 1..MaxStarts + MaxTags + 1
      BY <2>3, <2>4
  <2>6. Stamp(tag, Len(sent) + 1) \in Events
      BY <2>5 DEF Stamp, Events
  <2> QED
      BY <2>1, <2>2, <2>6 DEF AbstractRecord!Produce
<1>2. CASE Taking
  <2>1. /\ Got \in Nat /\ Len(sent) \in Nat /\ Got + 1 <= Len(sent) /\ hpc = "ready"
        /\ timestamps' = Append(timestamps, sent[Got + 1]) /\ sent' = sent
      BY <1>2, TakingFacts DEF SessionInv, Taking
  <2>2. hpc' \in {"ready", "stopping"}
      BY <1>2 DEF Taking, StartHandler, TagHandler, EndHandler
  <2>3. Reported = <<>> /\ Reported' = <<>>
      BY <1>0, <2>1, <2>2 DEF Ended
  <2>4. AbstractRecord!Record
      BY <2>1, <2>3 DEF AbstractRecord!Record, Got
  <2> QED
      BY <2>4 DEF AbstractRecord!RecordNext
<1>3. CASE Working
  <2>1. UNCHANGED <<sent, timestamps>>
      BY <1>3, WorkingFacts
  <2>2. Ended => Ended'
      BY <1>3, Written DEF SessionInv, SessionTypes, Ended, DumpTimestamps
  <2>3. CASE Ended' <=> Ended
      BY <1>0, <2>1, <2>3
  <2>4. CASE ~Ended /\ Ended'
    <3>1. hpc # "ready"
        BY <1>3, <2>4, WorkingFacts DEF Ended
    <3>2. Got > 0 /\ timestamps[Got].tag = "END"
        BY <3>1 DEF SessionInv, ServerInv
    <3>3. timestamps # <<>>
        BY <3>2, EmptySeq DEF Got
    <3>4. AbstractRecord!Report
        BY <1>0, <2>1, <2>4, <3>2, <3>3 DEF AbstractRecord!Report, Got
    <3> QED
        BY <3>4 DEF AbstractRecord!RecordNext
  <2> QED
      BY <2>2, <2>3, <2>4
<1>4. CASE Aside
    BY <1>0, <1>4 DEF Aside, handlerVars, Ended
<1> QED
    BY <1>1, <1>2, <1>3, <1>4, SessionCases DEF AbstractRecord!RecordNext

\* A session implements SessionRecord: what the client sends is recorded once
\* and in order, and the file of an ended session reports the record once and
\* whole, whoever dies and whatever callbacks write around it.
THEOREM SessionImplementsRecord == Spec => ImplementsRecord
<1>1. Init => AbstractRecord!RecordInit
  <2> SUFFICES ASSUME Init PROVE AbstractRecord!RecordInit
      OBVIOUS
  <2>1. sent = <<>> /\ timestamps = <<>> /\ ~Ended
      BY DEF Init, HandlerInit, Ended
  <2>2. Reported = <<>>
      BY <2>1 DEF Reported
  <2> QED
      BY <2>1, <2>2 DEF AbstractRecord!RecordInit
<1>2. SessionInv /\ SessionInv' /\ [Next]_sessionVars
        => [AbstractRecord!RecordNext]_<<sent, timestamps, Reported>>
    BY RecordStep
<1> QED
    BY <1>1, <1>2, SessionSafety, PTL
    DEF Spec, ImplementsRecord, AbstractRecord!RecordSpec, AbstractRecord!recordVars

-----------------------------------------------------------------------------
(* The configuration *)

\* A line that has a delimiter has a first one.
LEMMA DelimiterIs ==
    ASSUME NEW line \in Seq(STRING), Delimited(line)
    PROVE  LET k == Delimiter(line)
           IN  k \in 1..Len(line) /\ line[k] = "=" /\ \A j \in 1..k-1 : line[j] # "="
<1> DEFINE T == {k \in 1..Len(line) : line[k] = "="}
           Rel == OpToRel(<, Nat)
<1>0. Len(line) \in Nat
    BY LenProperties
<1>1. T \subseteq Nat /\ T # {}
    BY <1>0 DEF Delimited
<1>2. PICK x \in T : \A y \in T : ~(<<y, x>> \in Rel)
  <2>1. IsWellFoundedOn(Rel, Nat)
      BY NatLessThanWellFounded
  <2> HIDE DEF Rel, T
  <2> QED
      BY <1>1, <2>1, WFMin
<1>3. x \in 1..Len(line) /\ line[x] = "="
    OBVIOUS
<1>4. ASSUME NEW j \in 1..x-1 PROVE line[j] # "="
  <2>1. j \in 1..Len(line) /\ j \in Nat /\ x \in Nat /\ j < x
      BY <1>0, <1>3
  <2>2. <<j, x>> \in Rel
      BY <2>1 DEF OpToRel
  <2> QED
      BY <1>2, <2>1, <2>2
<1> HIDE DEF T, Rel
<1> QED
    BY <1>3, <1>4 DEF Delimiter

\* A line that gives key a value, as the property sees it.
Gives(line, key) == Len(line) > 2 /\ line[1] = key /\ line[2] = "="

\* The code finds the key and the value in exactly these lines.
LEMMA PairIs ==
    ASSUME NEW line \in Seq(STRING), NEW key \in Keys
    PROVE  /\ ~Skipped(line) /\ findPair(line).ok /\ findPair(line).key = <<key>>
                <=> Gives(line, key)
           /\ Gives(line, key) => findPair(line).value = SubSeq(line, 3, Len(line))
<1> DEFINE k == Delimiter(line)
<1>0. Len(line) \in Nat /\ key # "=" /\ key # "#"
  <2>1. key # "=" /\ key # "#"
      BY DEF Keys
  <2> QED
      BY <2>1, LenProperties
<1>1. ASSUME NEW a \in 1..Len(line) + 1, NEW b \in 0..Len(line)
      PROVE  /\ Len(SubSeq(line, a, b)) = IF a <= b THEN b - a + 1 ELSE 0
             /\ SubSeq(line, a, b) # <<>> <=> a <= b
             /\ a = 1 /\ b = 1 => SubSeq(line, a, b) = <<line[1]>>
  <2> DEFINE t == SubSeq(line, a, b)
  <2>1. a \in Int /\ b \in Int /\ \A i \in a..b : line[i] \in STRING
    <3>1. a \in Int /\ b \in Int /\ \A i \in a..b : i \in 1..Len(line)
        BY <1>0
    <3> QED
        BY <3>1, ElementOfSeq
  <2>2. /\ t \in Seq(STRING) /\ Len(t) = IF a <= b THEN b - a + 1 ELSE 0
        /\ \A i \in 1..b-a+1 : t[i] = line[a + i - 1]
      BY <2>1, SubSeqProperties
  <2> HIDE DEF t
  <2>3. t # <<>> <=> a <= b
      BY <2>1, <2>2, EmptySeq
  <2>4. ASSUME a = 1, b = 1 PROVE t = <<line[1]>>
    <3>1. Len(t) = 1 /\ t[1] = line[1]
        BY <2>2, <2>4
    <3> QED
        BY <2>2, <3>1
  <2> QED
      BY <2>2, <2>3, <2>4 DEF t
<1>2. Delimited(line) =>
        /\ findPair(line).ok <=> SubSeq(line, 1, k - 1) # <<>> /\ SubSeq(line, k + 1, Len(line)) # <<>>
        /\ findPair(line).key = SubSeq(line, 1, k - 1)
        /\ findPair(line).value = SubSeq(line, k + 1, Len(line))
    BY DEF findPair
<1>3. ~Delimited(line) => ~findPair(line).ok
    BY DEF findPair
<1>4. Delimited(line) => k \in 1..Len(line) /\ line[k] = "=" /\ \A j \in 1..k-1 : line[j] # "="
    BY DelimiterIs
<1> HIDE DEF k
<1>5. ASSUME findPair(line).ok, findPair(line).key = <<key>>
      PROVE  Gives(line, key)
  <2>1. Delimited(line) /\ k \in 1..Len(line) /\ line[k] = "="
      BY <1>3, <1>4, <1>5
  <2>2. SubSeq(line, 1, k - 1) = <<key>> /\ SubSeq(line, k + 1, Len(line)) # <<>>
      BY <1>2, <1>5, <2>1
  <2>3. Len(SubSeq(line, 1, k - 1)) = k - 1
      BY <1>0, <1>1, <2>1
  <2>4. k = 2
    <3>1. Len(<<key>>) = 1
        OBVIOUS
    <3>2. k - 1 = 1
        BY <2>2, <2>3, <3>1, Zenon
    <3> QED
        BY <1>0, <2>1, <3>2
  <2>5. SubSeq(line, 1, 1) = <<line[1]>> /\ line[1] = key
      BY <1>0, <1>1, <2>1, <2>2, <2>4
  <2>6. Len(line) > 2
      BY <1>0, <1>1, <2>1, <2>2, <2>4
  <2> QED
      BY <2>1, <2>4, <2>5, <2>6 DEF Gives
<1>6. ASSUME Gives(line, key)
      PROVE  /\ ~Skipped(line) /\ findPair(line).ok /\ findPair(line).key = <<key>>
             /\ findPair(line).value = SubSeq(line, 3, Len(line))
  <2>1. Len(line) > 2 /\ line[1] = key /\ line[2] = "=" /\ 2 \in 1..Len(line) /\ 1 \in 1..Len(line)
      BY <1>0, <1>6 DEF Gives
  <2>2. Delimited(line)
      BY <2>1 DEF Delimited
  <2>3. k = 2
    <3>1. k # 1
        BY <1>0, <1>4, <2>1, <2>2
    <3>2. k > 2 => 2 \in 1..k-1
        BY <1>4, <2>2
    <3> QED
        BY <1>4, <2>1, <2>2, <3>1, <3>2
  <2>4. SubSeq(line, 1, 1) = <<line[1]>> /\ SubSeq(line, 1, 1) # <<>>
      BY <1>0, <1>1, <2>1
  <2>5. SubSeq(line, 3, Len(line)) # <<>>
    <3>1. 3 \in 1..Len(line) + 1 /\ Len(line) \in 0..Len(line) /\ 3 <= Len(line)
        BY <1>0, <2>1
    <3> QED
        BY <1>1, <3>1
  <2>6. line # <<>> /\ Head(line) = line[1]
      BY <2>1, EmptySeq
  <2>7. ~Skipped(line)
      BY <1>0, <2>1, <2>6 DEF Skipped
  <2> QED
      BY <1>2, <2>1, <2>2, <2>3, <2>4, <2>5, <2>7
<1> QED
    BY <1>5, <1>6

Empty == [ok |-> TRUE, map |-> {}]

\* The turns of the loop of createConfigurationMap, up to line n.
IsRead(c, lines, n) ==
    c = [k \in 0..n |-> IF k = 0 THEN Empty ELSE AddLine(c[k - 1], lines[k])]

\* The recursion of createConfigurationMap defines a function.
LEMMA ReadExists == ASSUME NEW lines, NEW m \in Nat PROVE \E c : IsRead(c, lines, m)
<1> DEFINE S == {n \in Nat : \E c : IsRead(c, lines, n)}
<1>1. 0 \in S
  <2>1. IsRead([k \in 0..0 |-> Empty], lines, 0)
      BY DEF IsRead
  <2> QED
      BY <2>1
<1>2. ASSUME NEW n \in Nat, n \in S PROVE n + 1 \in S
  <2>1. PICK c : IsRead(c, lines, n)
      BY <1>2
  <2> DEFINE d == [k \in 0..n + 1 |-> IF k = n + 1 THEN AddLine(c[n], lines[n + 1]) ELSE c[k]]
  <2>2. ASSUME NEW k \in 0..n + 1
        PROVE  d[k] = IF k = 0 THEN Empty ELSE AddLine(d[k - 1], lines[k])
    <3>1. CASE k = n + 1
      <4>1. k - 1 = n /\ k - 1 \in 0..n + 1 /\ k - 1 # n + 1 /\ k # 0
          BY <3>1
      <4> QED
          BY <3>1, <4>1
    <3>2. CASE k # n + 1
      <4>1. k \in 0..n
          BY <3>2
      <4>2. d[k] = c[k] /\ c[k] = IF k = 0 THEN Empty ELSE AddLine(c[k - 1], lines[k])
          BY <2>1, <3>2, <4>1 DEF IsRead
      <4>3. k # 0 => d[k - 1] = c[k - 1]
          BY <4>1
      <4> QED
          BY <4>2, <4>3
    <3> QED
        BY <3>1, <3>2
  <2>3. IsRead(d, lines, n + 1)
    <3>1. d = [k \in 0..n + 1 |-> d[k]]
        OBVIOUS
    <3> HIDE DEF d
    <3> QED
        BY <2>2, <3>1 DEF IsRead
  <2> HIDE DEF d
  <2> QED
      BY <2>3
<1> HIDE DEF S
<1>3. m \in S
    BY <1>1, <1>2, SetInduction
<1> QED
    BY <1>3 DEF S

\* The first k lines gave c: the pairs of the lines that are not skipped, each
\* with a key of its own, if there was no error.
Used(lines, k) == {i \in 1..k : ~Skipped(lines[i])}
Collected(c, lines, k) ==
    /\ c = [ok |-> c.ok, map |-> c.map] /\ c.ok \in BOOLEAN
    /\ c.ok => /\ c.map = {findPair(lines[i]) : i \in Used(lines, k)}
               /\ \A i \in Used(lines, k) : findPair(lines[i]).ok
               /\ \A i, j \in Used(lines, k) :
                     findPair(lines[i]).key = findPair(lines[j]).key => i = j

LEMMA CollectedNext ==
    ASSUME NEW c, NEW lines, NEW k \in Nat, Collected(c, lines, k)
    PROVE  Collected(AddLine(c, lines[k + 1]), lines, k + 1)
<1> DEFINE line == lines[k + 1]
           pair == findPair(line)
           d == AddLine(c, line)
<1>0. c = [ok |-> c.ok, map |-> c.map] /\ c.ok \in BOOLEAN
    BY DEF Collected
<1>1. \A i : i \in Used(lines, k + 1) <=> i \in Used(lines, k) \/ (i = k + 1 /\ ~Skipped(line))
  <2>1. \A i : i \in 1..k + 1 <=> i \in 1..k \/ i = k + 1
      OBVIOUS
  <2> QED
      BY <2>1 DEF Used
<1>2. k + 1 \notin Used(lines, k)
    BY DEF Used
<1>3. CASE ~c.ok \/ Skipped(line)
  <2>1. d = c
      BY <1>3 DEF AddLine
  <2>2. c.ok => Used(lines, k + 1) = Used(lines, k)
      BY <1>1, <1>3
  <2> HIDE DEF d, line
  <2>3. Collected(c, lines, k + 1)
      BY <2>2 DEF Collected
  <2> QED
      BY <2>1, <2>3 DEF d, line
<1>4. CASE c.ok /\ ~Skipped(line) /\ (~pair.ok \/ \E e \in c.map : e.key = pair.key)
  <2>1. d = [c EXCEPT !.ok = FALSE]
      BY <1>4 DEF AddLine
  <2>2. d = [ok |-> FALSE, map |-> c.map]
      BY <1>0, <2>1
  <2> HIDE DEF d, line
  <2>3. Collected(d, lines, k + 1)
      BY <2>2 DEF Collected
  <2> QED
      BY <2>3 DEF d, line
<1>5. CASE c.ok /\ ~Skipped(line) /\ pair.ok /\ ~\E e \in c.map : e.key = pair.key
  <2>1. d = [c EXCEPT !.map = @ \cup {pair}]
      BY <1>5 DEF AddLine
  <2>2. d = [ok |-> c.ok, map |-> c.map \cup {pair}]
      BY <1>0, <2>1
  <2>3. /\ c.map = {findPair(lines[i]) : i \in Used(lines, k)}
        /\ \A i \in Used(lines, k) : findPair(lines[i]).ok
        /\ \A i, j \in Used(lines, k) :
              findPair(lines[i]).key = findPair(lines[j]).key => i = j
      BY <1>5 DEF Collected
  <2>4. \A i \in Used(lines, k) : findPair(lines[i]).key # findPair(lines[k + 1]).key
      BY <1>5, <2>3
  <2>5. d.map = {findPair(lines[i]) : i \in Used(lines, k + 1)}
    <3>1. d.map = c.map \cup {findPair(lines[k + 1])}
        BY <2>2
    <3> QED
        BY <1>1, <1>5, <2>3, <3>1
  <2>6. \A i \in Used(lines, k + 1) : findPair(lines[i]).ok
      BY <1>1, <1>5, <2>3
  <2>7. \A i, j \in Used(lines, k + 1) :
            findPair(lines[i]).key = findPair(lines[j]).key => i = j
      BY <1>1, <2>3, <2>4
  <2>8. d = [ok |-> d.ok, map |-> d.map] /\ d.ok \in BOOLEAN
      BY <1>0, <2>2
  <2> HIDE DEF d
  <2>9. Collected(d, lines, k + 1)
      BY <2>5, <2>6, <2>7, <2>8 DEF Collected
  <2> QED
      BY <2>9 DEF d
<1> QED
    BY <1>0, <1>3, <1>4, <1>5

LEMMA FileCollected ==
    ASSUME NEW lines \in Seq(Seq(STRING))
    PROVE  Collected(createConfigurationMap(lines), lines, Len(lines))
<1>0. Len(lines) \in Nat
    BY LenProperties
<1> DEFINE c == CHOOSE c : IsRead(c, lines, Len(lines))
<1>1. IsRead(c, lines, Len(lines))
    BY <1>0, ReadExists
<1>2. createConfigurationMap(lines) = c[Len(lines)]
    BY DEF createConfigurationMap, IsRead, Empty
<1> HIDE DEF c
<1> DEFINE S == {k \in Nat : k <= Len(lines) => Collected(c[k], lines, k)}
<1>3. 0 \in S
  <2>1. c[0] = Empty
      BY <1>0, <1>1 DEF IsRead
  <2>2. Used(lines, 0) = {}
      BY DEF Used
  <2>3. Collected(Empty, lines, 0)
      BY <2>2 DEF Collected, Empty
  <2> QED
      BY <2>1, <2>3
<1>4. ASSUME NEW k \in Nat, k \in S PROVE k + 1 \in S
  <2> SUFFICES ASSUME k + 1 <= Len(lines) PROVE Collected(c[k + 1], lines, k + 1)
      OBVIOUS
  <2>1. k + 1 \in 0..Len(lines) /\ k + 1 # 0 /\ (k + 1) - 1 = k /\ k <= Len(lines)
      BY <1>0
  <2>2. c[k + 1] = AddLine(c[k], lines[k + 1])
      BY <1>1, <2>1 DEF IsRead
  <2>3. Collected(c[k], lines, k)
      BY <1>4, <2>1
  <2> QED
      BY <2>2, <2>3, CollectedNext
<1> HIDE DEF S
<1>5. Len(lines) \in S
    BY <1>0, <1>3, <1>4, SetInduction
<1> QED
    BY <1>0, <1>2, <1>5 DEF S

\* A file that is accepted has one line for each key, and get returns all that
\* follows the delimiter there.
LEMMA KeyGiven ==
    ASSUME file \in Seq(Seq(STRING)), Configured(createConfigurationMap(file)), NEW key \in Keys
    PROVE  /\ Cardinality(LinesFor(key)) = 1
           /\ get(createConfigurationMap(file), key) = Given(key)
<1> DEFINE c == createConfigurationMap(file)
           n == Len(file)
<1>1. Collected(c, file, n)
    BY FileCollected
<1>2. c.ok /\ Specified(c, key)
    BY DEF Configured
<1> HIDE DEF c
<1>3. /\ c.map = {findPair(file[i]) : i \in Used(file, n)}
      /\ \A i \in Used(file, n) : findPair(file[i]).ok
      /\ \A i, j \in Used(file, n) : findPair(file[i]).key = findPair(file[j]).key => i = j
    BY <1>1, <1>2 DEF Collected
<1>4. PICK i \in Used(file, n) : findPair(file[i]).key = <<key>>
    BY <1>2, <1>3 DEF Specified
<1>5. \A j \in 1..n : file[j] \in Seq(STRING)
    BY ElementOfSeq
<1>6. \A j \in 1..n : Gives(file[j], key)
                        <=> j \in Used(file, n) /\ findPair(file[j]).key = <<key>>
  <2> TAKE j \in 1..n
  <2>1. /\ ~Skipped(file[j]) /\ findPair(file[j]).ok /\ findPair(file[j]).key = <<key>>
             <=> Gives(file[j], key)
      BY <1>5, PairIs
  <2>2. j \in Used(file, n) <=> ~Skipped(file[j])
      BY DEF Used
  <2> QED
      BY <1>3, <2>1, <2>2
<1>7. i \in 1..n /\ \A j \in 1..n : Gives(file[j], key) <=> j = i
  <2>1. i \in 1..n
      BY DEF Used
  <2> QED
      BY <1>3, <1>4, <1>6, <2>1
<1>8. LinesFor(key) = {i}
    BY <1>7 DEF LinesFor, Gives
<1>9. Cardinality(LinesFor(key)) = 1
    BY <1>8, FS_Singleton
<1>10. Given(key) = SubSeq(file[i], 3, Len(file[i]))
    BY <1>8 DEF Given
<1>11. findPair(file[i]).value = SubSeq(file[i], 3, Len(file[i]))
    BY <1>5, <1>7, PairIs
<1>12. get(c, key) = findPair(file[i]).value
  <2>1. findPair(file[i]) \in c.map
      BY <1>3
  <2>2. \A e \in c.map : e.key = <<key>> => e = findPair(file[i])
      BY <1>3, <1>4
  <2> QED
      BY <1>4, <2>1, <2>2 DEF get
<1> QED
    BY <1>9, <1>10, <1>11, <1>12 DEF c

\* The server keeps the configuration that it read from its file.
ConfigInv ==
    /\ file \in Seq(Seq(STRING))
    /\ config # NoConfig => /\ Configured(createConfigurationMap(file))
                            /\ config = configure(createConfigurationMap(file))

LEMMA ConfigStep ==
    ASSUME ConfigInv, [Next]_sessionVars
    PROVE  ConfigInv'
<1>1. CASE Configure
    BY <1>1 DEF Configure, ConfigInv
<1>2. CASE Client \/ KillClient
    BY <1>2 DEF Client, KillClient, Connect, SendSessionStart, SendTag, SendSessionEnd, Send,
       ReadResponse, ReadResponseEof, CloseClient, ConfigInv
<1>3. CASE \/ Listen \/ Accept \/ HandleSessionStart \/ Reply \/ HandleTag \/ HandleSessionEnd
           \/ FinishEnd \/ ReadEof \/ KillServer \/ DriverStep
    BY <1>3 DEF Listen, Accept, HandleSessionStart, Reply, HandleTag, HandleSessionEnd,
       FinishEnd, ReadEof, KillServer, DriverStep, ConfigInv
<1>4. CASE Spin \/ Quiet \/ UNCHANGED sessionVars
    BY <1>4 DEF Spin, Quiet, sessionVars, ConfigInv
<1> QED
    BY <1>1, <1>2, <1>3, <1>4 DEF Next, Server

\* Whatever the files hold: a server that goes on past its configuration has a
\* file that gives every key once, and for each key the value that the file
\* gives (createConfigurationMap, findPair, configure).
THEOREM ConfigurationReadHolds == Spec => []ConfigurationRead
<1>1. Init => ConfigInv
    BY SessionAssumption DEF Init, ConfigInv
<1>2. ConfigInv /\ [Next]_sessionVars => ConfigInv'
    BY ConfigStep
<1>3. ConfigInv => ConfigurationRead
  <2> SUFFICES ASSUME ConfigInv, config # NoConfig PROVE ConfigurationRead
      BY DEF ConfigurationRead
  <2> DEFINE c == createConfigurationMap(file)
  <2>1. config = configure(c)
      BY DEF ConfigInv
  <2>2. \A key \in Keys : Cardinality(LinesFor(key)) = 1 /\ get(c, key) = Given(key)
      BY KeyGiven DEF ConfigInv
  <2> HIDE DEF c
  <2>3. /\ config.channelDescription = get(c, "NIDAQmxChannelDescription")
        /\ config.port = stoi(get(c, "port"))
        /\ config.bufferSize = config.numChannels * config.sampleRate
        /\ config.channelVoltages = stringToDoubleArray(get(c, "NIDAQmxChannelVoltages"))
      BY <2>1 DEF configure
  <2>4. /\ get(c, "NIDAQmxChannelDescription") = Given("NIDAQmxChannelDescription")
        /\ get(c, "port") = Given("port")
        /\ get(c, "NIDAQmxChannelVoltages") = Given("NIDAQmxChannelVoltages")
      BY <2>2 DEF Keys
  <2>5. config.port = Number[Words(Given("port"))[1]]
      BY <2>3, <2>4 DEF stoi
  <2>6. DOMAIN config.channelVoltages = 1..Len(Words(Given("NIDAQmxChannelVoltages")))
      BY <2>3, <2>4 DEF stringToDoubleArray
  <2> QED
      BY <2>2, <2>3, <2>4, <2>5, <2>6 DEF ConfigurationRead
<1> QED
    BY <1>1, <1>2, <1>3, PTL DEF Spec
=============================================================================
