------------------------- MODULE MeterServer_proofs -------------------------
(***************************************************************************)
(* Proofs about MeterServer and the Watts Up driver in it, for any         *)
(* readings, any clock and any number of records and RESETs.  DriverInv is *)
(* about the reader thread and the record it exchanges with the monitor,   *)
(* EnergyInv about the energy counter.                                     *)
(***************************************************************************)
EXTENDS MeterServer, SequenceTheorems, TLAPS

DriverTypes ==
    /\ wire \in Seq(Records) /\ sent \in Nat /\ talking \in BOOLEAN
    /\ sBuffer \in Records /\ asyncBuffer \in Records
    /\ asyncValid \in Nat /\ taken \in Nat

DriverInv == DriverTypes /\ StoredIsMarked

EnergyTypes ==
    /\ value \in Int /\ scale \in Nat /\ now \in Nat /\ last_tv \in Nat
    /\ msr \in Nat /\ last_package \in Nat
    /\ cumulative_energy \in Int /\ loaded \in Int
    /\ exact \in Int /\ n \in Nat /\ raced \in BOOLEAN

\* The interval that is added starts where the last one ended, and what
\* integrate has loaded is the counter unless a RESET came in between.
EnergyInv ==
    /\ EnergyTypes
    /\ prev = last_tv
    /\ mpc = "add" /\ ~raced => loaded = cumulative_energy
    /\ EnergyCounted

ServerInv == DriverInv /\ EnergyInv

-----------------------------------------------------------------------------
(* The driver *)

LEMMA RecordFacts ==
    /\ <<>> \in Seq(Records) /\ NoRecord \in Records
    /\ \A rec \in Records : rec.n \in Nat /\ rec.w \in Nat
<1>1. <<>> \in Seq(Records) OBVIOUS
<1>2. NoRecord \in Records BY DEF Records, NoRecord
<1>3. ASSUME NEW rec \in Records PROVE rec.n \in Nat /\ rec.w \in Nat
  <2>1. rec.n \in Nat /\ rec.w \in Watts \cup {0} BY DEF Records
  <2>2. Watts \cup {0} \subseteq Nat BY WattsUpAssumption
  <2> QED BY <2>1, <2>2, Zenon
<1> QED BY <1>1, <1>2, <1>3

DriverAction == Emit \/ Unplug \/ Driver \/ Reader \/ CloseBegin \/ Take

LEMMA DriverActionKept == DriverInv /\ DriverAction => DriverInv'
<1> SUFFICES ASSUME DriverInv, DriverAction PROVE DriverInv'
  OBVIOUS
<1> USE WattsUpAssumption DEF DriverInv, DriverTypes, StoredIsMarked,
        readerVars, meterVars
<1>1. CASE Emit BY <1>1 DEF Emit, Records
<1>2. CASE Unplug BY <1>2 DEF Unplug
<1>3. CASE Driver
  <2>1. CASE Open BY <2>1, RecordFacts DEF Open
  <2>2. CASE Setup BY <2>2 DEF Setup, SetupFails
  <2>3. CASE CreateReader BY <2>3 DEF CreateReader
  <2>4. CASE Abandon BY <2>4 DEF Abandon
  <2>5. CASE Check BY <2>5 DEF Check, SetupFails
  <2>6. CASE CheckAgain BY <2>6 DEF CheckAgain
  <2>7. CASE CloseEnd BY <2>7 DEF CloseEnd
  <2> QED BY <1>3, <2>1, <2>2, <2>3, <2>4, <2>5, <2>6, <2>7 DEF Driver
<1>4. CASE Reader
  <2>1. CASE ReaderTop BY <2>1 DEF ReaderTop
  <2>2. CASE ReadRecord
    <3>1. PICK j \in 1..Len(wire) :
             sBuffer' = Head(wire) /\ wire' = SubSeq(wire, j + 1, Len(wire))
      BY <2>2 DEF ReadRecord
    <3>2. wire # <<>> /\ athread = "reading" /\ athread' = "store"
      BY <2>2, <3>1 DEF ReadRecord
    <3>3. sBuffer' \in Records BY <3>1, <3>2, HeadTailProperties
    <3>4. wire' \in Seq(Records) BY <3>1, SubSeqProperties
    <3>5. UNCHANGED <<wpc, asyncBuffer, asyncValid, taken, talking, sent>>
      BY <2>2 DEF ReadRecord
    <3>6. DriverTypes' BY <3>3, <3>4, <3>5
    <3>7. StoredIsMarked' BY <3>5
    <3> QED BY <3>6, <3>7
  <2>3. CASE StoreRecord BY <2>3, RecordFacts DEF StoreRecord
  <2> QED BY <1>4, <2>1, <2>2, <2>3 DEF Reader
<1>5. CASE CloseBegin BY <1>5 DEF CloseBegin
<1>6. CASE Take BY <1>6, RecordFacts DEF Take
<1> QED BY <1>1, <1>2, <1>3, <1>4, <1>5, <1>6 DEF DriverAction

\* Whatever the server does to the driver is one of the driver's own steps.
LEMMA DriverUse == [Next]_vars => DriverAction \/ UNCHANGED wattsVars
<1> SUFFICES ASSUME [Next]_vars PROVE DriverAction \/ UNCHANGED wattsVars
  OBVIOUS
<1>1. CASE MserverMonitor \/ SensorMonitor \/ MloggerMonitor
  <2>1. CASE Monitor
    BY <2>1 DEF Monitor, Alloc, AllocFail, Top, TimeFails, EndLoop, MonitorReturns, DriverAction
  <2>2. CASE MserverIntegrate \/ SensorIntegrate \/ MloggerIntegrate
    BY <2>2 DEF MserverIntegrate, SensorIntegrate, MloggerIntegrate, LoadEnergy, StoreEnergy
  <2>3. CASE InitUsb \/ InitOther
    BY <2>3 DEF InitUsb, InitOther
  <2>4. CASE watts_up_usb_meter_read
    BY <2>4 DEF watts_up_usb_meter_read, ReadUsb, MissOnce, MissUsb, DriverAction
  <2>5. CASE RaplRead \/ RaplReadFails \/ MeterRead
    BY <2>5 DEF RaplRead, RaplReadFails, MeterRead
  <2> QED BY <1>1, <2>1, <2>2, <2>3, <2>4, <2>5 DEF MserverMonitor, SensorMonitor, MloggerMonitor
<1>2. CASE DriverStep \/ ReaderStep \/ MeterStep
  BY <1>2 DEF DriverStep, ReaderStep, MeterStep, DriverAction
<1>3. CASE MserverMain \/ SensorMain \/ MloggerMain
  BY <1>3 DEF MserverMain, SensorMain, MloggerMain, Main, ListenerEnds, Join
<1>4. CASE Reset \/ signal_exit \/ Tick \/ Exited \/ UNCHANGED vars
  BY <1>4 DEF Reset, signal_exit, Tick, Exited, vars
<1> QED BY <1>1, <1>2, <1>3, <1>4 DEF Next

LEMMA DriverKept == DriverInv /\ [Next]_vars => DriverInv'
<1>1. DriverInv /\ UNCHANGED wattsVars => DriverInv'
  BY DEF DriverInv, DriverTypes, StoredIsMarked, wattsVars
<1> QED BY <1>1, DriverUse, DriverActionKept

-----------------------------------------------------------------------------
(* The counter *)

\* What is lost when a tenth of a joule is dropped.
LEMMA DivTen ==
    ASSUME NEW p \in Int
    PROVE  p \div 10 \in Int /\ 10 * (p \div 10) <= p /\ p <= 10 * (p \div 10) + 9
OBVIOUS

counterVars == <<scale, now, cumulative_energy, last_tv, loaded, histVars>>

\* A read of the meter sets value and where the loop goes on.
LEMMA ReadKept ==
    ASSUME ServerInv, NEW r \in Int, NEW v \in Int, Result(r, v),
           msr' \in Nat, last_package' \in Nat
    PROVE  EnergyInv'
BY DEF ServerInv, EnergyInv, EnergyTypes, EnergyCounted, Result, envVars, histVars

\* The counter starts anew; raced tells whether integrate is in the way.
LEMMA Restart ==
    ASSUME EnergyTypes, cumulative_energy' = 0, exact' = 0, n' = 0,
           raced' \in BOOLEAN, mpc' = "add" => raced', prev' = last_tv', last_tv' \in Nat,
           UNCHANGED <<value, scale, now, msr, last_package, loaded>>
    PROVE  EnergyInv'
<1>1. EnergyTypes' BY DEF EnergyTypes
<1>2. EnergyCounted' BY DEF EnergyCounted
<1> QED BY <1>1, <1>2 DEF EnergyInv

LEMMA EnergyKept == ServerInv /\ [Next]_vars => EnergyInv'
<1> SUFFICES ASSUME ServerInv, [Next]_vars PROVE EnergyInv'
  OBVIOUS
<1> USE ServerAssumption, WattsUpAssumption
<1> USE DEF ServerInv, EnergyInv, EnergyTypes, EnergyCounted
<1>1. ASSUME UNCHANGED counterVars, value' = value, UNCHANGED raplVars,
             mpc' = "add" => mpc = "add"
      PROVE  EnergyInv'
  BY <1>1 DEF counterVars, histVars, raplVars
<1>2. CASE Monitor
  BY <1>1, <1>2 DEF Monitor, Alloc, AllocFail, Top, TimeFails, EndLoop, MonitorReturns,
     counterVars, envVars
<1>3. CASE LoadEnergy
  BY <1>3 DEF LoadEnergy, envVars, raplVars, histVars
<1>4. CASE StoreEnergy
  <2> DEFINE p == value * scale * (now - last_tv)
  <2>1. p \in Int OBVIOUS
  <2>2. /\ cumulative_energy' = loaded + p \div 10
        /\ exact' = exact + p /\ n' = n + 1
        /\ raced' = raced /\ prev' = now /\ last_tv' = now /\ mpc' = "top"
    BY <1>4 DEF StoreEnergy, Count
  <2>3. UNCHANGED <<value, scale, now, loaded, msr, last_package>>
    BY <1>4 DEF StoreEnergy, Count, envVars
  <2> HIDE DEF p
  <2>4. EnergyCounted'
    BY <1>4, <2>1, <2>2, DivTen DEF StoreEnergy
  <2>5. EnergyTypes'
    BY <2>1, <2>2, <2>3, DivTen
  <2> QED BY <2>2, <2>4, <2>5
<1>5. CASE InitUsb \/ InitOther
  <2>1. UNCHANGED <<value, scale, now, msr, last_package, loaded>>
    BY <1>5 DEF InitUsb, InitOther, envVars, raplVars
  <2>2. CASE Begin
    <3>1. /\ cumulative_energy' = 0 /\ exact' = 0 /\ n' = 0 /\ raced' = FALSE
          /\ mpc' = "top" /\ last_tv' = now /\ prev' = now
      BY <2>2 DEF Begin
    <3> QED BY <2>1, <3>1, Restart
  <2>3. CASE UNCHANGED <<cumulative_energy, last_tv, histVars>> /\ mpc' = "returned"
    <3>1. UNCHANGED counterVars BY <2>1, <2>3 DEF counterVars
    <3>2. UNCHANGED raplVars BY <1>5 DEF InitUsb, InitOther
    <3> QED BY <1>1, <2>1, <2>3, <3>1, <3>2
  <2> QED BY <1>5, <2>2, <2>3 DEF InitUsb, InitOther, InitFailed, MsrFails
<1>6. CASE watts_up_usb_meter_read
  <2>1. CASE ReadUsb
    <3>1. asyncBuffer.w \in Int BY RecordFacts DEF DriverInv, DriverTypes
    <3>2. msr' \in Nat /\ last_package' \in Nat BY <2>1 DEF ReadUsb, raplVars
    <3>3. Result(0, asyncBuffer.w) \/ Result(-1, 0) BY <2>1 DEF ReadUsb
    <3> QED BY <3>1, <3>2, <3>3, ReadKept
  <2>2. CASE MissOnce BY <1>1, <2>2 DEF MissOnce, counterVars, envVars
  <2>3. CASE MissUsb
    <3>1. msr' \in Nat /\ last_package' \in Nat BY <2>3 DEF MissUsb, raplVars
    <3>2. \E r \in {-1, 0, 1} : Result(r, 0) BY <2>3 DEF MissUsb
    <3> QED BY <3>1, <3>2, ReadKept
  <2> QED BY <1>6, <2>1, <2>2, <2>3 DEF watts_up_usb_meter_read
<1>7. CASE RaplRead
  <2>1. PICK u \in MsrStep :
           LET package == (msr + u) % MsrMod IN
           /\ msr' = package /\ last_package' = package
           /\ Result(0, 10 * (package - last_package))
    BY <1>7 DEF RaplRead
  <2>2. (msr + u) % MsrMod \in Nat OBVIOUS
  <2> QED BY <2>1, <2>2, ReadKept
<1>8. CASE MeterRead
  <2>1. msr' \in Nat /\ last_package' \in Nat BY <1>8 DEF MeterRead, raplVars
  <2>2. \/ Result(-1, 0) \/ Result(1, 0) \/ \E w \in Watts : Result(0, w)
    BY <1>8 DEF MeterRead
  <2> QED BY <2>1, <2>2, ReadKept
<1>9. CASE RaplReadFails
  BY <1>1, <1>9 DEF RaplReadFails, MsrFails, counterVars, envVars
<1>10. CASE DriverStep \/ ReaderStep \/ MeterStep
  BY <1>1, <1>10 DEF DriverStep, ReaderStep, MeterStep, serverVars, counterVars, envVars, monVars
<1>11. CASE MserverMain \/ SensorMain \/ MloggerMain
  BY <1>1, <1>11 DEF MserverMain, SensorMain, MloggerMain, Main, ListenerEnds, Join,
     counterVars, envVars, monVars
<1>12. CASE Reset
  <2>1. /\ cumulative_energy' = 0 /\ exact' = 0 /\ n' = 0 /\ raced' = (mpc = "add")
        /\ UNCHANGED <<mpc, last_tv, prev, value, scale, now, msr, last_package, loaded>>
    BY <1>12 DEF Reset, envVars, monVars, raplVars
  <2> QED BY <2>1, Restart
<1>13. CASE Tick
  BY <1>13 DEF Tick, envVars, monVars, raplVars, histVars
<1>14. CASE signal_exit \/ Exited \/ UNCHANGED vars
  BY <1>1, <1>14 DEF signal_exit, Exited, vars, counterVars, envVars, monVars
<1> QED BY <1>2, <1>3, <1>4, <1>5, <1>6, <1>7, <1>8, <1>9, <1>10, <1>11, <1>12, <1>13,
           <1>14
        DEF Next, MserverMonitor, SensorMonitor, MloggerMonitor, MserverIntegrate,
            SensorIntegrate, MloggerIntegrate

-----------------------------------------------------------------------------
(* The theorems *)

LEMMA ServerInit == Init => ServerInv
<1> SUFFICES ASSUME Init PROVE ServerInv
  OBVIOUS
<1>1. DriverInv
  <2>1. /\ wire = <<>> /\ sent = 0 /\ talking \in BOOLEAN /\ wpc = "off" /\ taken = 0
        /\ sBuffer = NoRecord /\ asyncBuffer = NoRecord /\ asyncValid = 0
    BY Zenon DEF Init, WattsInit
  <2>2. asyncBuffer.n = 0 BY <2>1 DEF NoRecord
  <2> QED BY <2>1, <2>2, RecordFacts DEF DriverInv, DriverTypes, StoredIsMarked
<1>2. EnergyInv
  <2>1. /\ value = 0 /\ now = 0 /\ last_tv = 0 /\ prev = 0 /\ last_package = 0
        /\ cumulative_energy = 0 /\ loaded = 0 /\ exact = 0 /\ n = 0 /\ mpc = "alloc"
    BY Zenon DEF Init
  <2>2. raced \in BOOLEAN BY Zenon DEF Init
  <2>3. scale \in {1, SimVolts} /\ msr \in {0, MsrMod - 1} BY Zenon DEF Init
  <2>4. scale \in Nat /\ msr \in Nat BY <2>3, ServerAssumption
  <2> QED BY <2>1, <2>2, <2>4 DEF EnergyInv, EnergyTypes, EnergyCounted
<1> QED BY <1>1, <1>2 DEF ServerInv

\* The invariant holds in every reachable state.
THEOREM ServerSafety == Spec => []ServerInv
<1>1. ServerInv /\ [Next]_vars => ServerInv'
  BY DriverKept, EnergyKept DEF ServerInv
<1> QED BY ServerInit, <1>1, PTL DEF Spec

\* integrate counts every interval once and loses less than a joule per reading
\* (mserver.c, 434-446), unless a RESET falls into it.
THEOREM EnergyHolds == Spec => []EnergyCounted
<1>1. ServerInv => EnergyCounted BY DEF ServerInv, EnergyInv
<1> QED BY <1>1, ServerSafety, PTL

\* A record that AsyncReadThread stored stays marked until it is taken, for any
\* limit of asyncValid (watts_up.c, 384-394 and 651-671).
THEOREM MarkedHolds == Spec => []StoredIsMarked
<1>1. ServerInv => StoredIsMarked BY DEF ServerInv, DriverInv
<1> QED BY <1>1, ServerSafety, PTL

-----------------------------------------------------------------------------
(* The order of the records *)

\* Records get newer along their way: from what the consumer took, over the
\* buffer and the thread's own copy, to the wire.
OrderInv ==
    /\ taken <= asyncBuffer.n /\ asyncBuffer.n <= sBuffer.n /\ sBuffer.n <= sent
    /\ asyncValid > 0 => taken < asyncBuffer.n
    /\ athread = "store" => asyncBuffer.n < sBuffer.n
    /\ \A i \in 1..Len(wire) : sBuffer.n < wire[i].n /\ wire[i].n <= sent
    /\ \A i, j \in 1..Len(wire) : i < j => wire[i].n < wire[j].n

LEMMA OrderActionKept ==
    ASSUME DriverInv, OrderInv, DriverAction
    PROVE  OrderInv'
<1> USE WattsUpAssumption DEF readerVars, meterVars
<1>1. /\ wire \in Seq(Records) /\ Len(wire) \in Nat /\ sent \in Nat /\ asyncValid \in Nat
      /\ sBuffer.n \in Nat /\ asyncBuffer.n \in Nat /\ taken \in Nat
      /\ \A i \in 1..Len(wire) : wire[i] \in Records /\ wire[i].n \in Nat
  BY RecordFacts, LenProperties, ElementOfSeq DEF DriverInv, DriverTypes
<1>2. CASE Emit
  <2>1. PICK w \in Watts, d \in BOOLEAN :
           wire' = Append(wire, [n |-> sent + 1, data |-> d, w |-> w])
    BY <1>2 DEF Emit
  <2> DEFINE rec == [n |-> sent + 1, data |-> d, w |-> w]
  <2>2. rec \in Records /\ rec.n = sent + 1
    BY <1>1 DEF Records
  <2>3. /\ Len(wire') = Len(wire) + 1 /\ wire'[Len(wire) + 1] = rec
        /\ \A i \in 1..Len(wire) : wire'[i] = wire[i]
    BY <1>1, <2>1, <2>2, AppendProperties
  <2>4. sent' = sent + 1 /\ UNCHANGED <<athread, sBuffer, asyncBuffer, asyncValid, taken>>
    BY <1>2 DEF Emit
  <2> HIDE DEF rec
  <2>5. \A i \in 1..Len(wire') : i \in 1..Len(wire) \/ i = Len(wire) + 1
    BY <1>1, <2>3
  <2>6. \A i \in 1..Len(wire') : sBuffer.n < wire'[i].n /\ wire'[i].n <= sent + 1
    BY <1>1, <2>2, <2>3, <2>5 DEF OrderInv
  <2>7. \A i, j \in 1..Len(wire') : i < j => wire'[i].n < wire'[j].n
    BY <1>1, <2>2, <2>3, <2>5, SMTT(30) DEF OrderInv
  <2> QED BY <1>1, <2>4, <2>6, <2>7 DEF OrderInv
<1>3. CASE Unplug BY <1>3 DEF Unplug, OrderInv
<1>4. CASE Driver
  <2>1. CASE Open BY <2>1 DEF Open, OrderInv
  <2>2. CASE Setup BY <2>2 DEF Setup, OrderInv
  <2>3. CASE CreateReader BY <2>3 DEF CreateReader, OrderInv
  <2>4. CASE Abandon BY <2>4 DEF Abandon, OrderInv
  <2>5. CASE Check BY <2>5 DEF Check, OrderInv
  <2>6. CASE CheckAgain BY <2>6 DEF CheckAgain, OrderInv
  <2>7. CASE CloseEnd BY <2>7 DEF CloseEnd, OrderInv
  <2> QED BY <1>4, <2>1, <2>2, <2>3, <2>4, <2>5, <2>6, <2>7 DEF Driver
<1>5. CASE ReaderTop BY <1>5 DEF ReaderTop, OrderInv
<1>6. CASE ReadRecord
  <2>1. PICK k \in 1..Len(wire) :
           sBuffer' = Head(wire) /\ wire' = SubSeq(wire, k + 1, Len(wire))
    BY <1>6 DEF ReadRecord
  <2>2. sBuffer' = wire[1] /\ 1 \in 1..Len(wire)
    BY <1>1, <2>1, HeadTailProperties
  <2>3. /\ Len(wire') = Len(wire) - k
        /\ \A i \in 1..Len(wire') : wire'[i] = wire[i + k] /\ i + k \in 1..Len(wire)
    BY <1>1, <2>1, SubSeqProperties
  <2>4. /\ UNCHANGED <<asyncBuffer, asyncValid, taken, sent>>
    BY <1>6 DEF ReadRecord
  <2>5. \A i \in 1..Len(wire') : sBuffer'.n < wire'[i].n /\ wire'[i].n <= sent
    <3> TAKE i \in 1..Len(wire')
    <3>1. wire'[i] = wire[i + k] /\ i + k \in 1..Len(wire) /\ 1 < i + k
      BY <2>3
    <3>2. wire[1].n < wire[i + k].n /\ wire[i + k].n <= sent
      BY <2>2, <3>1 DEF OrderInv
    <3> QED BY <2>2, <3>1, <3>2
  <2>6. \A i, j \in 1..Len(wire') : i < j => wire'[i].n < wire'[j].n
    <3> TAKE i, j \in 1..Len(wire')
    <3> HAVE i < j
    <3>1. /\ wire'[i] = wire[i + k] /\ i + k \in 1..Len(wire)
          /\ wire'[j] = wire[j + k] /\ j + k \in 1..Len(wire) /\ i + k < j + k
      BY <2>3
    <3>2. wire[i + k].n < wire[j + k].n
      BY <3>1 DEF OrderInv
    <3> QED BY <3>1, <3>2
  <2>7. asyncBuffer.n < sBuffer'.n /\ sBuffer'.n <= sent
    BY <1>1, <2>2 DEF OrderInv
  <2>8. /\ taken <= asyncBuffer.n /\ asyncBuffer.n <= sBuffer'.n
        /\ asyncValid > 0 => taken < asyncBuffer.n
    BY <1>1, <2>2, <2>7 DEF OrderInv
  <2> QED BY <2>4, <2>5, <2>6, <2>7, <2>8 DEF OrderInv
<1>7. CASE StoreRecord
  <2>1. UNCHANGED <<sBuffer, taken, wire, sent>> /\ asyncBuffer' = sBuffer /\ athread' = "top"
        /\ athread = "store"
    BY <1>7 DEF StoreRecord
  <2> QED BY <1>1, <2>1, SMTT(30) DEF OrderInv
<1>8. CASE CloseBegin BY <1>8 DEF CloseBegin, OrderInv
<1>9. CASE Take
  <2>1. UNCHANGED <<athread, sBuffer, asyncBuffer, wire, sent>> /\ taken' = asyncBuffer.n
        /\ asyncValid' = 0
    BY <1>9 DEF Take
  <2> QED BY <1>1, <2>1 DEF OrderInv
<1> QED BY <1>2, <1>3, <1>4, <1>5, <1>6, <1>7, <1>8, <1>9 DEF DriverAction, Reader

LEMMA OrderKept == DriverInv /\ OrderInv /\ [Next]_vars => OrderInv'
<1>1. OrderInv /\ UNCHANGED wattsVars => OrderInv'
  BY DEF OrderInv, wattsVars
<1> QED BY <1>1, DriverUse, OrderActionKept

LEMMA OrderInit == Init => OrderInv
<1> SUFFICES ASSUME Init PROVE OrderInv
  OBVIOUS
<1>1. /\ wire = <<>> /\ sent = 0 /\ taken = 0 /\ athread = "none" /\ asyncValid = 0
      /\ sBuffer = NoRecord /\ asyncBuffer = NoRecord
  BY DEF Init, WattsInit
<1>2. NoRecord.n = 0 BY DEF NoRecord
<1>3. Len(wire) = 0 BY <1>1, EmptySeq
<1> QED BY <1>1, <1>2, <1>3 DEF OrderInv

\* A value comes from the driver by a Take.
LEMMA ValueIsTaken ==
    ASSUME [Next]_vars, mpc \in {"read", "again"}, Usb, mpc' = "time"
    PROVE  Take
<1> USE DEF Usb
<1>1. CASE MserverMonitor
  <2>1. ~(Monitor \/ MserverIntegrate \/ InitUsb \/ MissOnce)
    BY DEF Monitor, Alloc, AllocFail, Top, TimeFails, EndLoop, MonitorReturns, MserverIntegrate,
       LoadEnergy, StoreEnergy, InitUsb, MissOnce
  <2>2. ~MissUsb
    BY DEF MissUsb, Result
  <2> QED BY <1>1, <2>1, <2>2 DEF MserverMonitor, watts_up_usb_meter_read, ReadUsb
<1>2. ~(SensorMonitor \/ MloggerMonitor)
  BY DEF SensorMonitor, MloggerMonitor
<1>3. ~(DriverStep \/ ReaderStep \/ MeterStep)
  BY DEF DriverStep, ReaderStep, MeterStep, serverVars, monVars
<1>4. ~(MserverMain \/ SensorMain \/ MloggerMain)
  BY DEF MserverMain, SensorMain, MloggerMain, Main, ListenerEnds, Join, monVars
<1>5. ~(Reset \/ signal_exit \/ Tick \/ Exited \/ UNCHANGED vars)
  BY DEF Reset, signal_exit, Tick, Exited, vars, monVars
<1> QED BY <1>1, <1>2, <1>3, <1>4, <1>5 DEF Next

\* What the loop of mserver.c takes from the driver is newer than what it took
\* before, however AsyncReadThread and the loop interleave and whatever is lost
\* on the wire (watts_up.c, 384-394 and 651-671).
THEOREM TakenOnceHolds == Spec => TakenOnce
<1>1. ServerInv /\ OrderInv /\ [Next]_vars => OrderInv'
  BY OrderKept DEF ServerInv
<1>2. ServerInv /\ OrderInv /\ [Next]_vars =>
        [(mpc \in {"read", "again"} /\ Usb /\ mpc' = "time") => taken' > taken]_vars
  <2> SUFFICES ASSUME ServerInv, OrderInv, [Next]_vars, mpc \in {"read", "again"}, Usb,
                      mpc' = "time"
               PROVE  taken' > taken
    OBVIOUS
  <2>1. asyncValid > 0 /\ taken' = asyncBuffer.n
    BY ValueIsTaken DEF Take
  <2>2. taken \in Nat /\ asyncBuffer.n \in Nat
    BY RecordFacts DEF ServerInv, DriverInv, DriverTypes
  <2> QED BY <2>1, <2>2 DEF OrderInv
<1> QED BY <1>1, <1>2, OrderInit, ServerSafety, PTL DEF Spec, TakenOnce

-----------------------------------------------------------------------------
(* The RAPL counter *)

\* A counter that does not wrap, after u more joules.
LEMMA Turns ==
    ASSUME NEW m \in Nat \ {0}, NEW a \in Nat, NEW u \in 0..(m - 1)
    PROVE  /\ (a % m) + u < m => (a + u) % m = (a % m) + u /\ (a + u) \div m = a \div m
           /\ (a % m) + u >= m => /\ (a + u) % m = (a % m) + u - m
                                 /\ (a + u) \div m = (a \div m) + 1
<1> DEFINE q == a \div m
<1> DEFINE r == a % m
<1> DEFINE q2 == (a + u) \div m
<1> DEFINE r2 == (a + u) % m
<1>1. q \in Int /\ r \in 0..(m - 1) /\ a = m * q + r
  OBVIOUS
<1>2. q2 \in Int /\ r2 \in 0..(m - 1) /\ a + u = m * q2 + r2
  OBVIOUS
<1> HIDE DEF q, r, q2, r2
<1>3. m * (q2 - q) = r + u - r2 /\ q2 - q \in Int
  BY <1>1, <1>2
<1>4. q2 - q >= 2 => m * (q2 - q) >= 2 * m
  BY <1>3
<1>5. q2 - q <= -1 => m * (q2 - q) <= -m
  BY <1>3
<1>6. q2 - q \in {0, 1}
  BY <1>1, <1>2, <1>3, <1>4, <1>5
<1>7. CASE q2 = q
  <2>1. r2 = r + u BY <1>1, <1>2, <1>3, <1>7
  <2> QED BY <1>2, <1>7, <2>1 DEF q, r, q2, r2
<1>8. CASE q2 = q + 1
  <2>1. r2 = r + u - m BY <1>1, <1>2, <1>3, <1>8
  <2> QED BY <1>1, <1>2, <1>8, <2>1 DEF q, r, q2, r2
<1> QED BY <1>1, <1>2, <1>6, <1>7, <1>8

\* No read has been completed.
First == reads = 0 \/ (reads = 1 /\ mpc = "read")

\* From the first read on the register, rapl_read's static and what was used
\* agree up to whole turns; before it there is nothing to count.
RaplInv ==
    server = "sensor_server" =>
        /\ reads \in Nat /\ used \in Nat /\ sum \in Int /\ msr \in 0..(MsrMod - 1)
        /\ mpc \in {"alloc", "init"} => reads = 0
        /\ mpc \in {"read", "time", "add"} => reads > 0
        /\ First => used = 0 /\ last_package = 0 /\ sum = 0
        /\ ~First /\ mpc \in {"top", "read", "time", "add"} =>
              last_package = msr /\ used % MsrMod = msr
        /\ why = "clock" => loops = -1 /\ mpc \in {"top", "end", "close", "returned"}
        /\ RaplCounted

LEMMA ServerFixed == [Next]_vars => server' = server
<1> SUFFICES ASSUME [Next]_vars PROVE server' = server
  OBVIOUS
<1> USE DEF envVars, serverVars
<1>1. CASE Monitor BY <1>1 DEF Monitor, Alloc, AllocFail, Top, TimeFails, EndLoop, MonitorReturns
<1>2. CASE LoadEnergy \/ StoreEnergy BY <1>2 DEF LoadEnergy, StoreEnergy
<1>3. CASE InitUsb \/ InitOther BY <1>3 DEF InitUsb, InitOther
<1>4. CASE watts_up_usb_meter_read \/ RaplRead \/ RaplReadFails \/ MeterRead
  BY <1>4 DEF watts_up_usb_meter_read, ReadUsb, MissOnce, MissUsb, Result, RaplRead,
              RaplReadFails, MeterRead
<1>5. CASE DriverStep \/ ReaderStep \/ MeterStep BY <1>5 DEF DriverStep, ReaderStep, MeterStep
<1>6. CASE MserverMain \/ SensorMain \/ MloggerMain
  BY <1>6 DEF MserverMain, SensorMain, MloggerMain, Main, ListenerEnds, Join
<1>7. CASE Reset \/ signal_exit \/ Tick \/ Exited \/ UNCHANGED vars
  BY <1>7 DEF Reset, signal_exit, Tick, Exited, vars
<1> QED BY <1>1, <1>2, <1>3, <1>4, <1>5, <1>6, <1>7
        DEF Next, MserverMonitor, SensorMonitor, MloggerMonitor, MserverIntegrate,
            SensorIntegrate, MloggerIntegrate

\* A step that neither reads the register nor moves a reading.
LEMMA RaplQuiet ==
    ASSUME RaplInv, UNCHANGED <<raplVars, server, value>>,
           \/ UNCHANGED <<mpc, why, loops, reads>>
           \/ mpc = "alloc" /\ mpc' = "init" /\ UNCHANGED <<why, reads>>
           \/ mpc = "init" /\ mpc' = "top" /\ UNCHANGED <<why, loops, reads>>
           \/ mpc = "top" /\ mpc' = "read" /\ reads' = reads + 1 /\ why' = why /\ loops >= 0
           \/ mpc = "top" /\ mpc' = "end" /\ (why' = "clock" => why = "clock")
              /\ UNCHANGED <<loops, reads>> /\ (why = "clock" => why' = "clock")
           \/ mpc = "time" /\ mpc' = "add" /\ UNCHANGED <<why, loops, reads>>
           \/ mpc = "time" /\ mpc' = "top" /\ why' = "clock" /\ loops' = -1 /\ reads' = reads
           \/ /\ mpc \in {"alloc", "init", "read", "end", "close"}
              /\ mpc' \in {"close", "returned"} /\ reads' = reads
              /\ \/ why' = why /\ loops' = loops
                 \/ mpc \in {"alloc", "init", "read"} /\ why' # "clock"
    PROVE  RaplInv'
<1> SUFFICES ASSUME server = "sensor_server" PROVE RaplInv'
  BY DEF RaplInv
<1>1. sum' = sum /\ used' = used /\ value' = value /\ msr' = msr /\ last_package' = last_package
  BY DEF raplVars
<1>2. why' = "clock" \/ Pending' = Pending
  BY <1>1 DEF Pending
<1>3. why' # "clock" => why # "clock"
  BY DEF RaplInv
<1>4. RaplCounted'
  BY <1>1, <1>2, <1>3 DEF RaplInv, RaplCounted
<1> QED BY <1>1, <1>4 DEF RaplInv, First

\* The step that reads the register.
LEMMA RaplReadKept == EnergyTypes /\ RaplInv /\ RaplRead => RaplInv'
<1> SUFFICES ASSUME EnergyTypes, RaplInv, RaplRead PROVE RaplInv'
  OBVIOUS
<1>1. PICK u \in MsrStep :
         LET package == (msr + u) % MsrMod IN
         /\ msr' = package /\ used' = IF reads = 1 THEN package ELSE used + u
         /\ last_package' = package
         /\ Result(0, 10 * (package - last_package))
  BY DEF RaplRead
<1> DEFINE package == (msr + u) % MsrMod
<1>2. /\ u \in 0..(MsrMod - 1) /\ MsrMod \in Nat \ {0} /\ msr \in 0..(MsrMod - 1)
      /\ last_package \in Nat /\ used \in Nat /\ sum \in Int /\ reads \in Nat /\ reads > 0
      /\ mpc = "read" /\ server = "sensor_server" /\ why # "clock"
  BY ServerAssumption DEF EnergyTypes, RaplInv, RaplRead
<1>3. /\ msr' = package /\ last_package' = package /\ sum' = sum /\ server' = server
      /\ reads' = reads /\ why' = why /\ value' = 10 * (package - last_package)
      /\ mpc' = IF 10 * (package - last_package) > 0 THEN "time" ELSE "top"
      /\ used' = IF reads = 1 THEN package ELSE used + u
  BY <1>1, <1>2 DEF Result, RaplRead, envVars
<1>4. package \in 0..(MsrMod - 1)
  BY <1>2
<1>5. /\ 0 % MsrMod = 0 /\ 0 \div MsrMod = 0
      /\ package % MsrMod = package /\ package \div MsrMod = 0
      /\ msr % MsrMod = msr /\ msr \div MsrMod = 0
  <2>1. \A a \in 0..(MsrMod - 1) : a % MsrMod = a /\ a \div MsrMod = 0
    BY <1>2
  <2> QED BY <1>2, <1>4, <2>1
<1>6. /\ msr + u < MsrMod => package = msr + u
      /\ msr + u >= MsrMod => package = msr + u - MsrMod
  <2>1. msr \in Nat /\ u \in 0..(MsrMod - 1) /\ MsrMod \in Nat \ {0}
    BY <1>2
  <2>2. /\ (msr % MsrMod) + u < MsrMod => (msr + u) % MsrMod = (msr % MsrMod) + u
        /\ (msr % MsrMod) + u >= MsrMod => (msr + u) % MsrMod = (msr % MsrMod) + u - MsrMod
    BY ONLY <2>1, Turns
  <2>3. msr % MsrMod = msr BY <1>5
  <2> QED BY <2>2, <2>3
<1>7. Pending' = IF package > last_package THEN 10 * (package - last_package) ELSE 0
  BY <1>2, <1>3, <1>4 DEF Pending
<1>8. ~First'
  BY <1>2, <1>3 DEF First
<1> HIDE DEF package
<1>9. CASE reads = 1
  <2>1. used = 0 /\ last_package = 0 /\ sum = 0
    BY <1>2, <1>9 DEF RaplInv, First
  <2>2. used' = package /\ sum' + Pending' = 10 * package
    BY <1>3, <1>4, <1>7, <1>9, <2>1
  <2>3. RaplCounted'
    BY <1>2, <1>4, <1>5, <2>2 DEF RaplCounted
  <2> QED BY <1>2, <1>3, <1>4, <1>5, <1>8, <2>2, <2>3 DEF RaplInv
<1>10. CASE reads # 1
  <2>1. last_package = msr /\ used % MsrMod = msr /\ used' = used + u
    BY <1>2, <1>3, <1>10 DEF RaplInv, First
  <2> DEFINE t == used \div MsrMod
  <2> DEFINE lost == t * (MsrMod - 1)
  <2>2. t \in Int /\ lost \in Int
    BY <1>2
  <2>3. sum <= 10 * used /\ 10 * used <= sum + 10 * lost
    BY <1>2 DEF RaplInv, RaplCounted, Pending
  <2>4. CASE msr + u < MsrMod
    <3>1. package = msr + u /\ used' % MsrMod = package /\ used' \div MsrMod = t
      BY <1>2, <1>6, <2>1, <2>4, Turns
    <3>2. sum' + Pending' = sum + 10 * u
      BY <1>2, <1>3, <1>7, <2>1, <3>1
    <3> HIDE DEF t
    <3>3. sum' + Pending' <= 10 * used' /\ 10 * used' <= sum' + Pending' + 10 * lost
      BY <1>2, <2>1, <2>2, <2>3, <3>2
    <3>4. RaplCounted' BY <3>1, <3>3 DEF RaplCounted
    <3> QED BY <1>2, <1>3, <1>4, <1>8, <2>1, <3>1, <3>4 DEF RaplInv
  <2>5. CASE msr + u >= MsrMod
    <3>1. /\ package = msr + u - MsrMod /\ used' % MsrMod = package
          /\ used' \div MsrMod = t + 1
      BY <1>2, <1>6, <2>1, <2>5, Turns
    <3>2. sum' + Pending' = sum
      BY <1>2, <1>3, <1>7, <2>1, <3>1
    <3> HIDE DEF t
    <3>3. (t + 1) * (MsrMod - 1) = lost + (MsrMod - 1)
      BY <1>2, <2>2
    <3> HIDE DEF lost
    <3>4. /\ sum' + Pending' <= 10 * used'
          /\ 10 * used' <= sum' + Pending' + 10 * (lost + (MsrMod - 1))
      BY <1>2, <2>1, <2>2, <2>3, <3>2
    <3>5. RaplCounted' BY <3>1, <3>3, <3>4 DEF RaplCounted
    <3> QED BY <1>2, <1>3, <1>4, <1>8, <2>1, <3>1, <3>5 DEF RaplInv
  <2> QED BY <1>2, <2>4, <2>5
<1> QED BY <1>9, <1>10

LEMMA RaplKept == EnergyTypes /\ RaplInv /\ [Next]_vars => RaplInv'
<1> SUFFICES ASSUME EnergyTypes, RaplInv, [Next]_vars, server = "sensor_server" PROVE RaplInv'
  BY ServerFixed DEF RaplInv
<1> USE DEF envVars, monVars
<1>1. CASE Monitor
  <2>1. CASE Alloc \/ AllocFail BY <2>1, RaplQuiet DEF Alloc, AllocFail
  <2>2. CASE Top BY <2>2, RaplQuiet DEF Top
  <2>3. CASE TimeFails BY <2>3, RaplQuiet DEF TimeFails
  <2>4. CASE EndLoop \/ MonitorReturns BY <2>4, RaplQuiet DEF EndLoop, MonitorReturns
  <2> QED BY <1>1, <2>1, <2>2, <2>3, <2>4 DEF Monitor
<1>2. CASE LoadEnergy
  BY <1>2, RaplQuiet DEF LoadEnergy
<1>3. CASE StoreEnergy
  <2>1. /\ sum' = sum + value /\ mpc = "add" /\ mpc' = "top"
        /\ UNCHANGED <<server, reads, msr, last_package, used, value, why>>
    BY <1>3 DEF StoreEnergy, Count
  <2>2. sum \in Int /\ value \in Int /\ why # "clock"
    BY <2>1 DEF RaplInv, EnergyTypes
  <2>3. sum' + Pending' = sum + Pending
    BY <2>1, <2>2 DEF Pending
  <2>4. RaplCounted'
    BY <2>1, <2>3 DEF RaplInv, RaplCounted
  <2>5. ~First /\ ~First'
    BY <2>1 DEF RaplInv, First
  <2> QED BY <2>1, <2>2, <2>4, <2>5 DEF RaplInv
<1>4. CASE InitOther
  BY <1>4, RaplQuiet DEF InitOther, Begin, InitFailed, MsrFails
<1>5. CASE RaplReadFails
  BY <1>5, RaplQuiet DEF RaplReadFails, MsrFails
<1>6. CASE DriverStep \/ ReaderStep \/ MeterStep
  BY <1>6, RaplQuiet DEF DriverStep, ReaderStep, MeterStep, serverVars
<1>7. CASE SensorMain
  BY <1>7, RaplQuiet DEF SensorMain, Main, ListenerEnds, Join
<1>8. CASE Reset \/ signal_exit \/ Tick \/ Exited \/ UNCHANGED vars
  BY <1>8, RaplQuiet DEF Reset, signal_exit, Tick, Exited, vars
<1> QED BY <1>1, <1>2, <1>3, <1>4, <1>5, <1>6, <1>7, <1>8, RaplReadKept
        DEF Next, MserverMonitor, SensorMonitor, MloggerMonitor, SensorIntegrate, MserverMain,
            MloggerMain

LEMMA RaplInit == Init => RaplInv
<1> SUFFICES ASSUME Init, server = "sensor_server" PROVE RaplInv
  BY DEF RaplInv
<1>1. /\ msr \in {0, MsrMod - 1} /\ used = 0 /\ sum = 0 /\ last_package = 0 /\ reads = 0
      /\ why = "none" /\ mpc = "alloc"
  BY Zenon DEF Init
<1>2. MsrMod \in Nat \ {0} /\ msr \in 0..(MsrMod - 1) /\ 0 \div MsrMod \in Int
  BY <1>1, ServerAssumption
<1>3. 0 \div MsrMod = 0
  BY <1>2
<1>4. RaplCounted
  BY <1>1, <1>2, <1>3 DEF RaplCounted, Pending
<1> QED BY <1>1, <1>2, <1>4 DEF RaplInv

\* The energy of the package is never integrated twice, and what a wrap of the
\* register drops is less than a turn of it, for every width of the register and
\* every load (sensor_server.c, rapl_read and the test of mm[0].value).
THEOREM RaplCountedHolds == Spec => []RaplCounted
<1>1. ServerInv /\ RaplInv /\ [Next]_vars => RaplInv'
  BY RaplKept DEF ServerInv, EnergyInv
<1>2. RaplInv => RaplCounted
  BY DEF RaplInv, RaplCounted
<1> QED BY <1>1, <1>2, RaplInit, ServerSafety, PTL DEF Spec
=============================================================================
