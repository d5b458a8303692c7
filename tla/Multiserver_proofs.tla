------------------------- MODULE Multiserver_proofs -------------------------
(***************************************************************************)
(* Proofs about the mutex and the statistics of Multiserver for any        *)
(* readings, any number of them and any interleaving of the monitors and   *)
(* a client.  The mutex is not what it seems, because                      *)
(* statistic_nidaq_power unlocks it without having locked it: what is left *)
(* of it is in MutexInv, and why the average is right without it is in     *)
(* AverageInv.                                                             *)
(***************************************************************************)
EXTENDS Multiserver, TLAPS

\* Who holds the mutex is inside.  The converse ends with the first unlock of
\* someone else's mutex.
MutexInv ==
    /\ mutex # "free" => mutex \in Inside
    /\ ExclusionUntilStray

MultiInv == TypeOK /\ MutexInv /\ NoDivisionByZero

LEMMA MultiInit == Init => MultiInv
<1> SUFFICES ASSUME Init PROVE MultiInv
  OBVIOUS
<1>1. TypeOK
  <2>1. pc \in [Threads -> Places] BY Zenon DEF Init, Threads, Places
  <2>2. peer \in [Threads -> {"up", "closed", "reset"}] BY Zenon DEF Init
  <2>3. pwr = 0 /\ samples = 0 /\ tmp = 0 /\ sysPower = 0 /\ niPower = 0 /\ running = 1
    BY Zenon DEF Init
  <2>4. stray \in BOOLEAN BY Zenon DEF Init
  <2>5. main = "up" /\ mutex = "free" /\ cpc = "idle" BY Zenon DEF Init
  <2> QED BY <2>1, <2>2, <2>3, <2>4, <2>5, MultiAssumption DEF TypeOK
<1>2. Inside = {} BY DEF Init, Inside, Threads
<1>3. MutexInv BY <1>2 DEF Init, MutexInv, ExclusionUntilStray
<1>4. NoDivisionByZero BY DEF Init, NoDivisionByZero, Threads
<1> QED BY <1>1, <1>3, <1>4 DEF MultiInv

\* The steps of a monitor, of the statistics and of the rest.
Monitors == {"nidaq", "wattsup"}
OtherStep == \/ monitor_rapl \/ \E t \in Threads : PeerCloses(t)
             \/ JoinAll \/ signal_exit \/ Exited

LEMMA MultiCases ==
    ASSUME [Next]_vars
    PROVE  \/ \E t \in Monitors : monitor_netmeter(t)
           \/ statistic_nidaq_power \/ OtherStep \/ SendLock \/ SendUnlock
           \/ UNCHANGED vars
BY DEF Next, Monitors, OtherStep

-----------------------------------------------------------------------------
(* Steps that leave the mutex, the client and samples alone *)

\* If no thread goes in or out, the mutex part is kept.
LEMMA MutexKept ==
    ASSUME MutexInv, Inside' = Inside, mutex' = mutex, stray' = stray
    PROVE  MutexInv'
BY DEF MutexInv, ExclusionUntilStray

\* A thread that goes from one place outside the mutex to another.
LEMMA Outside ==
    ASSUME TypeOK, NEW t \in Threads, NEW place \in Places,
           pc[t] \notin {"merging", "logging"}, place \notin {"merging", "logging"},
           pc' = [pc EXCEPT ![t] = place], cpc' = cpc
    PROVE  Inside' = Inside
BY DEF TypeOK, Inside, Threads

\* A thread that locks and goes in.
LEMMA LocksIn ==
    ASSUME TypeOK, MutexInv, NEW t \in Monitors, NEW place \in {"merging", "logging"},
           mutex = "free", mutex' = t, pc' = [pc EXCEPT ![t] = place],
           cpc' = cpc, stray' = stray
    PROVE  MutexInv'
BY DEF TypeOK, MutexInv, ExclusionUntilStray, Inside, Monitors, Threads

\* A thread that goes out and unlocks.
LEMMA UnlocksOut ==
    ASSUME TypeOK, MutexInv, NEW t \in Monitors, NEW place \in Places,
           pc[t] \in {"merging", "logging"}, place \notin {"merging", "logging"},
           mutex' = "free", pc' = [pc EXCEPT ![t] = place],
           cpc' = cpc, stray' = stray
    PROVE  MutexInv'
BY DEF TypeOK, MutexInv, ExclusionUntilStray, Inside, Monitors, Threads

LEMMA MonitorStep ==
    ASSUME MultiInv, NEW t \in Monitors, monitor_netmeter(t)
    PROVE  MultiInv'
<1> USE MultiAssumption DEF MultiInv, Monitors, Threads, At, Goto
<1>1. CASE ConnectMeter(t) \/ LoopTop(t) \/ NoLog(t) \/ Leave(t)
  <2>1. /\ mutex' = mutex /\ cpc' = cpc /\ stray' = stray /\ samples' = samples
        /\ \E place \in {"top", "request", "leave", "ended"} : pc' = [pc EXCEPT ![t] = place]
        /\ pc[t] \notin {"merging", "logging"}
    BY <1>1 DEF ConnectMeter, LoopTop, NoLog, Leave, clientVars, statVars
  <2>2. MutexInv' BY <2>1, Outside, MutexKept DEF Places
  <2>3. TypeOK' /\ NoDivisionByZero'
    BY <1>1, <2>1 DEF TypeOK, Places, NoDivisionByZero, ConnectMeter, LoopTop, NoLog, Leave,
       clientVars, statVars, dataVars
  <2> QED BY <2>2, <2>3
<1>2. CASE ReplyBad(t) \/ BrokenPipe(t) \/ \E v \in Powers \cup SysPowers : Reply(t, v)
  <2>1. /\ mutex' = mutex /\ cpc' = cpc /\ stray' = stray /\ samples' = samples
        /\ \E place \in {"top", "request", "merge"} : pc' = [pc EXCEPT ![t] = place]
        /\ pc[t] \notin {"merging", "logging"}
    BY <1>2 DEF ReplyBad, BrokenPipe, Reply, clientVars, statVars, TypeOK
  <2>2. MutexInv' BY <2>1, Outside, MutexKept DEF Places
  <2>3. TypeOK' /\ NoDivisionByZero'
    BY <1>2, <2>1 DEF TypeOK, Places, NoDivisionByZero, ReplyBad, BrokenPipe, Reply,
       clientVars, statVars, dataVars
  <2> QED BY <2>2, <2>3
<1>3. CASE MergeLock(t) \/ LogLock(t)
  <2>1. /\ mutex = "free" /\ mutex' = t /\ cpc' = cpc /\ stray' = stray
        /\ \E place \in {"merging", "logging"} : pc' = [pc EXCEPT ![t] = place]
    BY <1>3 DEF MergeLock, LogLock, clientVars
  <2>2. MutexInv' BY <2>1, LocksIn
  <2>3. TypeOK' /\ NoDivisionByZero'
    BY <1>3 DEF TypeOK, Places, NoDivisionByZero, MergeLock, LogLock,
       clientVars, statVars, dataVars
  <2> QED BY <2>2, <2>3
<1>4. CASE Merge(t) \/ LogUnlock(t)
  <2>1. /\ mutex' = "free" /\ cpc' = cpc /\ stray' = stray
        /\ pc[t] \in {"merging", "logging"}
        /\ \E place \in {"top", "addload", "test"} : pc' = [pc EXCEPT ![t] = place]
    BY <1>4 DEF Merge, LogUnlock, clientVars
  <2>2. MutexInv' BY <2>1, UnlocksOut DEF Places
  <2>3. TypeOK' /\ NoDivisionByZero'
    BY <1>4 DEF TypeOK, Places, NoDivisionByZero, Merge, LogUnlock,
       clientVars, statVars, dataVars
  <2> QED BY <2>2, <2>3
<1> QED BY <1>1, <1>2, <1>3, <1>4 DEF monitor_netmeter

LEMMA StatisticStep == MultiInv /\ statistic_nidaq_power => MultiInv'
<1> SUFFICES ASSUME MultiInv, statistic_nidaq_power PROVE MultiInv'
  OBVIOUS
<1> USE MultiAssumption DEF MultiInv, Threads, At, Goto
<1>1. CASE AddLoad \/ AddStore \/ CountLoad \/ CountStore
  <2>1. /\ mutex' = mutex /\ cpc' = cpc /\ stray' = stray
        /\ \E place \in {"add", "countload", "count", "log"} :
              pc' = [pc EXCEPT !["nidaq"] = place]
        /\ pc["nidaq"] \notin {"merging", "logging"}
    BY <1>1 DEF AddLoad, AddStore, CountLoad, CountStore, clientVars
  <2>2. MutexInv' BY <2>1, Outside, MutexKept DEF Places
  <2>3. pwr' \in 0..(PwrMod - 1)
    BY <1>1 DEF TypeOK, AddLoad, AddStore, CountLoad, CountStore, statVars
  <2>4. TypeOK' /\ NoDivisionByZero'
    BY <1>1, <2>1, <2>3 DEF TypeOK, Places, NoDivisionByZero, AddLoad, AddStore, CountLoad,
       CountStore, clientVars, statVars, dataVars
  <2> QED BY <2>2, <2>4
<1>2. CASE ResetTest \/ ResetAverage \/ ResetZero \/ ResetSamples
  <2>1. /\ mutex' = mutex /\ cpc' = cpc /\ stray' = stray
        /\ \E place \in {"log", "average", "zero", "zerosamples", "unlock"} :
              pc' = [pc EXCEPT !["wattsup"] = place]
        /\ pc["wattsup"] \notin {"merging", "logging"}
    BY <1>2 DEF ResetTest, ResetAverage, ResetZero, ResetSamples, clientVars
  <2>2. MutexInv' BY <2>1, Outside, MutexKept DEF Places
  <2>3. UNCHANGED <<running, main, peer, sysPower, niPower, tmp>>
    BY <1>2 DEF ResetTest, ResetAverage, ResetZero, ResetSamples, statVars, dataVars
  <2>4. pwr' \in {pwr, 0} /\ samples' \in {samples, 0}
    BY <1>2 DEF ResetTest, ResetAverage, ResetZero, ResetSamples, statVars
  <2>5. TypeOK'
    BY <2>1, <2>3, <2>4 DEF TypeOK, Places
  <2>6. pc'["wattsup"] = "average" => samples # 0 /\ samples' = samples
    BY <1>2 DEF ResetTest, ResetAverage, ResetZero, ResetSamples, statVars, TypeOK
  <2>7. NoDivisionByZero'
    BY <2>6 DEF NoDivisionByZero, TypeOK
  <2> QED BY <2>2, <2>5, <2>7
<1>3. CASE StrayUnlock
  <2>1. Inside' = Inside
    BY <1>3, Outside DEF StrayUnlock, clientVars, Places
  <2>2. MutexInv'
    BY <1>3, <2>1 DEF StrayUnlock, MutexInv, ExclusionUntilStray, TypeOK
  <2>3. TypeOK' /\ NoDivisionByZero'
    BY <1>3 DEF TypeOK, Places, NoDivisionByZero, StrayUnlock, clientVars, statVars, dataVars
  <2> QED BY <2>2, <2>3
<1> QED BY <1>1, <1>2, <1>3 DEF statistic_nidaq_power

LEMMA ClientStep == MultiInv /\ (SendLock \/ SendUnlock) => MultiInv'
BY DEF MultiInv, TypeOK, MutexInv, ExclusionUntilStray, NoDivisionByZero, Inside,
   SendLock, SendUnlock, statVars, dataVars

LEMMA OtherKept == MultiInv /\ OtherStep => MultiInv'
<1> SUFFICES ASSUME MultiInv, OtherStep PROVE MultiInv'
  OBVIOUS
<1> USE MultiAssumption DEF MultiInv, Threads, At, Goto
<1>1. /\ mutex' = mutex /\ cpc' = cpc /\ stray' = stray /\ samples' = samples
      /\ UNCHANGED <<dataVars, statVars>>
      /\ \/ pc' = pc
         \/ /\ pc["rapl"] \in {"connect", "top"}
            /\ \E place \in {"top", "ended"} : pc' = [pc EXCEPT !["rapl"] = place]
  BY DEF OtherStep, monitor_rapl, ConnectMeter, RaplEnds, RaplReply, RaplPipe, PeerCloses,
     JoinAll, signal_exit, Exited, vars, clientVars, statVars
<1>2. Inside' = Inside
  BY <1>1 DEF Inside, TypeOK
<1>3. MutexInv' BY <1>1, <1>2, MutexKept
<1>4. running' \in 0..1 /\ main' \in {"up", "exited"}
      /\ peer' \in [Threads -> {"up", "closed", "reset"}]
  BY DEF OtherStep, monitor_rapl, ConnectMeter, RaplEnds, RaplReply, RaplPipe, PeerCloses,
     JoinAll, signal_exit, Exited, vars, TypeOK
<1>5. TypeOK' /\ NoDivisionByZero'
  BY <1>1, <1>4 DEF TypeOK, NoDivisionByZero, Places, statVars, dataVars
<1> QED BY <1>3, <1>5

-----------------------------------------------------------------------------
(* The theorems *)

\* The invariant holds in every reachable state.
THEOREM MultiSafety == Spec => []MultiInv
<1>1. MultiInv /\ UNCHANGED vars => MultiInv'
  BY DEF MultiInv, TypeOK, MutexInv, ExclusionUntilStray, NoDivisionByZero, Inside, vars,
     statVars, dataVars, clientVars
<1>2. MultiInv /\ [Next]_vars => MultiInv'
  BY <1>1, MultiCases, MonitorStep, StatisticStep, OtherKept, ClientStep
<1> QED BY MultiInit, <1>2, PTL DEF Spec

\* merge_wattsup_nidaq_pwr, send_power and the log exclude each other until
\* statistic_nidaq_power frees a mutex that another thread holds
\* (multiserver.c, 897).
THEOREM ExclusionHolds == Spec => []ExclusionUntilStray
<1>1. MultiInv => ExclusionUntilStray BY DEF MultiInv, MutexInv
<1> QED BY <1>1, MultiSafety, PTL

\* Every path through merge_wattsup_nidaq_pwr, send_power and the log gives the
\* mutex back.
THEOREM MutexReturnedHolds == Spec => []MutexReturned
<1>1. MultiInv => MutexReturned BY DEF MultiInv, MutexInv, MutexReturned
<1> QED BY <1>1, MultiSafety, PTL

\* statistic_nidaq_power never divides by zero (multiserver.c, 888-891).
THEOREM NoDivisionHolds == Spec => []NoDivisionByZero
<1>1. MultiInv => NoDivisionByZero BY DEF MultiInv
<1> QED BY <1>1, MultiSafety, PTL

-----------------------------------------------------------------------------
(* The average *)

\* The sums are those of the window, unless an addition meets this reset or met
\* the last one.
Sound == ~dirty /\ (Resetting => ~overlap)

\* While the NI-DAQ thread is between its two additions pwr is ahead of the
\* window by the new reading.
Pending == IF pc["nidaq"] \in {"countload", "count"} THEN niPower ELSE 0

AverageInv ==
    /\ winSum \in Nat /\ winN \in Nat
    /\ overlap \in BOOLEAN /\ dirty \in BOOLEAN
    /\ Resetting /\ ~overlap => ~Adding
    /\ pc["wattsup"] = "zerosamples" /\ ~overlap => pwr = 0
    /\ Sound => /\ samples = winN
                /\ pc["nidaq"] = "count" => tmp = winN
                /\ pc["nidaq"] = "add" /\ winSum < PwrMod => tmp = winSum
                /\ pc["wattsup"] # "zerosamples" /\ winSum + Pending < PwrMod =>
                      pwr = winSum + Pending
    /\ AverageRight

Adds == {"addload", "add", "countload", "count"}
Resets == {"average", "zero", "zerosamples"}

\* A step outside statistic_nidaq_power.
LEMMA AverageKept ==
    ASSUME AverageInv, UNCHANGED <<statVars, winVars>>,
           \/ pc'["nidaq"] = pc["nidaq"] /\ niPower' = niPower
           \/ pc["nidaq"] \notin Adds /\ pc'["nidaq"] \notin Adds,
           \/ pc'["wattsup"] = pc["wattsup"]
           \/ pc["wattsup"] \notin Resets /\ pc'["wattsup"] \notin Resets
    PROVE  AverageInv'
<1>1. UNCHANGED <<pwr, samples, tmp, winSum, winN, overlap, dirty, wrong>>
  BY DEF statVars, winVars
<1>2. Pending' = Pending /\ (Adding' <=> Adding) /\ (Resetting' <=> Resetting)
  BY DEF Pending, Adding, Resetting, Adds, Resets
<1>3. Sound' <=> Sound
  BY <1>1, <1>2 DEF Sound
<1>4. /\ pc'["nidaq"] = pc["nidaq"] \/ pc'["nidaq"] \notin {"add", "count"}
      /\ pc'["wattsup"] = "zerosamples" <=> pc["wattsup"] = "zerosamples"
  BY DEF Adds, Resets
<1> QED BY <1>1, <1>2, <1>3, <1>4 DEF AverageInv, AverageRight

LEMMA AverageInit == Init => AverageInv
<1> SUFFICES ASSUME Init PROVE AverageInv
  OBVIOUS
<1>1. overlap \in BOOLEAN /\ dirty \in BOOLEAN /\ ~wrong
  BY Zenon DEF Init
<1>2. pwr = 0 /\ samples = 0 /\ winSum = 0 /\ winN = 0
  BY DEF Init
<1>3. pc["nidaq"] = "connect" /\ pc["wattsup"] = "connect"
  BY DEF Init, Threads
<1>4. Pending = 0 /\ ~Resetting
  BY <1>3 DEF Pending, Resetting
<1> QED BY <1>1, <1>2, <1>3, <1>4 DEF AverageInv, AverageRight

LEMMA AverageMonitor ==
    ASSUME TypeOK, AverageInv, NEW t \in Monitors, monitor_netmeter(t)
    PROVE  AverageInv'
<1> USE DEF Monitors, Threads, At, Goto
<1>1. CASE Merge(t)
  <2>1. /\ UNCHANGED <<pwr, samples, tmp, niPower, winSum, winN, dirty, wrong>>
        /\ overlap' = (overlap \/ (t = "nidaq" /\ Resetting))
        /\ pc' = [pc EXCEPT ![t] = IF t = "nidaq" THEN "addload" ELSE "test"]
        /\ pc[t] = "merging" /\ pc \in [Threads -> Places]
    BY <1>1 DEF Merge, statVars, TypeOK
  <2>2. CASE t = "nidaq"
    <3>1. pc'["nidaq"] = "addload" /\ pc'["wattsup"] = pc["wattsup"] /\ pc["nidaq"] = "merging"
      BY <2>1, <2>2
    <3>2. Pending' = 0 /\ Pending = 0 /\ (Resetting' <=> Resetting)
      BY <3>1 DEF Pending, Resetting
    <3>3. overlap' \in BOOLEAN /\ (overlap' <=> overlap \/ Resetting)
      BY <2>1, <2>2 DEF AverageInv
    <3>4. Sound' => Sound
      BY <2>1, <3>2, <3>3 DEF Sound
    <3> QED BY <2>1, <3>1, <3>2, <3>3, <3>4 DEF AverageInv, AverageRight
  <2>3. CASE t = "wattsup"
    <3>1. pc'["nidaq"] = pc["nidaq"] /\ pc'["wattsup"] = "test" /\ pc["wattsup"] = "merging"
      BY <2>1, <2>3
    <3>2. overlap' = overlap
      BY <2>1, <2>3 DEF AverageInv
    <3> QED BY <2>1, <3>1, <3>2, AverageKept DEF Resets, statVars, winVars
  <2> QED BY <2>2, <2>3
<1>2. CASE ~Merge(t)
  <2>1. UNCHANGED <<statVars, winVars>> /\ (t = "nidaq" \/ niPower' = niPower)
    BY <1>2 DEF monitor_netmeter, ConnectMeter, LoopTop, MergeLock, LogLock, LogUnlock, NoLog,
       Leave, Reply, ReplyBad, BrokenPipe, dataVars
  <2>2. pc[t] \notin Adds \cup Resets
    BY <1>2 DEF monitor_netmeter, ConnectMeter, LoopTop, MergeLock, LogLock, LogUnlock, NoLog,
       Leave, Reply, ReplyBad, BrokenPipe, Adds, Resets
  <2>3. pc' = pc \/ \E place \in Places \ (Adds \cup Resets) : pc' = [pc EXCEPT ![t] = place]
    BY <1>2 DEF monitor_netmeter, ConnectMeter, LoopTop, MergeLock, LogLock, LogUnlock, NoLog,
       Leave, Reply, ReplyBad, BrokenPipe, Adds, Resets, Places
  <2> QED BY <2>1, <2>2, <2>3, AverageKept DEF TypeOK
<1> QED BY <1>1, <1>2

LEMMA AverageAdds ==
    ASSUME TypeOK, AverageInv, AddLoad \/ AddStore \/ CountLoad \/ CountStore
    PROVE  AverageInv'
<1>1. UNCHANGED <<niPower, overlap, dirty, wrong>> /\ pc["nidaq"] \in Adds
  BY DEF AddLoad, AddStore, CountLoad, CountStore, At, Adds, winVars, dataVars
<1>2. pc'["wattsup"] = pc["wattsup"]
  BY DEF AddLoad, AddStore, CountLoad, CountStore, Goto, TypeOK, Threads
<1>3. (Resetting' <=> Resetting) /\ (Sound' <=> Sound)
  BY <1>1, <1>2 DEF Resetting, Sound
<1>4. Resetting => overlap
  BY <1>1 DEF AverageInv, Adding, Adds
<1>5. niPower \in Nat /\ pwr \in Nat /\ tmp \in Nat /\ samples \in Nat
      /\ winSum \in Nat /\ winN \in Nat /\ PwrMod \in Nat \ {0}
  BY MultiAssumption DEF TypeOK, AverageInv
<1>6. overlap \in BOOLEAN /\ dirty \in BOOLEAN /\ ~wrong
  BY DEF AverageInv, AverageRight
<1>7. CASE AddLoad
  <2>1. /\ UNCHANGED <<pwr, samples, winSum, winN>> /\ tmp' = pwr
        /\ pc["nidaq"] = "addload" /\ pc'["nidaq"] = "add"
    BY <1>7 DEF AddLoad, At, Goto, winVars, TypeOK, Threads
  <2>2. Pending = 0 /\ Pending' = 0
    BY <2>1 DEF Pending
  <2> QED BY <1>1, <1>2, <1>3, <1>4, <1>5, <1>6, <2>1, <2>2
          DEF AverageInv, AverageRight, Sound, Resetting
<1>8. CASE AddStore
  <2>1. /\ UNCHANGED <<samples, tmp, winSum, winN>> /\ pwr' = (tmp + niPower) % PwrMod
        /\ pc["nidaq"] = "add" /\ pc'["nidaq"] = "countload"
    BY <1>8 DEF AddStore, At, Goto, winVars, TypeOK, Threads
  <2>2. Pending' = niPower
    BY <1>1, <2>1 DEF Pending
  <2>3. tmp + niPower < PwrMod => pwr' = tmp + niPower
    BY <1>5, <2>1
  <2> QED BY <1>1, <1>2, <1>3, <1>4, <1>5, <1>6, <2>1, <2>2, <2>3
          DEF AverageInv, AverageRight, Sound, Resetting
<1>9. CASE CountLoad
  <2>1. /\ UNCHANGED <<pwr, samples, winSum, winN>> /\ tmp' = samples
        /\ pc["nidaq"] = "countload" /\ pc'["nidaq"] = "count"
    BY <1>9 DEF CountLoad, At, Goto, winVars, TypeOK, Threads
  <2>2. Pending' = Pending
    BY <1>1, <2>1 DEF Pending
  <2> QED BY <1>1, <1>2, <1>3, <1>4, <1>5, <1>6, <2>1, <2>2
          DEF AverageInv, AverageRight, Sound, Resetting
<1>10. CASE CountStore
  <2>1. /\ UNCHANGED <<pwr, tmp>> /\ samples' = tmp + 1
        /\ winSum' = winSum + niPower /\ winN' = winN + 1
        /\ pc["nidaq"] = "count" /\ pc'["nidaq"] = "log"
    BY <1>10 DEF CountStore, At, Goto, TypeOK, Threads
  <2>2. Pending' = 0 /\ Pending = niPower
    BY <2>1 DEF Pending
  <2> QED BY <1>1, <1>2, <1>3, <1>4, <1>5, <1>6, <2>1, <2>2
          DEF AverageInv, AverageRight, Sound, Resetting
<1> QED BY <1>7, <1>8, <1>9, <1>10

LEMMA AverageResets ==
    ASSUME TypeOK, NoDivisionByZero, AverageInv,
           ResetTest \/ ResetAverage \/ ResetZero \/ ResetSamples \/ StrayUnlock
    PROVE  AverageInv'
<1>1. UNCHANGED <<niPower, tmp>> /\ pc'["nidaq"] = pc["nidaq"]
  BY DEF ResetTest, ResetAverage, ResetZero, ResetSamples, StrayUnlock, Goto, TypeOK, Threads,
     statVars, dataVars
<1>2. Pending' = Pending /\ (Adding' <=> Adding) /\ (~Adding => Pending = 0)
  BY <1>1 DEF Pending, Adding
<1>3. overlap \in BOOLEAN /\ dirty \in BOOLEAN /\ Adding \in BOOLEAN /\ ~wrong
  BY DEF AverageInv, AverageRight, Adding
<1>4. pwr \in Nat /\ samples \in Nat /\ winSum \in Nat /\ winN \in Nat /\ PwrMod \in Nat \ {0}
  BY MultiAssumption DEF TypeOK, AverageInv
<1> USE DEF At, Goto, TypeOK, Threads
<1>5. CASE ResetTest
  <2>1. /\ UNCHANGED <<pwr, samples, winSum, winN, dirty, wrong>> /\ overlap' = Adding
        /\ pc["wattsup"] = "test" /\ pc'["wattsup"] \in {"log", "average"}
    BY <1>5 DEF ResetTest, statVars
  <2>2. overlap' \in BOOLEAN /\ (overlap' <=> Adding)
    BY <1>3, <2>1
  <2>3. ~Resetting
    BY <2>1 DEF Resetting
  <2>4. Sound' => Sound
    BY <2>1, <2>3 DEF Sound
  <2> QED BY <1>1, <1>2, <1>3, <1>4, <2>1, <2>2, <2>4 DEF AverageInv, AverageRight
<1>6. CASE ResetAverage
  <2>1. /\ UNCHANGED <<pwr, samples, winSum, winN, overlap, dirty>>
        /\ pc["wattsup"] = "average" /\ pc'["wattsup"] = "zero"
        /\ mergedNi' = IF samples = 0 THEN 0 ELSE pwr \div samples
    BY <1>6 DEF ResetAverage, statVars
  <2>2. Resetting /\ Resetting' /\ (Sound' <=> Sound)
    BY <2>1 DEF Resetting, Sound
  <2>3. ASSUME ~dirty, ~overlap, winSum < PwrMod
        PROVE  mergedNi' = IF winN = 0 THEN 0 ELSE winSum \div winN
    <3>1. Sound /\ ~Adding
      BY <2>2, <2>3 DEF Sound, AverageInv
    <3>2. samples = winN /\ pwr = winSum
      BY <1>2, <1>4, <2>1, <2>3, <3>1 DEF AverageInv
    <3> QED BY <2>1, <3>2
  <2>4. wrong' = FALSE
    BY <1>6, <2>3 DEF ResetAverage
  <2> QED BY <1>1, <1>2, <1>3, <1>4, <2>1, <2>2, <2>4 DEF AverageInv, AverageRight
<1>7. CASE ResetZero
  <2>1. /\ UNCHANGED <<samples, winSum, winN, overlap, dirty, wrong>> /\ pwr' = 0
        /\ pc["wattsup"] = "zero" /\ pc'["wattsup"] = "zerosamples"
    BY <1>7 DEF ResetZero, winVars
  <2>2. Resetting /\ Resetting' /\ (Sound' <=> Sound)
    BY <2>1 DEF Resetting, Sound
  <2> QED BY <1>1, <1>2, <1>3, <1>4, <2>1, <2>2 DEF AverageInv, AverageRight
<1>8. CASE ResetSamples
  <2>1. /\ UNCHANGED <<pwr, wrong>> /\ samples' = 0 /\ winSum' = 0 /\ winN' = 0
        /\ dirty' = overlap /\ overlap' = FALSE
        /\ pc["wattsup"] = "zerosamples" /\ pc'["wattsup"] = "unlock"
    BY <1>8 DEF ResetSamples
  <2>2. Sound' => ~overlap
    BY <2>1 DEF Sound
  <2>3. ~overlap => pwr = 0 /\ ~Adding
    BY <2>1 DEF AverageInv, Resetting
  <2>4. ~Resetting'
    BY <2>1 DEF Resetting
  <2>5. ~Adding => pc'["nidaq"] \notin {"add", "count"}
    BY <1>1 DEF Adding
  <2>6. overlap' \in BOOLEAN /\ dirty' \in BOOLEAN
    BY <1>3, <2>1, Zenon
  <2>7. Sound' => pwr' = 0 /\ Pending' = 0 /\ pc'["nidaq"] \notin {"add", "count"}
    BY <1>2, <2>1, <2>2, <2>3, <2>5
  <2> QED BY <1>3, <2>1, <2>4, <2>6, <2>7 DEF AverageInv, AverageRight
<1>9. CASE StrayUnlock
  BY <1>1, <1>9, AverageKept DEF StrayUnlock, Resets
<1> QED BY <1>5, <1>6, <1>7, <1>8, <1>9

LEMMA AverageOther ==
    ASSUME TypeOK, AverageInv, OtherStep \/ SendLock \/ SendUnlock \/ UNCHANGED vars
    PROVE  AverageInv'
<1>1. UNCHANGED <<statVars, winVars, niPower>>
  BY DEF OtherStep, monitor_rapl, ConnectMeter, RaplEnds, RaplReply, RaplPipe, PeerCloses,
     JoinAll, signal_exit, Exited, SendLock, SendUnlock, vars, dataVars
<1>2. pc'["nidaq"] = pc["nidaq"] /\ pc'["wattsup"] = pc["wattsup"]
  BY DEF OtherStep, monitor_rapl, ConnectMeter, RaplEnds, RaplReply, RaplPipe, PeerCloses,
     JoinAll, signal_exit, Exited, SendLock, SendUnlock, vars, Goto, TypeOK, Threads
<1> QED BY <1>1, <1>2, AverageKept

\* The average that statistic_nidaq_power publishes is the average of the
\* readings since the last one, although it adds and resets without the mutex:
\* an addition that meets no reset (this one or the last) is counted exactly
\* once, for every interleaving and every width of the sum.
THEOREM AverageIsRight == Spec => []AverageRight
<1>1. MultiInv /\ AverageInv /\ [Next]_vars => AverageInv'
  BY MultiCases, AverageMonitor, AverageAdds, AverageResets, AverageOther
     DEF MultiInv, statistic_nidaq_power
<1>2. AverageInv => AverageRight BY DEF AverageInv
<1> QED BY <1>1, <1>2, AverageInit, MultiSafety, PTL DEF Spec
=============================================================================
