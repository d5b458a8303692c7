----------------------------- MODULE Multiserver -----------------------------
(***************************************************************************)
(* The monitors of multiserver.c.  Three threads ask meter servers for      *)
(* readings over netmeter connections: the NI-DAQ monitor every 20 ms, the  *)
(* Watts Up monitor (main) every second, and monitor_rapl.  They share      *)
(* timely_wattsup, timely_nidaq, the sums of statistic_nidaq_power and      *)
(* mutex, which the client threads' send_power takes as well.               *)
(*                                                                         *)
(* One NI-DAQ channel stands for the 25; its sum is an unsigned int that    *)
(* wraps at PwrMod (2^32).  The mutex is a normal one, so an unlock by a    *)
(* thread that does not hold it frees it all the same.  A write to a        *)
(* connection that the peer has reset raises SIGPIPE, which nothing here    *)
(* catches.                                                                 *)
(***************************************************************************)
EXTENDS Naturals, FiniteSets

CONSTANTS
    Powers,       \* readings of the NI-DAQ channel
    SysPowers,    \* readings of the Watts Up
    MaxClosed,    \* bound: meter servers that go away
    PwrMod,       \* unsigned int arithmetic is modulo this
    MaxNi,        \* bound: NI-DAQ readings
    MaxWu,        \* bound: Watts Up readings
    MaxSends      \* bound: POWER requests of clients

ASSUME MultiAssumption ==
    /\ Powers \subseteq Nat /\ SysPowers \subseteq Nat /\ MaxClosed \in Nat
    /\ PwrMod \in Nat \ {0}
    /\ MaxNi \in Nat /\ MaxWu \in Nat /\ MaxSends \in Nat

Threads == {"nidaq", "wattsup", "rapl"}

VARIABLES
    running, main,      \* main: up or exited
    pc,                 \* the place of each monitor thread
    peer,               \* the meter server at the other end: up, closed, reset
    sysPower, niPower,  \* timely_wattsup.sys_power, timely_nidaq.nidaq_powers
    mergedSys, mergedNi,\* timely_nidaq.sys_power, timely_wattsup.nidaq_powers
    pwr, samples, tmp,  \* statistic_nidaq_power, and a load of the NI-DAQ thread
    mutex,              \* the thread that locked it, or "free"
    cpc, sends,         \* send_power in a client thread
    count,              \* readings so far
    winSum, winN,       \* history: readings added since the last reset
    overlap, dirty,     \* history: an addition met the reset; and it may have left a rest
    wrong,              \* history: the last average was not that of its readings
    stray               \* history: a thread's mutex was unlocked by another

statVars == <<pwr, samples, tmp>>
dataVars == <<sysPower, niPower, mergedSys, mergedNi>>
winVars == <<winSum, winN, overlap, dirty, wrong>>
clientVars == <<cpc, sends>>
vars == <<running, main, pc, peer, dataVars, statVars, mutex, clientVars, count,
          winVars, stray>>

Init ==
    /\ running = 1 /\ main = "up"
    /\ pc = [t \in Threads |-> "connect"]
    /\ peer = [t \in Threads |-> "up"]
    /\ sysPower = 0 /\ niPower = 0 /\ mergedSys = 0 /\ mergedNi = 0
    /\ pwr = 0 /\ samples = 0 /\ tmp = 0
    /\ mutex = "free" /\ cpc = "idle" /\ sends = 0
    /\ count = [t \in {"nidaq", "wattsup"} |-> 0]
    /\ winSum = 0 /\ winN = 0 /\ overlap = FALSE /\ dirty = FALSE
    /\ wrong = FALSE
    /\ stray = FALSE

Up == main # "exited"
At(t, place) == Up /\ pc[t] = place
Goto(t, place) == pc' = [pc EXCEPT ![t] = place]

\* The places where the NI-DAQ thread adds, where the Watts Up thread resets.
Adding == pc["nidaq"] \in {"addload", "add", "countload", "count"}
Resetting == pc["wattsup"] \in {"average", "zero", "zerosamples"}

-----------------------------------------------------------------------------
(* The connections *)

\* netmeter_connect; a failure stops the whole server.
ConnectMeter(t) ==
    /\ At(t, "connect")
    /\ \/ Goto(t, "top") /\ running' = running
       \/ Goto(t, "ended") /\ running' = 0
    /\ UNCHANGED <<main, peer, dataVars, statVars, mutex, clientVars, count, winVars, stray>>

\* Mutant: the loop does not look at running.
LoopTopBlind(t) ==
    /\ At(t, "top")
    /\ Goto(t, "request")
    /\ UNCHANGED <<running, main, peer, dataVars, statVars, mutex, clientVars, count, winVars, stray>>

LoopTop(t) ==
    /\ At(t, "top")
    /\ Goto(t, IF running = 1 THEN "request" ELSE "leave")
    /\ UNCHANGED <<running, main, peer, dataVars, statVars, mutex, clientVars, count, winVars, stray>>

Bound(t) == IF t = "nidaq" THEN MaxNi ELSE MaxWu

\* netmeter_request got a whole reply: store_last_reading and the new value,
\* without the mutex.
Reply(t, v) ==
    /\ At(t, "request") /\ peer[t] = "up"
    /\ count[t] < Bound(t)
    /\ count' = [count EXCEPT ![t] = @ + 1]
    /\ IF t = "nidaq" THEN niPower' = v /\ sysPower' = sysPower
                      ELSE sysPower' = v /\ niPower' = niPower
    /\ Goto(t, "merge")
    /\ UNCHANGED <<running, main, peer, mergedSys, mergedNi, statVars, mutex, clientVars,
                   winVars, stray>>

\* A reply that is cut short or has the wrong size is dropped, and the loop
\* goes on.  The first request after the peer closed ends like this too, and
\* makes the peer reset the connection.
ReplyBad(t) ==
    /\ At(t, "request") /\ peer[t] # "reset"
    /\ peer' = IF peer[t] = "closed" THEN [peer EXCEPT ![t] = "reset"] ELSE peer
    /\ Goto(t, "top")
    /\ UNCHANGED <<running, main, dataVars, statVars, mutex, clientVars, count, winVars, stray>>

\* The next write raises SIGPIPE and ends the process.
BrokenPipe(t) ==
    /\ At(t, "request") /\ peer[t] = "reset"
    /\ main' = "exited"
    /\ UNCHANGED <<running, pc, peer, dataVars, statVars, mutex, clientVars, count, winVars, stray>>

PeerCloses(t) ==
    /\ Up /\ peer[t] = "up"
    /\ Cardinality({u \in Threads : peer[u] # "up"}) < MaxClosed
    /\ peer' = [peer EXCEPT ![t] = "closed"]
    /\ UNCHANGED <<running, main, pc, dataVars, statVars, mutex, clientVars, count, winVars, stray>>

-----------------------------------------------------------------------------
(* monitor_netmeter behind a reply *)

\* Mutant: the lock is not waited for.
MergeLockTry(t) ==
    /\ At(t, "merge")
    /\ mutex' = t
    /\ Goto(t, "merging")
    /\ UNCHANGED <<running, main, peer, dataVars, statVars, clientVars, count, winVars, stray>>

MergeLock(t) ==
    /\ At(t, "merge") /\ mutex = "free"
    /\ mutex' = t
    /\ Goto(t, "merging")
    /\ UNCHANGED <<running, main, peer, dataVars, statVars, clientVars, count, winVars, stray>>

\* Mutant: the NI-DAQ branch returns with the mutex.
MergeKeep(t) ==
    /\ At(t, "merging")
    /\ mutex' = IF t = "nidaq" THEN mutex ELSE "free"
    /\ Goto(t, IF t = "nidaq" THEN "addload" ELSE "test")
    /\ overlap' = (overlap \/ (t = "nidaq" /\ Resetting))
    /\ UNCHANGED <<running, main, peer, dataVars, statVars, clientVars, count, winSum, winN,
                   dirty, wrong, stray>>

\* merge_wattsup_nidaq_pwr: each monitor takes over the other's reading.
Merge(t) ==
    /\ At(t, "merging")
    /\ IF t = "nidaq" THEN mergedSys' = sysPower /\ mergedNi' = mergedNi
                      ELSE mergedNi' = niPower /\ mergedSys' = mergedSys
    /\ mutex' = "free"
    /\ Goto(t, IF t = "nidaq" THEN "addload" ELSE "test")
    /\ overlap' = (overlap \/ (t = "nidaq" /\ Resetting))
    /\ UNCHANGED <<running, main, peer, sysPower, niPower, statVars, clientVars,
                   count, winSum, winN, dirty, wrong, stray>>

\* statistic_nidaq_power(.., 0): pwr += and samples++, each a load and a store.
AddLoad ==
    /\ At("nidaq", "addload")
    /\ tmp' = pwr
    /\ Goto("nidaq", "add")
    /\ UNCHANGED <<running, main, peer, dataVars, pwr, samples, mutex, clientVars, count, winVars, stray>>

AddStore ==
    /\ At("nidaq", "add")
    /\ pwr' = (tmp + niPower) % PwrMod
    /\ Goto("nidaq", "countload")
    /\ UNCHANGED <<running, main, peer, dataVars, samples, tmp, mutex, clientVars, count, winVars, stray>>

CountLoad ==
    /\ At("nidaq", "countload")
    /\ tmp' = samples
    /\ Goto("nidaq", "count")
    /\ UNCHANGED <<running, main, peer, dataVars, pwr, samples, mutex, clientVars, count, winVars, stray>>

CountStore ==
    /\ At("nidaq", "count")
    /\ samples' = tmp + 1
    /\ winSum' = winSum + niPower /\ winN' = winN + 1
    /\ Goto("nidaq", "log")
    /\ UNCHANGED <<running, main, peer, dataVars, pwr, tmp, mutex, clientVars, count,
                   overlap, dirty, wrong, stray>>

\* Mutant: the number of samples is not looked at.
ResetTestNone ==
    /\ At("wattsup", "test")
    /\ Goto("wattsup", "average")
    /\ overlap' = Adding
    /\ UNCHANGED <<running, main, peer, dataVars, statVars, mutex, clientVars, count,
                   winSum, winN, dirty, wrong, stray>>

\* statistic_nidaq_power(.., 1): without samples it returns at once.
ResetTest ==
    /\ At("wattsup", "test")
    /\ Goto("wattsup", IF samples = 0 THEN "log" ELSE "average")
    /\ overlap' = Adding
    /\ UNCHANGED <<running, main, peer, dataVars, statVars, mutex, clientVars, count,
                   winSum, winN, dirty, wrong, stray>>

ResetAverage ==
    /\ At("wattsup", "average")
    /\ mergedNi' = IF samples = 0 THEN 0 ELSE pwr \div samples
    /\ wrong' = (/\ ~dirty /\ ~overlap /\ winSum < PwrMod
                 /\ mergedNi' # (IF winN = 0 THEN 0 ELSE winSum \div winN))
    /\ Goto("wattsup", "zero")
    /\ UNCHANGED <<running, main, peer, sysPower, niPower, mergedSys, statVars,
                   mutex, clientVars, count, winSum, winN, overlap, dirty, stray>>

ResetZero ==
    /\ At("wattsup", "zero")
    /\ pwr' = 0
    /\ Goto("wattsup", "zerosamples")
    /\ UNCHANGED <<running, main, peer, dataVars, samples, tmp, mutex, clientVars, count, winVars, stray>>

\* Mutant: the number of samples is kept.
ResetSamplesKeep ==
    /\ At("wattsup", "zerosamples")
    /\ winSum' = 0 /\ winN' = 0
    /\ dirty' = overlap /\ overlap' = FALSE
    /\ Goto("wattsup", "unlock")
    /\ UNCHANGED <<running, main, peer, dataVars, statVars, mutex, clientVars,
                   count, wrong, stray>>

ResetSamples ==
    /\ At("wattsup", "zerosamples")
    /\ samples' = 0
    /\ winSum' = 0 /\ winN' = 0
    /\ dirty' = overlap /\ overlap' = FALSE
    /\ Goto("wattsup", "unlock")
    /\ UNCHANGED <<running, main, peer, dataVars, pwr, tmp, mutex, clientVars,
                   count, wrong, stray>>

\* The unlock that no lock belongs to.
StrayUnlock ==
    /\ At("wattsup", "unlock")
    /\ stray' = (stray \/ mutex # "free")
    /\ mutex' = "free"
    /\ Goto("wattsup", "log")
    /\ UNCHANGED <<running, main, peer, dataVars, statVars, clientVars, count, winVars>>

\* fplog is open: the RAPL columns are printed under the mutex.
LogLock(t) ==
    /\ At(t, "log") /\ mutex = "free"
    /\ mutex' = t
    /\ Goto(t, "logging")
    /\ UNCHANGED <<running, main, peer, dataVars, statVars, clientVars, count, winVars, stray>>

LogUnlock(t) ==
    /\ At(t, "logging")
    /\ mutex' = "free"
    /\ Goto(t, "top")
    /\ UNCHANGED <<running, main, peer, dataVars, statVars, clientVars, count, winVars, stray>>

NoLog(t) ==
    /\ At(t, "log")
    /\ Goto(t, "top")
    /\ UNCHANGED <<running, main, peer, dataVars, statVars, mutex, clientVars, count, winVars, stray>>

\* Behind the loop.
Leave(t) ==
    /\ At(t, "leave")
    /\ running' = 0
    /\ Goto(t, "ended")
    /\ UNCHANGED <<main, peer, dataVars, statVars, mutex, clientVars, count, winVars, stray>>

-----------------------------------------------------------------------------
(* main, the clients and SIGINT *)

\* The listener that main joins first ends once running is cleared.
JoinAll ==
    /\ main = "up" /\ running = 0
    /\ pc["wattsup"] = "ended" /\ pc["nidaq"] = "ended"
    /\ main' = "exited"
    /\ UNCHANGED <<running, pc, peer, dataVars, statVars, mutex, clientVars, count, winVars, stray>>

signal_exit ==
    /\ Up /\ running' = 0 /\ running = 1
    /\ UNCHANGED <<main, pc, peer, dataVars, statVars, mutex, clientVars, count, winVars, stray>>

\* send_power: sys_power and nidaq_powers are copied under the mutex.
SendLock ==
    /\ Up /\ cpc = "idle" /\ sends < MaxSends /\ mutex = "free"
    /\ mutex' = "client" /\ cpc' = "copying" /\ sends' = sends + 1
    /\ UNCHANGED <<running, main, pc, peer, dataVars, statVars, count, winVars, stray>>

SendUnlock ==
    /\ Up /\ cpc = "copying"
    /\ mutex' = "free" /\ cpc' = "idle"
    /\ UNCHANGED <<running, main, pc, peer, dataVars, statVars, sends, count, winVars, stray>>

monitor_netmeter(t) ==
    \/ ConnectMeter(t) \/ LoopTop(t) \/ MergeLock(t) \/ Merge(t)
    \/ LogLock(t) \/ LogUnlock(t) \/ NoLog(t) \/ Leave(t)
    \/ (\E v \in (IF t = "nidaq" THEN Powers ELSE SysPowers) : Reply(t, v)) \/ ReplyBad(t) \/ BrokenPipe(t)

RaplEnds ==
    /\ running = 0 /\ Goto("rapl", "ended")
    /\ UNCHANGED <<running, main, peer, dataVars, statVars, mutex, clientVars, count, winVars, stray>>

RaplReply ==
    /\ running = 1 /\ peer["rapl"] = "closed"
    /\ peer' = [peer EXCEPT !["rapl"] = "reset"]
    /\ UNCHANGED <<running, main, pc, dataVars, statVars, mutex, clientVars, count, winVars, stray>>

RaplPipe ==
    /\ running = 1 /\ peer["rapl"] = "reset"
    /\ main' = "exited"
    /\ UNCHANGED <<running, pc, peer, dataVars, statVars, mutex, clientVars, count, winVars, stray>>

statistic_nidaq_power == \/ AddLoad \/ AddStore \/ CountLoad \/ CountStore
                         \/ ResetTest \/ ResetAverage \/ ResetZero \/ ResetSamples \/ StrayUnlock

\* monitor_rapl: nobody waits for this thread, and its readings are kept without
\* the mutex; a failed request is repeated at once.
monitor_rapl == \/ ConnectMeter("rapl")
                \/ At("rapl", "top") /\ (RaplEnds \/ RaplReply \/ RaplPipe)

Exited == ~Up /\ UNCHANGED vars

Next == \/ \E t \in {"nidaq", "wattsup"} : monitor_netmeter(t)
        \/ statistic_nidaq_power \/ monitor_rapl
        \/ \E t \in Threads : PeerCloses(t)
        \/ JoinAll \/ signal_exit \/ SendLock \/ SendUnlock \/ Exited

Spec == Init /\ [][Next]_vars

\* The operating system runs every thread and a mutex that is free again and
\* again is obtained (SF); meter servers that are up answer or close.
Fairness ==
    /\ \A t \in {"nidaq", "wattsup"} :
          WF_vars(monitor_netmeter(t)) /\ SF_vars(MergeLock(t))
    /\ WF_vars(statistic_nidaq_power) /\ WF_vars(JoinAll) /\ WF_vars(SendUnlock)

FairSpec == Spec /\ Fairness

-----------------------------------------------------------------------------
(* Properties *)

Inside == {t \in {"nidaq", "wattsup"} : pc[t] \in {"merging", "logging"}}
          \cup (IF cpc = "copying" THEN {"client"} ELSE {})

Places == {"connect", "top", "request", "merge", "merging", "addload", "add", "countload",
           "count", "test", "average", "zero", "zerosamples", "unlock", "log", "logging",
           "leave", "ended"}

\* Types; the sums stay within an unsigned int.
TypeOK ==
    /\ running \in 0..1 /\ main \in {"up", "exited"}
    /\ pc \in [Threads -> Places]
    /\ peer \in [Threads -> {"up", "closed", "reset"}]
    /\ sysPower \in Nat /\ niPower \in Nat
    /\ pwr \in 0..(PwrMod - 1) /\ samples \in Nat /\ tmp \in Nat
    /\ mutex \in {"free", "nidaq", "wattsup", "client"}
    /\ cpc \in {"idle", "copying"}
    /\ stray \in BOOLEAN

\* The mutex excludes: until statistic_nidaq_power has unlocked it under
\* another thread, at most one thread is inside, and it is the holder.
ExclusionUntilStray ==
    ~stray => \A t \in Inside : mutex = t

\* The mutex comes back: when no thread is inside it is free, whatever the
\* unlock without a lock has done before.
MutexReturned == Inside = {} => mutex = "free"

\* The average that is published is that of the readings since the last one,
\* when no addition met the reset (this time or the time before) and their sum
\* fits an unsigned int.
AverageRight == ~wrong

\* The reset never divides by zero although samples is tested and used in
\* different steps: nobody else sets it to 0.
NoDivisionByZero == pc["wattsup"] = "average" => samples > 0

\* When one monitor cannot connect, stops or is stopped, the others follow and
\* the program ends.
AllStop == (running = 0) ~> (main = "exited")
=============================================================================
