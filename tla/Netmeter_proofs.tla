-------------------------- MODULE Netmeter_proofs --------------------------
(***************************************************************************)
(* Proofs about a measurement on its way to a netmeter client: niserver    *)
(* publishes and copies it whole (NiInv, for any number of channels,       *)
(* acquisitions and requests), and what netmeter_request reports as an     *)
(* answer is the answer of the server that was asked (NetInv, for any      *)
(* powers, any garbage in unassigned words, and replies cut anywhere).     *)
(***************************************************************************)
EXTENDS Niserver, Netmeter, TLAPS, SequenceTheorems

-----------------------------------------------------------------------------
(* niserver.  LockInv says who is inside hMutex, EvenInv how far the callback *)
(* has published, CopyInv what a client thread has copied, and TaskInv which  *)
(* tasks can still call back.                                                 *)

\* hMutex is held by whoever publishes or copies, and by nobody else.
LockInv ==
    /\ hMutex = "callback" <=> cb = "publish"
    /\ hMutex = "client" <=> cpc = "copy"

\* The channels below k are those of the acquisition being published; the
\* others are all of the acquisition before it.
EvenInv ==
    /\ cb # "publish" => k = 1
    /\ cb = "entered" => acq < MaxAcq
    /\ \A c \in 1..Chans : c < k => nidaq_milli_powers[c] = acq
    /\ \A c, d \in 1..Chans : c >= k /\ d >= k =>
          nidaq_milli_powers[c] = nidaq_milli_powers[d]

\* What has been copied is the acquisition that all channels show.
CopyInv ==
    /\ cpc = "copy" => Len(pkg) < Chans /\ newest = nidaq_milli_powers[1]
    /\ cpc \in {"copy", "send"} => \A n \in 1..Len(pkg) : pkg[n] = newest

\* Before the task is started and after it was cleared nothing calls back.
TaskInv ==
    /\ main = "starting" => task = "none" /\ cb = "idle" /\ ~ending
    /\ NoTaskLeft

NiInv == NiTypeOK /\ LockInv /\ EvenInv /\ CopyInv /\ TaskInv

LEMMA NiInitially == NiInit => NiInv
<1> SUFFICES ASSUME NiInit PROVE NiInv
  OBVIOUS
<1>1. NiTypeOK
  <2>1. 0 \in 0..MaxAcq /\ 1 \in 1..Chans BY NiAssumption
  <2>2. /\ nidaq_milli_powers \in [1..Chans -> 0..MaxAcq] /\ pkg \in Seq(0..MaxAcq)
        /\ acq \in 0..MaxAcq /\ newest \in 0..MaxAcq /\ k \in 1..Chans /\ sends \in Nat
    BY <2>1 DEF NiInit
  <2>3. ending \in BOOLEAN
    BY Zenon DEF NiInit
  <2>4. running \in 0..1
    BY DEF NiInit
  <2>5. main = "starting" /\ task = "none" /\ cb = "idle" /\ hMutex = "free" /\ cpc = "idle"
    BY DEF NiInit
  <2> QED BY <2>2, <2>3, <2>4, <2>5 DEF NiTypeOK
<1>2. LockInv /\ CopyInv /\ TaskInv BY DEF NiInit, LockInv, CopyInv, TaskInv, NoTaskLeft
<1>3. EvenInv BY NiAssumption DEF NiInit, EvenInv
<1> QED BY <1>1, <1>2, <1>3 DEF NiInv

\* The steps that neither publish nor copy.
Aside == \/ StartTask \/ LoopEnds \/ StopTask \/ ClearTask \/ MainReturns \/ Stop
         \/ EveryNCallback \/ DoneCallback \/ Reads \/ OwnCall \/ SendPkg

LEMMA NiCases ==
    ASSUME [NiNext]_niVars
    PROVE  Aside \/ PublishLock \/ Publish \/ SendLock \/ SendCopy \/ UNCHANGED niVars
BY DEF NiNext, MainThread, Callback, ClientThread, Aside

LEMMA QuietStep == NiInv /\ Aside => NiInv'
<1> SUFFICES ASSUME NiInv, Aside PROVE NiInv'
  OBVIOUS
<1> USE NiAssumption DEF NiInv, NiTypeOK, LockInv, EvenInv, CopyInv, TaskInv, NoTaskLeft,
        cbVars, sendVars, elseVars, Up, Place, Halt, Clear
<1>1. CASE StartTask BY <1>1 DEF StartTask
<1>2. CASE LoopEnds BY <1>2 DEF LoopEnds
<1>3. CASE StopTask BY <1>3 DEF StopTask
<1>4. CASE ClearTask BY <1>4 DEF ClearTask
<1>5. CASE MainReturns BY <1>5 DEF MainReturns
<1>6. CASE Stop BY <1>6 DEF Stop
<1>7. CASE EveryNCallback BY <1>7 DEF EveryNCallback
<1>8. CASE DoneCallback BY <1>8 DEF DoneCallback
<1>9. CASE Reads
  <2>1. CASE EveryNRead
    <3>1. /\ cb = "entered" /\ cb' = "lock" /\ k = 1 /\ k' = 1
          /\ UNCHANGED <<task, ending, elseVars>>
      BY <2>1 DEF EveryNRead
    <3>2. NiTypeOK' BY <2>1, <3>1 DEF EveryNRead
    <3>3. LockInv' /\ CopyInv' /\ TaskInv' BY <3>1
    <3>4. EvenInv' BY <3>1
    <3> QED BY <3>2, <3>3, <3>4
  <2>2. CASE EveryNEmpty BY <2>2 DEF EveryNEmpty
  <2>3. CASE EveryNError BY <2>3 DEF EveryNError
  <2> QED BY <1>9, <2>1, <2>2, <2>3 DEF Reads
<1>10. CASE OwnCall
  <2>1. CASE EveryNStop BY <2>1 DEF EveryNStop
  <2>2. CASE EveryNClear BY <2>2 DEF EveryNClear
  <2>3. CASE DoneClear BY <2>3 DEF DoneClear
  <2> QED BY <1>10, <2>1, <2>2, <2>3 DEF OwnCall
<1>11. CASE SendPkg BY <1>11 DEF SendPkg
<1> QED BY <1>1, <1>2, <1>3, <1>4, <1>5, <1>6, <1>7, <1>8, <1>9, <1>10, <1>11 DEF Aside

\* A callback that publishes has the mutex, so no copy is under way.
LEMMA PublishStep == NiInv /\ (PublishLock \/ Publish) => NiInv'
<1> SUFFICES ASSUME NiInv, PublishLock \/ Publish PROVE NiInv'
  OBVIOUS
<1> USE NiAssumption DEF NiInv, NiTypeOK, sendVars, Up
<1>1. CASE PublishLock
  BY <1>1 DEF PublishLock, LockInv, EvenInv, CopyInv, TaskInv, NoTaskLeft
<1>2. CASE Publish
  <2> USE <1>2 DEF Publish
  <2>1. hMutex = "callback" /\ cpc # "copy" BY DEF LockInv
  <2>2. NiTypeOK' OBVIOUS
  <2>3. LockInv' BY <2>1 DEF LockInv
  <2>4. EvenInv' BY DEF EvenInv
  <2>5. CopyInv' BY <2>1 DEF CopyInv
  <2>6. TaskInv' BY DEF TaskInv, NoTaskLeft
  <2> QED BY <2>2, <2>3, <2>4, <2>5, <2>6
<1> QED BY <1>1, <1>2

\* A client that copies has the mutex, so all channels show one acquisition.
LEMMA CopyStep == NiInv /\ (SendLock \/ SendCopy) => NiInv'
<1> SUFFICES ASSUME NiInv, SendLock \/ SendCopy PROVE NiInv'
  OBVIOUS
<1> USE NiAssumption DEF NiInv, NiTypeOK, cbVars, Up
<1>1. CASE SendLock
  BY <1>1 DEF SendLock, LockInv, EvenInv, CopyInv, TaskInv, NoTaskLeft
<1>2. CASE SendCopy
  <2> USE <1>2 DEF SendCopy
  <2>1. hMutex = "client" /\ cb # "publish" /\ k = 1 BY DEF LockInv, EvenInv
  <2>2. Len(pkg) + 1 \in 1..Chans BY DEF CopyInv
  <2>3. nidaq_milli_powers[Len(pkg) + 1] = newest
    BY <2>1, <2>2 DEF EvenInv, CopyInv
  <2>4. pkg' = Append(pkg, newest) BY <2>3
  <2>5. Len(pkg') = Len(pkg) + 1 /\ \A n \in 1..Len(pkg') : pkg'[n] = newest
    BY <2>4 DEF CopyInv
  <2>6. NiTypeOK' BY <2>4
  <2>7. LockInv' BY <2>1 DEF LockInv
  <2>8. EvenInv' BY DEF EvenInv
  <2>9. CopyInv' BY <2>2, <2>5 DEF CopyInv
  <2>10. TaskInv' BY DEF TaskInv, NoTaskLeft
  <2> QED BY <2>6, <2>7, <2>8, <2>9, <2>10
<1> QED BY <1>1, <1>2

\* The invariant holds in every reachable state.
THEOREM NiSafety == NiSpec => []NiInv
<1>1. NiInv /\ UNCHANGED niVars => NiInv'
  BY DEF NiInv, NiTypeOK, LockInv, EvenInv, CopyInv, TaskInv, NoTaskLeft, niVars, cbVars, sendVars
<1>2. NiInv /\ [NiNext]_niVars => NiInv'
  BY <1>1, NiCases, QuietStep, PublishStep, CopyStep
<1> QED BY NiInitially, <1>2, PTL DEF NiSpec

\* send_power never replies with a torn reading (nidaqmx_server.c, 44-92), for
\* any number of channels.
THEOREM WholeReadingHolds == NiSpec => []WholeReading
<1>1. NiInv => WholeReading BY DEF NiInv, CopyInv, WholeReading
<1> QED BY <1>1, NiSafety, PTL

\* start_nidaq_meter leaves no task behind (ContAcq-IntClk.c, 119-125), whichever
\* of its calls failed and whichever callback cleared the task first.
THEOREM NoTaskLeftHolds == NiSpec => []NoTaskLeft
<1>1. NiInv => NoTaskLeft BY DEF NiInv, TaskInv
<1> QED BY <1>1, NiSafety, PTL

-----------------------------------------------------------------------------
(* netmeter.  Units *)

Milli(m) == mm_t(m, 0, Milliwatts)

LEMMA FirstFlagIs ==
    ASSUME NEW mm, NEW flags, Len(flags) \in Nat, NEW n \in 1..Len(flags), NEW none,
           Has(mm, flags[n]), \A j \in 1..n-1 : ~Has(mm, flags[j])
    PROVE  FirstFlag(mm, flags, none) = flags[n]
<1> DEFINE set == {j \in 1..Len(flags) : Has(mm, flags[j])}
<1>1. n \in set /\ \A j \in set : n <= j
    OBVIOUS
<1>2. \A j \in set : (\A l \in set : j <= l) => j = n
    BY <1>1
<1>3. (CHOOSE j \in set : \A l \in set : j <= l) = n
    BY <1>1, <1>2
<1> QED
    BY <1>1, <1>3 DEF FirstFlag

LEMMA NoFlag ==
    ASSUME NEW mm, NEW flags, Len(flags) \in Nat, NEW none,
           \A j \in 1..Len(flags) : ~Has(mm, flags[j])
    PROVE  FirstFlag(mm, flags, none) = none
BY DEF FirstFlag

Scales == <<"MILLI", "MICRO", "NANO", "MEGA", "GIGA">>
Names == <<"NANO", "MICRO", "MILLI", "MEGA", "GIGA">>
Prefixes == {"NANO", "MICRO", "MILLI", "MEGA", "GIGA"}

\* A word with one scale is on that scale, in whatever order one looks.
LEMMA ScaleIs ==
    ASSUME NEW mm, NEW f \in Prefixes, \A g \in Prefixes : Has(mm, g) <=> g = f
    PROVE  /\ FirstFlag(mm, Scales, "none") = f
           /\ meter_units_prefix(mm) = f
<1>1. PICK n \in 1..5 : Scales[n] = f
    BY DEF Scales, Prefixes
<1>2. Len(Scales) = 5 /\ \A j \in 1..5 : Scales[j] \in Prefixes /\ (Scales[j] = f => j = n)
    BY <1>1 DEF Scales, Prefixes
<1>3. FirstFlag(mm, Scales, "none") = Scales[n]
    BY <1>1, <1>2, FirstFlagIs
<1>4. PICK m \in 1..5 : Names[m] = f
    BY DEF Names, Prefixes
<1>5. Len(Names) = 5 /\ \A j \in 1..5 : Names[j] \in Prefixes /\ (Names[j] = f => j = m)
    BY <1>4 DEF Names, Prefixes
<1>6. \A none : FirstFlag(mm, Names, none) = Names[m]
    BY <1>4, <1>5, FirstFlagIs
<1>7. meter_units_prefix(mm) = FirstFlag(mm, Names, "")
    BY DEF meter_units_prefix, Names
<1> QED
    BY <1>1, <1>3, <1>4, <1>6, <1>7, Zenon

\* What a power is called, and what it is on any scale.
LEMMA MilliwattsAre ==
    ASSUME NEW m \in Nat
    PROVE  /\ meter_units_prefix(Milli(m)) = "MILLI"
           /\ meter_units_measure(Milli(m)) = "WATTS"
           /\ \A c \in Conversions(Milli(m)) : meter_to_base(c) = mm_t(m, -3, MUNITS.WATTS)
<1> DEFINE on(e, f) == mm_t(m, e, 1024 + MUNITS[f])
<1>1. Milli(m) = on(0, "MILLI")
    BY DEF Milli, Milliwatts, MUNITS, mm_t
<1>2. \A e \in Int : \A f, g \in Prefixes : Has(on(e, f), g) <=> g = f
    BY DEF Has, MUNITS, mm_t, Prefixes
<1>3. \A e \in Int : \A f \in Prefixes :
        FirstFlag(on(e, f), Scales, "none") = f /\ meter_units_prefix(on(e, f)) = f
  <2> HIDE DEF on
  <2> QED
      BY <1>2, ScaleIs
<1>4. \A e \in Int : \A f \in Prefixes :
        meter_to_base(on(e, f)) = mm_t(m, e + Scale[f], MUNITS.WATTS)
  <2> SUFFICES ASSUME NEW e \in Int, NEW f \in Prefixes
               PROVE  meter_to_base(on(e, f)) = mm_t(m, e + Scale[f], MUNITS.WATTS)
      OBVIOUS
  <2>1. /\ on(e, f).m = m /\ on(e, f).e = e
        /\ on(e, f).units - MUNITS[f] = MUNITS.WATTS /\ f # "none"
      BY DEF mm_t, MUNITS, Prefixes
  <2> HIDE DEF on
  <2>2. FirstFlag(on(e, f), Scales, "none") = f
      BY <1>3
  <2> QED
      BY <2>1, <2>2 DEF meter_to_base, Scales
<1>5. \A f \in Prefixes : OnScale(on(0, "MILLI"), f) = on(-3 - Scale[f], f)
  <2> SUFFICES ASSUME NEW f \in Prefixes
               PROVE  OnScale(on(0, "MILLI"), f) = on(-3 - Scale[f], f)
      OBVIOUS
  <2>1. /\ Has(on(0, "MILLI"), f) <=> f = "MILLI"
        /\ meter_to_base(on(0, "MILLI")) = mm_t(m, -3, MUNITS.WATTS)
      BY <1>2, <1>4 DEF Prefixes, Scale
  <2>2. on(-3 - Scale["MILLI"], "MILLI") = on(0, "MILLI")
      BY DEF Scale
  <2>3. mm_t(m, -3 - Scale[f], MUNITS.WATTS + MUNITS[f]) = on(-3 - Scale[f], f)
      BY DEF MUNITS
  <2>4. mm_t(m, -3, MUNITS.WATTS).m = m /\ mm_t(m, -3, MUNITS.WATTS).e = -3
        /\ mm_t(m, -3, MUNITS.WATTS).units = MUNITS.WATTS
      BY DEF mm_t
  <2> HIDE DEF on
  <2> QED
      BY <2>1, <2>2, <2>3, <2>4 DEF OnScale
<1>6. \A f \in Prefixes : meter_to_base(on(-3 - Scale[f], f)) = mm_t(m, -3, MUNITS.WATTS)
  <2> SUFFICES ASSUME NEW f \in Prefixes
               PROVE  meter_to_base(on(-3 - Scale[f], f)) = mm_t(m, -3, MUNITS.WATTS)
      OBVIOUS
  <2>1. Scale[f] \in Int /\ -3 - Scale[f] \in Int /\ (-3 - Scale[f]) + Scale[f] = -3
      BY DEF Scale, Prefixes
  <2> HIDE DEF on
  <2> QED
      BY <2>1, <1>4
<1>7. on(0, "MILLI") = on(-3 - Scale["MILLI"], "MILLI") /\ "MILLI" \in Prefixes
    BY DEF Scale, Prefixes
<1>8. \A c \in Conversions(on(0, "MILLI")) :
        \E f \in Prefixes : c = on(-3 - Scale[f], f)
  <2> HIDE DEF on
  <2> QED
      BY <1>5, <1>7 DEF Conversions, Prefixes, meter_to_milli, meter_to_mega, meter_to_micro,
         meter_to_nano, meter_to_giga
<1>9. \A c \in Conversions(on(0, "MILLI")) : meter_to_base(c) = mm_t(m, -3, MUNITS.WATTS)
    BY <1>6, <1>8
<1> DEFINE measures == <<"AMPS", "VOLTS", "WATTS", "JOULES", "CELCIUS", "FAHRENHEIT",
                         "DECIBELS", "OHMS", "HZ", "POWERFACTOR">>
<1>10. /\ Len(measures) = 10 /\ 3 \in 1..10
       /\ measures[1] = "AMPS" /\ measures[2] = "VOLTS" /\ measures[3] = "WATTS"
    OBVIOUS
<1>11. /\ ~Has(on(0, "MILLI"), "AMPS") /\ ~Has(on(0, "MILLI"), "VOLTS")
       /\ Has(on(0, "MILLI"), "WATTS")
    BY DEF Has, MUNITS, mm_t
<1>12. FirstFlag(on(0, "MILLI"), measures, "unassigned") = "WATTS"
  <2>1. \A j \in 1..3-1 : j = 1 \/ j = 2
      OBVIOUS
  <2> HIDE DEF measures, on
  <2> QED
      BY <2>1, <1>10, <1>11, FirstFlagIs
<1>13. meter_units_measure(on(0, "MILLI")) = "WATTS"
    BY <1>12 DEF meter_units_measure
<1> HIDE DEF on
<1> QED
    BY <1>1, <1>3, <1>7, <1>9, <1>13

\* Every server sends whole milliwatts.
LEMMA ReadingIs ==
    ASSUME NEW p \in Nat
    PROVE  Reading(p) = p \div 10
<1> DEFINE w == mm_t(p, -4, MUNITS.WATTS)
<1>1. \A f \in Prefixes : ~Has(w, f)
    BY DEF Has, MUNITS, mm_t, Prefixes
<1>2. Len(Scales) = 5 /\ \A j \in 1..5 : Scales[j] \in Prefixes
    BY DEF Scales, Prefixes
<1>3. FirstFlag(w, Scales, "none") = "none"
  <2> HIDE DEF w
  <2> QED
      BY <1>1, <1>2, NoFlag
<1>4. meter_to_base(w) = w
    BY <1>3 DEF meter_to_base, Scales
<1>5. meter_to_milli(w) = mm_t(p, -1, Milliwatts)
    BY <1>1, <1>4 DEF meter_to_milli, OnScale, Scale, MUNITS, mm_t, Milliwatts, Prefixes
<1>6. Truncated(mm_t(p, -1, Milliwatts)) = p \div 10
    BY DEF Truncated, mm_t
<1> QED
    BY <1>5, <1>6 DEF Reading

-----------------------------------------------------------------------------
(* netmeter.  The invariant *)

\* The reply to POWER of a server that measured ps.
PowerReply(ps) == <<POWER, Len(ps), Milliwatts>> \o [j \in 1..Len(ps) |-> ps[j] \div 10]

NetTypes ==
    /\ server \in Servers /\ cmd \in {ENERGY, POWER, READ}
    /\ msg \in [cmd : Nat, chs : Nat, units : Nat]
    /\ readings \in Seq(Nat) /\ answer \in Seq(Powers)
    /\ c2s \in Seq(Nat) /\ s2c \in Seq(Nat) /\ failed \in BOOLEAN

\* A whole reply is under way: a header whose num_chs may be anything, or the
\* powers of the answer.
Complete ==
    \/ answer = <<>> /\ Len(s2c) = Header /\ s2c[1] = cmd
    \/ cmd = POWER /\ s2c = PowerReply(answer)

\* msg and readings are the answer, in milliwatts.
Answered ==
    /\ msg.chs = Len(answer) /\ Len(readings) >= msg.chs
    /\ msg.chs > 0 => cmd = POWER /\ msg.units = Milliwatts
    /\ \A j \in 1..msg.chs : readings[j] = answer[j] \div 10

\* Before the first error the client and its server take turns, and nothing of
\* an earlier request is on the wire.
SyncInv ==
    ~failed =>
        /\ msg.cmd = cmd
        /\ pc \in {"connect", "top", "write", "print", "close"} => c2s = <<>> /\ s2c = <<>>
        /\ pc = "await" => \/ s2c = <<>> /\ c2s = <<>>
                           \/ s2c = <<>> /\ c2s = <<cmd>>
                           \/ c2s = <<>> /\ Complete
        /\ pc = "print" => Answered

NetInv == NetTypes /\ SyncInv

LEMMA NetInitially == Init => NetInv
<1> SUFFICES ASSUME Init PROVE NetInv
    OBVIOUS
<1>1. <<>> \in Seq(Nat) /\ <<>> \in Seq(Powers)
    BY EmptySeq
<1>2. PICK g \in Garbage : msg = [cmd |-> cmd, chs |-> g, units |-> g]
    BY DEF Init
<1>3. g \in Nat /\ cmd \in {ENERGY, POWER, READ} /\ cmd \in Nat
    BY NetmeterAssumption DEF Init, ENERGY, POWER, READ
<1>4. msg \in [cmd : Nat, chs : Nat, units : Nat] /\ msg.cmd = cmd
    BY <1>2, <1>3
<1>5. NetTypes
    BY <1>1, <1>3, <1>4 DEF Init, NetTypes
<1>6. SyncInv
    BY <1>4 DEF Init, SyncInv
<1> QED
    BY <1>5, <1>6 DEF NetInv

LEMMA Regrouped ==
    ASSUME NEW a \in Seq(Nat), NEW b \in Seq(Nat), NEW d \in Seq(Nat)
    PROVE  (a \o b) \o d = a \o (b \o d)
BY ConcatAssociative, SMTT(30)

\* What any server sends for a command that has a reply.
LEMMA RepliesAre ==
    ASSUME NetTypes, NEW c \in {POWER, READ, ENERGY}, SendReply(c)
    PROVE  /\ answer' \in Seq(Powers) /\ s2c' \in Seq(Nat)
           /\ \/ answer' = <<>> /\ s2c' = s2c
              \/ answer' = <<>> /\ \E g, u \in Nat : s2c' = s2c \o <<c, g, u>>
              \/ c = POWER /\ s2c' = s2c \o PowerReply(answer')
<1> USE DEF NetTypes
<1>1. /\ c \in Nat /\ POWER \in Nat /\ Milliwatts \in Nat
      /\ MUNITS.JOULES \in Nat /\ MUNITS.WATTS \in Nat
    BY DEF POWER, READ, ENERGY, Milliwatts, MUNITS
<1>2. ASSUME NEW chs \in {1, 2}, SendPower(chs)
      PROVE  answer' \in Seq(Powers) /\ s2c' \in Seq(Nat) /\ s2c' = s2c \o PowerReply(answer')
  <2>1. answer' \in [1..chs -> Powers] /\ chs \in Nat
      BY <1>2 DEF SendPower
  <2>2. answer' \in Seq(Powers) /\ Len(answer') = chs /\ DOMAIN answer' = 1..chs
      BY <2>1, SeqDef, LenProperties
  <2>3. \A j \in 1..chs : Reading(answer'[j]) = answer'[j] \div 10
                          /\ answer'[j] \div 10 \in Nat
    <3>1. \A j \in 1..chs : answer'[j] \in Nat
        BY <2>1, NetmeterAssumption
    <3>2. \A p \in Nat : Reading(p) = p \div 10 /\ p \div 10 \in Nat
        BY ReadingIs
    <3> QED
        BY <3>1, <3>2
  <2> DEFINE tail == [j \in 1..chs |-> answer'[j] \div 10]
  <2>4. tail = [j \in 1..chs |-> Reading(answer'[j])]
      BY <2>3
  <2>5. s2c' = s2c \o <<POWER, chs, Milliwatts>> \o tail
      BY <1>2, <2>4 DEF SendPower
  <2>6. tail \in Seq(Nat)
    <3>1. tail \in [1..chs -> Nat]
        BY <2>3
    <3> HIDE DEF tail
    <3> QED
        BY <3>1, <2>1, SeqDef
  <2>7. <<POWER, chs, Milliwatts>> \in Seq(Nat)
      BY <1>1, <2>1
  <2> HIDE DEF tail
  <2>8. /\ s2c \o <<POWER, chs, Milliwatts>> \o tail
             = s2c \o (<<POWER, chs, Milliwatts>> \o tail)
        /\ s2c \o <<POWER, chs, Milliwatts>> \o tail \in Seq(Nat)
    <3> DEFINE head == <<POWER, chs, Milliwatts>>
    <3>1. head \in Seq(Nat) /\ s2c \in Seq(Nat) /\ tail \in Seq(Nat)
        BY <2>6, <2>7
    <3> HIDE DEF head
    <3>2. s2c \o head \in Seq(Nat) /\ (s2c \o head) \o tail \in Seq(Nat)
        BY <3>1, ConcatProperties
    <3>3. (s2c \o head) \o tail = s2c \o (head \o tail)
        BY <3>1, Regrouped
    <3> QED
        BY <3>2, <3>3 DEF head
  <2>9. PowerReply(answer') = <<POWER, chs, Milliwatts>> \o tail
      BY <2>2 DEF PowerReply, tail
  <2> QED
      BY <2>2, <2>5, <2>8, <2>9
<1>3. ASSUME SendHeader(c)
      PROVE  answer' = <<>> /\ s2c' \in Seq(Nat) /\ \E g, u \in Nat : s2c' = s2c \o <<c, g, u>>
  <2> DEFINE units == IF c = POWER THEN Milliwatts
                      ELSE IF c = ENERGY THEN MUNITS.JOULES ELSE MUNITS.WATTS
  <2>1. units \in Nat
      BY <1>1
  <2> HIDE DEF units
  <2>2. PICK g \in Garbage : s2c' = s2c \o <<c, g, units>>
      BY <1>3 DEF SendHeader, units
  <2>3. g \in Nat
      BY NetmeterAssumption
  <2>4. <<c, g, units>> \in Seq(Nat)
      BY <1>1, <2>1, <2>3
  <2>5. s2c' \in Seq(Nat)
      BY <2>2, <2>4, ConcatProperties
  <2> QED
      BY <1>3, <2>1, <2>2, <2>3, <2>5 DEF SendHeader
<1>4. CASE c = POWER /\ \E chs \in {1, 2} : SendPower(chs)
    BY <1>2, <1>4
<1>5. CASE SendHeader(c)
    BY <1>3, <1>5, EmptySeq
<1>6. CASE answer' = <<>> /\ s2c' = s2c
    BY <1>6, EmptySeq
<1> QED
    BY <1>4, <1>5, <1>6 DEF SendReply, MserverReply, SensorReply, MultiReply, MloggerReply,
       NiReply

\* The two parts that a read cuts the stream into.
LEMMA FirstPart ==
    ASSUME NEW s \in Seq(Nat), NEW n \in 0..Len(s)
    PROVE  /\ SubSeq(s, 1, n) \in Seq(Nat) /\ Len(SubSeq(s, 1, n)) = n
           /\ \A j \in 1..n : SubSeq(s, 1, n)[j] = s[j]
<1>1. n \in Int /\ 1 \in Int /\ Len(s) \in Nat /\ n >= 0
    BY LenProperties
<1>2. \A j \in 1..n : s[j] \in Nat
    BY <1>1, ElementOfSeq
<1>3. /\ SubSeq(s, 1, n) \in Seq(Nat)
      /\ Len(SubSeq(s, 1, n)) = IF 1 <= n THEN n - 1 + 1 ELSE 0
      /\ \A j \in 1..n-1+1 : SubSeq(s, 1, n)[j] = s[1 + j - 1]
    BY <1>1, <1>2, SubSeqProperties, Z3
<1> QED
    BY <1>1, <1>3

LEMMA LastPart ==
    ASSUME NEW s \in Seq(Nat), NEW n \in Nat
    PROVE  /\ SubSeq(s, n + 1, Len(s)) \in Seq(Nat)
           /\ Len(SubSeq(s, n + 1, Len(s))) = IF n <= Len(s) THEN Len(s) - n ELSE 0
           /\ \A j \in 1..(Len(s) - n) : SubSeq(s, n + 1, Len(s))[j] = s[n + j]
<1>1. n + 1 \in Int /\ Len(s) \in Nat
    BY LenProperties
<1>2. \A j \in n + 1..Len(s) : s[j] \in Nat
    BY <1>1, ElementOfSeq
<1>3. /\ SubSeq(s, n + 1, Len(s)) \in Seq(Nat)
      /\ Len(SubSeq(s, n + 1, Len(s))) = IF n + 1 <= Len(s) THEN Len(s) - (n + 1) + 1 ELSE 0
      /\ \A j \in 1..(Len(s) - (n + 1) + 1) : SubSeq(s, n + 1, Len(s))[j] = s[(n + 1) + j - 1]
    BY <1>1, <1>2, SubSeqProperties, Z3
<1>4. \A j \in 1..(Len(s) - n) : s[(n + 1) + j - 1] = s[n + j]
    OBVIOUS
<1> QED
    BY <1>1, <1>3, <1>4

LEMMA PowerReplyIs ==
    ASSUME NEW ps \in Seq(Powers)
    PROVE  /\ PowerReply(ps) \in Seq(Nat) /\ Len(ps) \in Nat /\ Len(PowerReply(ps)) = 3 + Len(ps)
           /\ PowerReply(ps)[1] = POWER /\ PowerReply(ps)[2] = Len(ps)
           /\ PowerReply(ps)[3] = Milliwatts
           /\ \A j \in 1..Len(ps) : PowerReply(ps)[j + 3] = ps[j] \div 10
<1>1. Len(ps) \in Nat /\ \A j \in 1..Len(ps) : ps[j] \in Nat
    BY LenProperties, ElementOfSeq, NetmeterAssumption
<1>2. POWER \in Nat /\ Milliwatts \in Nat
    BY DEF POWER, Milliwatts, MUNITS
<1> DEFINE head == <<POWER, Len(ps), Milliwatts>>
           tail == [j \in 1..Len(ps) |-> ps[j] \div 10]
<1>3. /\ head \in Seq(Nat) /\ Len(head) = 3
      /\ head[1] = POWER /\ head[2] = Len(ps) /\ head[3] = Milliwatts
    BY <1>1, <1>2
<1>4. /\ tail \in [1..Len(ps) -> Nat]
      /\ \A j \in 1..Len(ps) : tail[j] = ps[j] \div 10
    BY <1>1
<1>5. PowerReply(ps) = head \o tail
    BY DEF PowerReply
<1> HIDE DEF head, tail
<1>6. tail \in Seq(Nat) /\ Len(tail) = Len(ps)
    BY <1>1, <1>4, SeqDef, LenProperties
<1>7. /\ head \o tail \in Seq(Nat) /\ Len(head \o tail) = 3 + Len(ps)
      /\ \A j \in 1..3 + Len(ps) : (head \o tail)[j] = IF j <= 3 THEN head[j] ELSE tail[j - 3]
  <2>1. /\ head \o tail \in Seq(Nat) /\ Len(head \o tail) = Len(head) + Len(tail)
        /\ \A j \in 1..Len(head) + Len(tail) :
              (head \o tail)[j] = IF j <= Len(head) THEN head[j] ELSE tail[j - Len(head)]
    <3>1. head \in Seq(Nat) /\ tail \in Seq(Nat)
        BY <1>3, <1>6
    <3> QED
        BY <3>1, ConcatProperties
  <2> QED
      BY <1>3, <1>6, <2>1
<1>8. \A j \in 1..Len(ps) : j + 3 \in 1..3 + Len(ps) /\ ~(j + 3 <= 3) /\ (j + 3) - 3 = j
    BY <1>1
<1> QED
    BY <1>1, <1>3, <1>4, <1>5, <1>7, <1>8

\* The read that ends a request before the first error has taken the whole
\* reply, and what it leaves in msg and readings is the answer.
LEMMA WholeReply ==
    ASSUME NetTypes, Complete, NEW n \in 1..Len(s2c), n = Header + s2c[2], n >= 3,
           NEW rs \in Seq(Nat), Len(rs) >= s2c[2],
           \A j \in 1..s2c[2] : rs[j] = s2c[j + 3]
    PROVE  /\ n = Len(s2c) /\ s2c[1] = cmd
           /\ s2c[2] = Len(answer)
           /\ s2c[2] > 0 => cmd = POWER /\ s2c[3] = Milliwatts
           /\ \A j \in 1..s2c[2] : rs[j] = answer[j] \div 10
<1>1. Len(s2c) \in Nat /\ s2c[2] \in Nat
    BY LenProperties, ElementOfSeq DEF NetTypes
<1>2. CASE answer = <<>> /\ Len(s2c) = Header /\ s2c[1] = cmd
  <2>1. Len(answer) = 0
      BY <1>2
  <2> QED
      BY <1>1, <1>2, <2>1 DEF Header
<1>3. CASE cmd = POWER /\ s2c = PowerReply(answer)
  <2>1. /\ Len(s2c) = 3 + Len(answer) /\ s2c[1] = POWER /\ s2c[2] = Len(answer)
        /\ s2c[3] = Milliwatts /\ \A j \in 1..Len(answer) : s2c[j + 3] = answer[j] \div 10
      BY <1>3, PowerReplyIs DEF NetTypes
  <2> QED
      BY <1>1, <1>3, <2>1 DEF Header
<1> QED
    BY <1>2, <1>3 DEF Complete

\* netmeter_request reads some first part of what is under way.
LEMMA ReadStep == NetInv /\ ReadReply => NetInv'
<1> SUFFICES ASSUME NetInv, ReadReply PROVE NetInv'
    OBVIOUS
<1>1. PICK n \in 1..Len(s2c) : /\ s2c' = SubSeq(s2c, n + 1, Len(s2c))
                               /\ Received(SubSeq(s2c, 1, n))
    BY DEF ReadReply
<1>2. /\ pc = "await" /\ pc' = "print"
      /\ server' = server /\ cmd' = cmd /\ answer' = answer /\ c2s' = c2s
    BY DEF ReadReply, options
<1>3. /\ s2c \in Seq(Nat) /\ readings \in Seq(Nat)
      /\ Len(s2c) \in Nat /\ Len(readings) \in Nat /\ n \in 0..Len(s2c) /\ n \in Nat /\ n >= 1
    BY <1>1, LenProperties DEF NetInv, NetTypes
<1> DEFINE words == SubSeq(s2c, 1, n)
<1>4. words \in Seq(Nat) /\ Len(words) = n /\ \A j \in 1..n : words[j] = s2c[j]
    BY <1>3, FirstPart
<1>5. s2c' \in Seq(Nat) /\ Len(s2c') = Len(s2c) - n
  <2>1. /\ SubSeq(s2c, n + 1, Len(s2c)) \in Seq(Nat)
        /\ Len(SubSeq(s2c, n + 1, Len(s2c))) = IF n <= Len(s2c) THEN Len(s2c) - n ELSE 0
      BY <1>3, LastPart
  <2> QED
      BY <1>1, <1>3, <2>1
<1>6. Received(words)
    BY <1>1
<1> HIDE DEF words
<1>7. CASE n < Header
  <2>1. failed' = TRUE /\ msg' = msg /\ readings' = readings
      BY <1>4, <1>6, <1>7 DEF Received
  <2> QED
      BY <1>2, <1>5, <2>1 DEF NetInv, NetTypes, SyncInv
<1>8. CASE n >= Header
  <2>1. n >= 3 /\ 1 \in 1..n /\ 2 \in 1..n /\ 3 \in 1..n
      BY <1>3, <1>8 DEF Header
  <2>2. s2c[1] \in Nat /\ s2c[2] \in Nat /\ s2c[3] \in Nat
      BY <2>1, <1>3, ElementOfSeq
  <2>3. words[1] = s2c[1] /\ words[2] = s2c[2] /\ words[3] = s2c[3]
      BY <2>1, <1>4
  <2>4. ~(Len(words) < Header)
      BY <1>3, <1>4, <2>1 DEF Header
  <2>5. /\ msg' = [cmd |-> s2c[1], chs |-> s2c[2], units |-> s2c[3]]
        /\ IF n # Header + s2c[2]
           THEN failed' = TRUE /\ readings' = readings
           ELSE /\ readings' = SubSeq(words, Header + 1, n)
                               \o SubSeq(readings, s2c[2] + 1, Len(readings))
                /\ failed' = failed
      BY <1>4, <1>6, <2>3, <2>4 DEF Received
  <2>6. /\ msg' \in [cmd : Nat, chs : Nat, units : Nat]
        /\ msg'.cmd = s2c[1] /\ msg'.chs = s2c[2] /\ msg'.units = s2c[3]
      BY <2>2, <2>5
  <2>7. CASE n # Header + s2c[2]
      BY <1>2, <1>5, <2>5, <2>6, <2>7 DEF NetInv, NetTypes, SyncInv
  <2>8. CASE n = Header + s2c[2]
    <3> DEFINE new == SubSeq(words, Header + 1, n)
               old == SubSeq(readings, s2c[2] + 1, Len(readings))
    <3>1. /\ new \in Seq(Nat) /\ Len(new) = n - Header
          /\ \A j \in 1..n - Header : new[j] = words[Header + j]
      <4>1. Header \in Nat
          BY DEF Header
      <4> QED
          BY <4>1, <1>4, <1>8, LastPart
    <3>2. /\ Len(new) = s2c[2] /\ \A j \in 1..s2c[2] : new[j] = s2c[j + 3]
      <4>1. n - Header = s2c[2] /\ n = 3 + s2c[2]
          BY <2>2, <2>8 DEF Header
      <4>2. \A j \in 1..s2c[2] : Header + j = j + 3 /\ j + 3 \in 1..n
          BY <2>2, <4>1 DEF Header
      <4> HIDE DEF new
      <4> QED
          BY <4>1, <4>2, <3>1, <1>4
    <3>3. old \in Seq(Nat)
        BY <1>3, <2>2, LastPart
    <3> HIDE DEF new, old
    <3>4. readings' = new \o old
        BY <2>5, <2>8 DEF new, old
    <3>5. /\ new \o old \in Seq(Nat) /\ Len(new \o old) = Len(new) + Len(old)
          /\ \A j \in 1..Len(new) + Len(old) :
                (new \o old)[j] = IF j <= Len(new) THEN new[j] ELSE old[j - Len(new)]
        BY <3>1, <3>3, ConcatProperties
    <3>6. Len(old) \in Nat
        BY <3>3, LenProperties
    <3>7. /\ readings' \in Seq(Nat) /\ Len(readings') >= s2c[2]
          /\ \A j \in 1..s2c[2] : readings'[j] = s2c[j + 3]
      <4>1. \A j \in 1..s2c[2] : j \in 1..Len(new) + Len(old) /\ j <= Len(new)
          BY <2>2, <3>2, <3>6
      <4> QED
          BY <2>2, <3>2, <3>4, <3>5, <3>6, <4>1
    <3>8. NetTypes'
        BY <1>2, <1>5, <2>5, <2>6, <2>8, <3>7 DEF NetInv, NetTypes
    <3>9. ASSUME ~failed PROVE msg'.cmd = cmd /\ s2c' = <<>> /\ c2s = <<>> /\ Answered'
      <4>1. c2s = <<>> /\ Complete
        <5>1. s2c # <<>>
            BY <1>3
        <5> QED
            BY <5>1, <1>2, <3>9 DEF NetInv, SyncInv
      <4>2. /\ n = Len(s2c) /\ s2c[1] = cmd /\ s2c[2] = Len(answer)
            /\ s2c[2] > 0 => cmd = POWER /\ s2c[3] = Milliwatts
            /\ \A j \in 1..s2c[2] : readings'[j] = answer[j] \div 10
        <5> HIDE DEF NetInv, Complete, NetTypes
        <5> QED
            BY <4>1, <2>1, <2>8, <3>7, WholeReply DEF NetInv
      <4>3. s2c' = <<>>
          BY <1>5, <4>2, EmptySeq
      <4>4. Answered'
          BY <1>2, <2>6, <3>7, <4>2 DEF Answered, Milliwatts
      <4> QED
          BY <2>6, <4>1, <4>2, <4>3, <4>4
    <3>10. SyncInv'
      <4>1. failed' = failed
          BY <2>5, <2>8
      <4> QED
          BY <1>2, <3>9, <4>1 DEF SyncInv
    <3> QED
        BY <3>8, <3>10 DEF NetInv
  <2> QED
      BY <2>7, <2>8
<1> QED
    BY <1>3, <1>7, <1>8 DEF Header

\* A reply to an empty stream is a whole reply.
LEMMA ReplyIsComplete ==
    ASSUME NetTypes, s2c = <<>>, SendReply(cmd), cmd' = cmd
    PROVE  s2c' = <<>> \/ Complete'
<1>1. cmd \in {POWER, READ, ENERGY} /\ cmd \in Nat
    BY DEF NetTypes, POWER, READ, ENERGY
<1>2. /\ answer' \in Seq(Powers)
      /\ \/ answer' = <<>> /\ s2c' = s2c
         \/ answer' = <<>> /\ \E g, u \in Nat : s2c' = s2c \o <<cmd, g, u>>
         \/ cmd = POWER /\ s2c' = s2c \o PowerReply(answer')
    BY <1>1, RepliesAre
<1>3. ASSUME NEW g \in Nat, NEW u \in Nat, answer' = <<>>, s2c' = s2c \o <<cmd, g, u>>
      PROVE  Complete'
  <2>1. <<cmd, g, u>> \in Seq(Nat) /\ Len(<<cmd, g, u>>) = 3 /\ <<cmd, g, u>>[1] = cmd
      BY <1>1
  <2>2. s2c' = <<cmd, g, u>>
      BY <1>3, <2>1, ConcatEmptySeq
  <2>3. Len(s2c') = 3 /\ s2c'[1] = cmd'
      BY <1>3, <2>1, <2>2
  <2> QED
      BY <1>3, <2>3 DEF Complete, Header
<1>4. ASSUME cmd = POWER, s2c' = s2c \o PowerReply(answer')
      PROVE  Complete'
  <2>1. PowerReply(answer') \in Seq(Nat)
      BY <1>2, PowerReplyIs
  <2>2. s2c' = PowerReply(answer')
      BY <1>4, <2>1, ConcatEmptySeq
  <2> QED
      BY <1>4, <2>2 DEF Complete, PowerReply, Milliwatts, POWER
<1> QED
    BY <1>2, <1>3, <1>4

\* A server answers one request, and before the first error there is never
\* another behind it.
LEMMA ServeStep == NetInv /\ Serve => NetInv'
<1> SUFFICES ASSUME NetInv, Serve PROVE NetInv'
    OBVIOUS
<1>1. /\ c2s # <<>> /\ c2s' = Tail(c2s)
      /\ server' = server /\ cmd' = cmd /\ pc' = pc /\ msg' = msg /\ readings' = readings
      /\ failed' = failed
    BY DEF Serve, options
<1>2. /\ cmd \in {POWER, READ, ENERGY} /\ cmd \in Nat /\ NetTypes /\ c2s \in Seq(Nat)
      /\ s2c \in Seq(Nat) /\ answer \in Seq(Powers)
    BY DEF NetInv, NetTypes, POWER, READ, ENERGY
<1>3. c2s' \in Seq(Nat)
    BY <1>1, <1>2, HeadTailProperties
<1>4. ASSUME NEW c \in Nat, c2s = <<c>>
      PROVE  Head(c2s) = c /\ Tail(c2s) = <<>>
    BY <1>4
<1>5. ASSUME ~failed,
             pc \in {"connect", "top", "write", "await", "print", "close"}
      PROVE  /\ pc = "await" /\ s2c = <<>> /\ Head(c2s) = cmd /\ c2s' = <<>>
             /\ msg.cmd = cmd
  <2>1. pc = "await" /\ s2c = <<>> /\ c2s = <<cmd>> /\ msg.cmd = cmd
      BY <1>1, <1>5 DEF NetInv, SyncInv
  <2> QED
      BY <1>1, <1>2, <1>4, <2>1
<1>6. \/ Head(c2s) \in {POWER, READ, ENERGY} /\ SendReply(Head(c2s))
      \/ Head(c2s) \notin {POWER, READ, ENERGY} /\ answer' = answer /\ s2c' = s2c
    BY DEF Serve, POWER, READ, ENERGY, RESET
<1>7. answer' \in Seq(Powers) /\ s2c' \in Seq(Nat)
    BY <1>2, <1>6, RepliesAre
<1>8. NetTypes'
    BY <1>1, <1>3, <1>7 DEF NetInv, NetTypes
<1>9. ASSUME ~failed,
             pc \in {"connect", "top", "write", "await", "print", "close"}
      PROVE  s2c' = <<>> \/ Complete'
  <2>1. s2c = <<>> /\ SendReply(cmd)
      BY <1>2, <1>5, <1>6, <1>9
  <2>2. NetTypes /\ cmd' = cmd
      BY <1>1, <1>2
  <2> QED
      BY <2>1, <2>2, ReplyIsComplete
<1>10. SyncInv'
  <2> SUFFICES ASSUME ~failed PROVE SyncInv'
      BY <1>1 DEF SyncInv
  <2>1. CASE pc \in {"connect", "top", "write", "await", "print", "close"}
    <3>1. /\ pc' = "await" /\ msg'.cmd = cmd' /\ c2s' = <<>>
          /\ s2c' = <<>> \/ Complete'
        BY <1>1, <1>5, <1>9, <2>1
    <3> QED
        BY <3>1 DEF SyncInv
  <2>2. CASE pc \notin {"connect", "top", "write", "await", "print", "close"}
      BY <1>1, <2>2 DEF NetInv, SyncInv
  <2> QED
      BY <2>1, <2>2
<1> QED
    BY <1>8, <1>10 DEF NetInv

\* The client sends its command, on a connection that holds nothing.
LEMMA WriteStep == NetInv /\ Write => NetInv'
<1> SUFFICES ASSUME NetInv, Write PROVE NetInv'
    OBVIOUS
<1>1. /\ pc = "write" /\ c2s' = Append(c2s, msg.cmd) /\ answer' = <<>>
      /\ pc' = IF msg.cmd = RESET THEN "print" ELSE "await"
      /\ server' = server /\ cmd' = cmd /\ msg' = msg /\ readings' = readings
      /\ failed' = failed /\ s2c' = s2c
    BY DEF Write, options
<1>2. msg.cmd \in Nat /\ c2s \in Seq(Nat) /\ cmd \in Nat /\ cmd # RESET
    BY DEF NetInv, NetTypes, POWER, READ, ENERGY, RESET
<1>3. c2s' \in Seq(Nat)
    BY <1>1, <1>2, AppendProperties
<1>4. <<>> \in Seq(Powers)
    BY EmptySeq
<1>5. NetTypes'
    BY <1>1, <1>3, <1>4 DEF NetInv, NetTypes
<1>6. ASSUME ~failed PROVE pc' = "await" /\ msg'.cmd = cmd' /\ s2c' = <<>> /\ c2s' = <<cmd'>>
  <2>1. msg.cmd = cmd /\ c2s = <<>> /\ s2c = <<>>
      BY <1>1, <1>6 DEF NetInv, SyncInv
  <2>2. c2s' = <<cmd>>
      BY <1>1, <1>2, <2>1
  <2> QED
      BY <1>1, <1>2, <2>1, <2>2
<1>7. SyncInv'
    BY <1>1, <1>6 DEF SyncInv
<1> QED
    BY <1>5, <1>7 DEF NetInv

\* The end of the stream is an error, whatever it leaves in msg.
LEMMA ReadClosedStep == NetInv /\ ReadClosed => NetInv'
<1> SUFFICES ASSUME NetInv, ReadClosed PROVE NetInv'
    OBVIOUS
<1>1. /\ failed' = TRUE
      /\ UNCHANGED <<server, cmd, readings, answer, c2s, s2c>>
    BY DEF ReadClosed, options
<1>2. msg' \in [cmd : Nat, chs : Nat, units : Nat]
  <2>1. \A g, h \in Garbage :
          [cmd |-> g, chs |-> h, units |-> g] \in [cmd : Nat, chs : Nat, units : Nat]
      BY NetmeterAssumption
  <2> QED
      BY <2>1 DEF ReadClosed, NetInv, NetTypes
<1> QED
    BY <1>1, <1>2 DEF NetInv, NetTypes, SyncInv

LEMMA CloseStep == NetInv /\ NetmeterClose => NetInv'
<1> SUFFICES ASSUME NetInv, NetmeterClose PROVE NetInv'
    OBVIOUS
<1>1. /\ c2s' = Append(c2s, QUIT) /\ pc' = "exited"
      /\ UNCHANGED <<server, cmd, msg, readings, failed, answer, s2c>> /\ pc = "close"
    BY DEF NetmeterClose, options
<1>2. c2s' \in Seq(Nat)
  <2>1. QUIT \in Nat /\ c2s \in Seq(Nat)
      BY DEF NetInv, NetTypes, QUIT
  <2> QED
      BY <1>1, <2>1, AppendProperties
<1> QED
    BY <1>1, <1>2 DEF NetInv, NetTypes, SyncInv

LEMMA OtherSteps ==
    NetInv /\ (Connect \/ LoopTop \/ WriteClosed \/ ConvertAndPrint \/ SignalDone
               \/ ServerStops \/ UNCHANGED vars) => NetInv'
<1> SUFFICES ASSUME NetInv,
                    Connect \/ LoopTop \/ WriteClosed \/ ConvertAndPrint \/ SignalDone
                    \/ ServerStops \/ UNCHANGED vars
             PROVE NetInv'
    OBVIOUS
<1>1. UNCHANGED <<server, cmd, msg, readings, answer, c2s, s2c>> /\ failed' \in BOOLEAN
    BY DEF Connect, LoopTop, WriteClosed, ConvertAndPrint, SignalDone, ServerStops, vars,
       options, NetInv, NetTypes
<1>2. NetTypes'
    BY <1>1 DEF NetInv, NetTypes
<1>3. SyncInv'
  <2> SUFFICES ASSUME ~failed' PROVE SyncInv'
      BY DEF SyncInv
  <2>1. ~failed
      BY <1>1 DEF Connect, LoopTop, WriteClosed, ConvertAndPrint, SignalDone, ServerStops,
         vars, options, NetInv, NetTypes
  <2>2. msg.cmd = cmd /\ cmd # RESET
      BY <2>1 DEF NetInv, NetTypes, SyncInv, POWER, READ, ENERGY, RESET
  <2>3. \/ pc' = pc
        \/ pc = "connect" /\ pc' \in {"top", "exited"}
        \/ pc = "top" /\ pc' \in {"write", "close"}
        \/ pc = "write" /\ pc' \in {"await", "exited"}
        \/ pc = "print" /\ pc' = "top"
      BY <2>2 DEF Connect, LoopTop, WriteClosed, ConvertAndPrint, SignalDone, ServerStops,
         vars, options
  <2> QED
      BY <1>1, <2>1, <2>3 DEF NetInv, SyncInv, Complete, Answered, PowerReply, Milliwatts
<1> QED
    BY <1>2, <1>3 DEF NetInv

\* Before the first error, client and server take turns: at most one request
\* and at most one reply are under way, never both, and the client that prints
\* holds the reply to the request it made.  (main and get_data of mclient.c,
\* netmeter_request, and client_req of the servers.)
THEOREM NetSafety == Spec => []NetInv
<1>1. NetInv /\ [Next]_vars => NetInv'
  <2> SUFFICES ASSUME NetInv, [Next]_vars PROVE NetInv'
      OBVIOUS
  <2> QED
      BY ReadStep, ServeStep, WriteStep, ReadClosedStep, CloseStep, OtherSteps
      DEF Next, Client, Quiet
<1> QED
    BY NetInitially, <1>1, PTL DEF Spec

\* What the client holds when it prints is the answer to its request, whole,
\* and every reading converts, on any scale, to the power the server measured.
LEMMA AnswersIt == NetInv => AnswersRequest
<1> SUFFICES ASSUME NetInv, pc = "print", ~failed
             PROVE  /\ msg.cmd = cmd
                    /\ msg.chs = Len(answer)
                    /\ \A j \in 1..msg.chs :
                          LET mm == netmeter_convert(msg, readings)[j] IN
                          /\ meter_units_prefix(mm) = "MILLI"
                          /\ meter_units_measure(mm) = "WATTS"
                          /\ \A c \in Conversions(mm) :
                                Number(meter_to_base(c))
                                    = Number(mm_t(answer[j] \div 10, -3, MUNITS.WATTS))
    BY DEF AnswersRequest
<1>1. msg.cmd = cmd /\ Answered
    BY DEF NetInv, SyncInv
<1>2. answer \in Seq(Powers) /\ Len(answer) \in Nat
    BY LenProperties DEF NetInv, NetTypes
<1>3. ASSUME NEW j \in 1..msg.chs
      PROVE  /\ netmeter_convert(msg, readings)[j] = mm_t(answer[j] \div 10, 0, Milliwatts)
             /\ answer[j] \div 10 \in Nat
  <2>1. j \in 1..Len(answer) /\ msg.chs > 0
      BY <1>1, <1>2 DEF Answered
  <2>2. answer[j] \in Nat
      BY <1>2, <2>1, ElementOfSeq, NetmeterAssumption
  <2>3. msg.cmd = POWER /\ msg.units = Milliwatts /\ msg.cmd # READ
        /\ readings[j] = answer[j] \div 10
      BY <1>1, <2>1 DEF Answered, POWER, READ
  <2> QED
      BY <2>2, <2>3 DEF netmeter_convert
<1>4. \A j \in 1..msg.chs :
        LET mm == netmeter_convert(msg, readings)[j] IN
        /\ meter_units_prefix(mm) = "MILLI" /\ meter_units_measure(mm) = "WATTS"
        /\ \A c \in Conversions(mm) :
              meter_to_base(c) = mm_t(answer[j] \div 10, -3, MUNITS.WATTS)
  <2>1. \A m \in Nat : Milli(m) = mm_t(m, 0, Milliwatts)
      BY DEF Milli
  <2>2. \A j \in 1..msg.chs : netmeter_convert(msg, readings)[j] = Milli(answer[j] \div 10)
      BY <1>3, <2>1
  <2>3. \A m \in Nat : /\ meter_units_prefix(Milli(m)) = "MILLI"
                       /\ meter_units_measure(Milli(m)) = "WATTS"
                       /\ \A c \in Conversions(Milli(m)) :
                             meter_to_base(c) = mm_t(m, -3, MUNITS.WATTS)
      BY MilliwattsAre
  <2> QED
      BY <1>3, <2>2, <2>3, Zenon
<1>5. \A j \in 1..msg.chs :
        \A c \in Conversions(netmeter_convert(msg, readings)[j]) :
              Number(meter_to_base(c)) = Number(mm_t(answer[j] \div 10, -3, MUNITS.WATTS))
    BY <1>4
<1> QED
    BY <1>1, <1>4, <1>5 DEF Answered

\* The answer mclient prints is the whole answer to the request it made, in the
\* units the server measured, for every server, every stream of pieces and
\* every run up to its first error (netmeter_request and get_data).
THEOREM AnswersRequestHolds == Spec => []AnswersRequest
<1> QED
    BY NetSafety, AnswersIt, PTL
=============================================================================
