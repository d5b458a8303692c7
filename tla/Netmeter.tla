------------------------------ MODULE Netmeter ------------------------------
(***************************************************************************)
(* A netmeter request and its answer.  The client is mclient.c (main,      *)
(* get_data) with netmeter_request of mapi/netmeter.c; the server is one   *)
(* connection of any of the five servers, with their own send_power,       *)
(* send_reading and send_energy.  A reply is a netmeter_req_t followed by  *)
(* num_chs readings; TCP delivers it in pieces, and netmeter_request       *)
(* makes one read and never another.                                       *)
(*                                                                         *)
(* A message is a sequence of words: cmd, num_chs and units of the header, *)
(* then the readings; last_read and rc are left out.  send_reading and     *)
(* send_energy (and send_power of mlogger.c) leave num_chs unassigned: it  *)
(* is any word of Garbage, as is every word that the client reads before   *)
(* assigning it.                                                           *)
(***************************************************************************)
EXTENDS MeterUnits

CONSTANTS
    Servers,      \* the servers that behaviours are about
    Powers,       \* the powers measured, in tenths of a milliwatt
    Garbage,      \* what an unassigned word can hold
    Counts,       \* values of mclient's -c option; 0 is for ever
    MaxReq        \* bound: requests made

ENERGY == 1
POWER == 2
READ == 3
RESET == 4
QUIT == 99

Header == 3     \* sizeof(netmeter_req_t), in words

ASSUME NetmeterAssumption ==
    /\ Servers \subseteq {"mserver", "sensor_server", "mlogger", "multiserver",
                          "niserver"}
    /\ Powers \subseteq Nat /\ Garbage \subseteq Nat /\ Counts \subseteq Nat
    /\ MaxReq \in Nat

VARIABLES
    server, cmd, count,      \* the server program; the options of mclient
    pc,            \* mclient: connect, top, write, await, print, close, exited
    i,             \* requests made
    finished,      \* set by SIGINT
    msg,           \* the netmeter_req_t of get_data
    readings,      \* ch_pwr_readings, as far as it has been assigned
    failed,        \* a request has returned an error
    answer,        \* history: the powers the server sent for request i
    c2s, s2c,      \* what is under way in each direction
    conn           \* the server's side of the connection: none, open, closed

options == <<server, cmd, count>>
vars == <<options, pc, i, finished, msg, readings, failed, answer, c2s, s2c, conn>>

\* main of mclient.c; get_data assigns cmd and no other field of msg.
Init ==
    /\ server \in Servers
    /\ cmd \in {ENERGY, POWER, READ}
    /\ count \in Counts
    /\ pc = "connect" /\ i = 0 /\ finished = FALSE
    /\ \E g \in Garbage : msg = [cmd |-> cmd, chs |-> g, units |-> g]
    /\ readings = <<>> /\ failed = FALSE /\ answer = <<>>
    /\ c2s = <<>> /\ s2c = <<>> /\ conn = "none"

-----------------------------------------------------------------------------
(* mclient *)

\* netmeter_connect: get_data returns at once when it fails.
Connect ==
    /\ pc = "connect"
    /\ \/ pc' = "top" /\ conn' = "open"
       \/ pc' = "exited" /\ UNCHANGED conn
    /\ UNCHANGED <<options, i, finished, msg, readings, failed, answer, c2s, s2c>>

\* signal_done: the blocking read is restarted, so only the loop sees it.
SignalDone ==
    /\ finished = FALSE /\ pc # "exited"
    /\ finished' = TRUE
    /\ UNCHANGED <<options, pc, i, msg, readings, failed, answer, c2s, s2c, conn>>

Wanted == (count = 0 \/ i < count) /\ ~finished

\* The loop of get_data.  It goes on after an error, with the msg it has.
LoopTop ==
    /\ pc = "top"
    /\ \/ Wanted /\ i < MaxReq /\ pc' = "write" /\ i' = i + 1
       \/ ~Wanted /\ pc' = "close" /\ UNCHANGED i
    /\ UNCHANGED <<options, finished, msg, readings, failed, answer, c2s, s2c, conn>>

\* netmeter_request up to the read: RESET has no answer.
Write ==
    /\ pc = "write" /\ conn = "open"
    /\ c2s' = Append(c2s, msg.cmd)
    /\ pc' = IF msg.cmd = RESET THEN "print" ELSE "await"
    /\ answer' = <<>>
    /\ UNCHANGED <<options, i, finished, msg, readings, failed, s2c, conn>>

\* The server has closed the connection: the write is accepted and lost, fails
\* with -2, or raises SIGPIPE.
WriteClosed ==
    /\ pc = "write" /\ conn = "closed"
    /\ \/ pc' = (IF msg.cmd = RESET THEN "print" ELSE "await") /\ UNCHANGED failed
       \/ pc' = "print" /\ failed' = TRUE
       \/ pc' = "exited" /\ UNCHANGED failed
    /\ UNCHANGED <<options, i, finished, msg, readings, answer, c2s, s2c, conn>>

\* What netmeter_request makes of the words it read: less than a header is -4
\* and leaves msg alone; a size that is not the header's num_chs is -5, with
\* msg already overwritten; otherwise the readings are copied.
Received(words) ==
    IF Len(words) < Header
    THEN failed' = TRUE /\ UNCHANGED <<msg, readings>>
    ELSE /\ msg' = [cmd |-> words[1], chs |-> words[2], units |-> words[3]]
         /\ IF Len(words) # Header + words[2]
            THEN failed' = TRUE /\ UNCHANGED readings
            ELSE /\ readings' = SubSeq(words, Header + 1, Len(words))
                                \o SubSeq(readings, words[2] + 1, Len(readings))
                 /\ UNCHANGED failed

\* Mutant: the size is not compared with num_chs.
ReadAnyReply ==
    /\ pc = "await"
    /\ \E n \in 1..Len(s2c) :
          /\ s2c' = SubSeq(s2c, n + 1, Len(s2c))
          /\ IF n < Header
             THEN failed' = TRUE /\ UNCHANGED <<msg, readings>>
             ELSE /\ msg' = [cmd |-> s2c[1], chs |-> s2c[2], units |-> s2c[3]]
                  /\ readings' = SubSeq(s2c, Header + 1, n)
                  /\ UNCHANGED failed
    /\ pc' = "print"
    /\ UNCHANGED <<options, i, finished, answer, c2s, conn>>

\* The one read of netmeter_request: some first part of what was sent.
ReadReply ==
    /\ pc = "await"
    /\ \E n \in 1..Len(s2c) :
          /\ s2c' = SubSeq(s2c, n + 1, Len(s2c))
          /\ Received(SubSeq(s2c, 1, n))
    /\ pc' = "print"
    /\ UNCHANGED <<options, i, finished, answer, c2s, conn>>

\* End of stream is -4.  A reset makes read return -1, which is not less than
\* an unsigned size: msg is overwritten by a buffer nobody assigned, and -5.
ReadClosed ==
    /\ pc = "await" /\ s2c = <<>> /\ conn = "closed"
    /\ \/ UNCHANGED msg
       \/ \E g, h \in Garbage : msg' = [cmd |-> g, chs |-> h, units |-> g]
    /\ failed' = TRUE
    /\ pc' = "print"
    /\ UNCHANGED <<options, i, finished, readings, answer, c2s, s2c, conn>>

\* What a caller gets for the readings; mclient prints the readings themselves.
netmeter_convert(m, words) ==
    [j \in 1..m.chs |-> mm_t(words[j], IF m.cmd = READ THEN -5 ELSE 0, m.units)]

\* The loop that prints num_chs readings.
ConvertAndPrint ==
    /\ pc = "print"
    /\ pc' = "top"
    /\ UNCHANGED <<options, i, finished, msg, readings, failed, answer, c2s, s2c, conn>>

\* netmeter_close: QUIT, then close.
NetmeterClose ==
    /\ pc = "close"
    /\ c2s' = Append(c2s, QUIT)
    /\ pc' = "exited"
    /\ UNCHANGED <<options, i, finished, msg, readings, failed, answer, s2c, conn>>

Client == Connect \/ LoopTop \/ Write \/ WriteClosed \/ ReadReply \/ ReadClosed
          \/ ConvertAndPrint \/ NetmeterClose

-----------------------------------------------------------------------------
(* The thread that serves the connection *)

Milliwatts == MUNITS.MILLI + MUNITS.WATTS

\* mserver.c converts its power, a float in watts; the other servers hold
\* milliwatts in unsigned int already.
Reading(p) ==
    IF server = "mserver" THEN Truncated(meter_to_milli(mm_t(p, -4, MUNITS.WATTS)))
    ELSE p \div 10

\* send_power with chs readings behind the header.
SendPower(chs) ==
    /\ answer' \in [1..chs -> Powers]
    /\ s2c' = s2c \o <<POWER, chs, Milliwatts>> \o [k \in 1..chs |-> Reading(answer'[k])]

\* A header alone, with a num_chs that nobody assigned.  The units of a reading
\* are the meter's.
SendHeader(c) ==
    /\ answer' = <<>>
    /\ LET units == IF c = POWER THEN Milliwatts
                    ELSE IF c = ENERGY THEN MUNITS.JOULES ELSE MUNITS.WATTS
       IN  \E g \in Garbage : s2c' = s2c \o <<c, g, units>>

\* send_power, send_reading and send_energy of each server.  Two channels stand
\* for the RAPL counters, for the system's power and the NI-DAQ channels behind
\* it, and for the NI-DAQ channels.
MserverReply(c) == server = "mserver" /\ IF c = POWER THEN SendPower(1) ELSE SendHeader(c)
SensorReply(c) == server = "sensor_server" /\ IF c = POWER THEN SendPower(2) ELSE SendHeader(c)
MultiReply(c) == server = "multiserver" /\ IF c = POWER THEN SendPower(2) ELSE SendHeader(c)
MloggerReply(c) == server = "mlogger" /\ SendHeader(c)

\* send_reading and send_energy of nidaqmx_server.c are empty.
NiReply(c) ==
    /\ server = "niserver"
    /\ \/ c = POWER /\ SendPower(2)
       \/ c # POWER /\ answer' = <<>> /\ UNCHANGED s2c

SendReply(c) == \/ MserverReply(c) \/ SensorReply(c) \/ MultiReply(c)
                \/ MloggerReply(c) \/ NiReply(c)

\* Mutant: an unknown command is passed over.
ServeIgnoring ==
    /\ conn = "open" /\ c2s # <<>>
    /\ c2s' = Tail(c2s)
    /\ LET c == Head(c2s) IN
       \/ c \in {POWER, READ, ENERGY} /\ SendReply(c) /\ UNCHANGED conn
       \/ c \notin {POWER, READ, ENERGY, QUIT} /\ UNCHANGED <<answer, s2c, conn>>
       \/ c = QUIT /\ conn' = "closed" /\ UNCHANGED <<answer, s2c>>
    /\ UNCHANGED <<options, pc, i, finished, msg, readings, failed>>

\* The switch of client_req: an unknown command ends the connection.
Serve ==
    /\ conn = "open" /\ c2s # <<>>
    /\ c2s' = Tail(c2s)
    /\ LET c == Head(c2s) IN
       \/ c \in {POWER, READ, ENERGY} /\ SendReply(c) /\ UNCHANGED conn
       \/ c = RESET /\ UNCHANGED <<answer, s2c, conn>>
       \/ /\ c \notin {POWER, READ, ENERGY, RESET}
          /\ conn' = "closed" /\ UNCHANGED <<answer, s2c>>
    /\ UNCHANGED <<options, pc, i, finished, msg, readings, failed>>

\* The server leaves its loop, or is killed, at any moment.
ServerStops ==
    /\ conn = "open"
    /\ conn' = "closed"
    /\ UNCHANGED <<options, pc, i, finished, msg, readings, failed, answer, c2s, s2c>>

Quiet == pc = "exited" /\ conn # "open" /\ UNCHANGED vars

Next == Client \/ SignalDone \/ Serve \/ ServerStops \/ Quiet

Spec == Init /\ [][Next]_vars

\* Both processes run.  The loop's own steps are bounded by MaxReq, so no
\* fairness is asked of LoopTop.
FairSpec ==
    /\ Spec
    /\ WF_vars(Serve)
    /\ WF_vars(Write \/ WriteClosed \/ ReadReply \/ ReadClosed \/ ConvertAndPrint)

-----------------------------------------------------------------------------
(* Properties *)

Conversions(mm) == {mm, meter_to_milli(mm), meter_to_mega(mm), meter_to_micro(mm),
                    meter_to_nano(mm), meter_to_giga(mm)}

\* netmeter.h:98-99: the output of a request is "stored in msg and should have
\* a cmd which matches the original".  As long as no request has returned an
\* error, the client has the answer to this request: its command, and num_chs
\* readings, all of them and no others, however TCP cut the stream.  Each
\* converts, on any scale, to the power the server measured, to the milliwatt.
AnswersRequest ==
    (pc = "print" /\ ~failed) =>
        /\ msg.cmd = cmd
        /\ msg.chs = Len(answer)
        /\ \A j \in 1..msg.chs :
              LET mm == netmeter_convert(msg, readings)[j] IN
              /\ meter_units_prefix(mm) = "MILLI" /\ meter_units_measure(mm) = "WATTS"
              /\ \A c \in Conversions(mm) :
                    Number(meter_to_base(c)) = Number(mm_t(answer[j] \div 10, -3, MUNITS.WATTS))

\* A request returns: it gets a piece of an answer, or the end of the stream,
\* whatever an earlier error left in msg and on the wire.  READ and ENERGY of
\* nidaqmx_server.c are excepted, which that server never answers.
RequestReturns ==
    (pc = "await" /\ ~(server = "niserver" /\ msg.cmd \in {READ, ENERGY}))
        ~> (pc # "await")
=============================================================================
