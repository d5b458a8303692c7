------------------------------- MODULE Session -------------------------------
(***************************************************************************)
(* A measurement session over TCP: socketClient and socketServer           *)
(* (src/src/socketutils.cpp) around one NIDAQmxEventHandler, as            *)
(* clientexample.cpp and serverexample.cpp run them.                       *)
(*                                                                         *)
(* The client makes one send of at most 512 bytes per message; here a      *)
(* message reaches the server in one piece, as a <<kind, time>> frame.     *)
(* ReadData.tla is about what readData does when it does not.  Either      *)
(* process named in MayDie can be killed at any moment.  Before it listens *)
(* the server reads its configuration file; the client reads one, too, but *)
(* only to know whom to call.                                              *)
(***************************************************************************)
EXTENDS NIDAQmxEventHandler, Configuration

CONSTANTS
    MayDie,         \* the processes that can be killed
    ConfigFiles     \* the configuration files that may be given to the server

ASSUME SessionAssumption ==
    /\ MayDie \subseteq {"client", "server"}
    /\ ConfigFiles \subseteq Seq(Seq(STRING))

VARIABLES
    cpc,      \* the client: connect, ready, await, ended, closed, or exited
    sent,     \* history: the events sent, in order
    c2s,      \* frames sent and not yet read by the server
    s2c,      \* handshake replies not yet read by the client
    conn,     \* a connection has been established
    file,     \* the configuration file the server was started with
    config,   \* what it read from it, NoConfig before
    spc       \* the server: boot, configured, listening, reading, reply, ending, spin, ...

netVars == <<cpc, sent, c2s, s2c, conn>>
sessionVars == <<handlerVars, netVars, file, config, spc>>

NoConfig == [numChannels |-> 0]

ClientGone == cpc \in {"closed", "exited"}
ServerGone == spc \in {"exited", "finished"}
Started == \E i \in 1..Len(sent) : sent[i].tag = "START"

Init ==
    /\ HandlerInit
    /\ cpc = "connect"
    /\ sent = <<>>
    /\ c2s = <<>>
    /\ s2c = 0
    /\ conn = FALSE
    /\ file \in ConfigFiles
    /\ config = NoConfig
    /\ spc = "boot"

-----------------------------------------------------------------------------
(* socketClient *)

\* The constructor: connect succeeds once the server listens and is refused
\* otherwise, which printError turns into an exit.
Connect ==
    /\ cpc = "connect"
    /\ conn' = (spc = "listening")
    /\ cpc' = IF spc = "listening" THEN "ready" ELSE "exited"
    /\ UNCHANGED <<sent, c2s, s2c, spc, file, config, handlerVars>>

\* writeData: the timestamp is taken, then one send.  Sending to a server that
\* is gone is either accepted by the kernel and lost, or kills the client.
Send(tag, next) ==
    LET e == Stamp(tag, Len(sent) + 1) IN
    \/ /\ sent' = Append(sent, e)
       /\ c2s' = Append(c2s, e)
       /\ cpc' = next
       /\ UNCHANGED <<s2c, conn, spc, file, config, handlerVars>>
    \/ /\ ServerGone
       /\ cpc' = "exited"
       /\ UNCHANGED <<sent, c2s, s2c, conn, spc, file, config, handlerVars>>

Count(tag) == Cardinality({i \in 1..Len(sent) : sent[i].tag = tag})

SendSessionStart ==
    /\ cpc = "ready"
    /\ Disciplined => sent = <<>>
    /\ Count("START") < MaxStarts
    /\ Send("START", "await")

SendTag ==
    /\ cpc = "ready"
    /\ Disciplined => Started
    /\ Count("TAG") < MaxTags
    /\ Send("TAG", "ready")

SendSessionEnd ==
    /\ cpc = "ready"
    /\ Disciplined => Started
    /\ Send("END", "ended")

\* Mutant: the client goes on without the reply.
ReadResponseSkip ==
    /\ cpc = "await"
    /\ cpc' = "ready"
    /\ UNCHANGED <<sent, c2s, s2c, conn, spc, file, config, handlerVars>>

\* The end of sendSessionStart: the reply is read.
ReadResponse ==
    /\ cpc = "await"
    /\ s2c > 0
    /\ s2c' = s2c - 1
    /\ cpc' = "ready"
    /\ UNCHANGED <<sent, c2s, conn, spc, file, config, handlerVars>>

\* Mutant: the client, too, reads on at end of stream.
ReadResponseEofLoop ==
    /\ cpc = "await"
    /\ s2c = 0 /\ ServerGone
    /\ UNCHANGED sessionVars

\* readData reports only -1: at end of stream the reply is an uninitialised
\* byte, which may or may not be HANDSHAKE_OK.
ReadResponseEof ==
    /\ cpc = "await"
    /\ s2c = 0 /\ ServerGone
    /\ cpc' \in {"ready", "exited"}
    /\ UNCHANGED <<sent, c2s, s2c, conn, spc, file, config, handlerVars>>

\* ~socketClient
CloseClient ==
    /\ cpc = "ended"
    /\ cpc' = "closed"
    /\ UNCHANGED <<sent, c2s, s2c, conn, spc, file, config, handlerVars>>

KillClient ==
    /\ "client" \in MayDie
    /\ cpc \in {"connect", "ready", "await", "ended"}
    /\ cpc' = "exited"
    /\ UNCHANGED <<sent, c2s, s2c, conn, spc, file, config, handlerVars>>

Client == Connect \/ SendSessionStart \/ SendTag \/ SendSessionEnd
          \/ ReadResponse \/ ReadResponseEof \/ CloseClient

-----------------------------------------------------------------------------
(* socketServer *)

\* main of serverexample.cpp up to initializeMeterServer: any error exits.
Configure ==
    /\ spc = "boot"
    /\ LET c == createConfigurationMap(file) IN
       IF Configured(c) THEN spc' = "configured" /\ config' = configure(c)
                        ELSE spc' = "exited" /\ UNCHANGED config
    /\ UNCHANGED <<handlerVars, netVars, file>>

\* The constructor and listen, each of which can fail and exit.
Listen ==
    /\ spc = "configured"
    /\ spc' \in {"listening", "exited"}
    /\ UNCHANGED <<handlerVars, netVars, file, config>>

Accept ==
    /\ spc = "listening"
    /\ conn
    /\ spc' = "reading"
    /\ UNCHANGED <<handlerVars, netVars, file, config>>

\* handleClientConnection and handleSessionStart up to the reply.
HandleSessionStart ==
    /\ spc = "reading"
    /\ c2s # <<>> /\ Head(c2s).tag = "START"
    /\ c2s' = Tail(c2s)
    /\ StartHandler(Head(c2s).ts)
    /\ spc' = "reply"
    /\ UNCHANGED <<cpc, sent, s2c, conn, file, config>>

\* The reply is HANDSHAKE_OK whatever startHandler did.  A client that is gone
\* may make the send fatal; a failed send is not noticed by the comparison of
\* -1 with an unsigned size.
Reply ==
    /\ spc = "reply"
    /\ \/ s2c' = s2c + 1 /\ spc' = "reading"
       \/ ClientGone /\ s2c' = s2c /\ spc' = "exited"
    /\ UNCHANGED <<cpc, sent, c2s, conn, file, config, handlerVars>>

\* Mutant: the tag is read and not passed to the handler.
HandleTagDrop ==
    /\ spc = "reading"
    /\ c2s # <<>> /\ Head(c2s).tag = "TAG"
    /\ c2s' = Tail(c2s)
    /\ UNCHANGED <<cpc, sent, s2c, conn, spc, file, config, handlerVars>>

HandleTag ==
    /\ spc = "reading"
    /\ c2s # <<>> /\ Head(c2s).tag = "TAG"
    /\ c2s' = Tail(c2s)
    /\ TagHandler(Head(c2s).ts)
    /\ UNCHANGED <<cpc, sent, s2c, conn, spc, file, config>>

HandleSessionEnd ==
    /\ spc = "reading"
    /\ c2s # <<>> /\ Head(c2s).tag = "END"
    /\ c2s' = Tail(c2s)
    /\ EndHandler(Head(c2s).ts)
    /\ spc' = "ending"
    /\ UNCHANGED <<cpc, sent, s2c, conn, file, config>>

\* endHandler goes on, listenForClient returns, and main destroys the handler.
FinishEnd ==
    /\ spc = "ending"
    /\ ServerThread
    /\ spc' = IF hpc' = "closed" THEN "finished" ELSE spc
    /\ UNCHANGED <<netVars, file, config>>

\* End of stream: read returns 0, to_read stays 1 and the do-while never
\* ends.  If the client died with the reply unread the connection was reset,
\* read returns -1 and printError exits.
ReadEof ==
    /\ spc = "reading"
    /\ c2s = <<>> /\ ClientGone
    /\ spc' = IF s2c > 0 THEN "exited" ELSE "spin"
    /\ UNCHANGED <<handlerVars, netVars, file, config>>

Spin == spc = "spin" /\ UNCHANGED sessionVars

KillServer ==
    /\ "server" \in MayDie
    /\ spc \notin {"exited", "finished"}
    /\ spc' = "exited"
    /\ UNCHANGED <<handlerVars, netVars, file, config>>

Server == Configure \/ Listen \/ Accept \/ HandleSessionStart \/ Reply \/ HandleTag
          \/ HandleSessionEnd \/ FinishEnd \/ ReadEof

DriverStep == ~ServerGone /\ Driver /\ UNCHANGED <<netVars, file, config, spc>>

\* Both processes have ended, or the server waits for a client that never comes.
Quiet ==
    /\ ClientGone
    /\ ServerGone \/ (spc = "listening" /\ ~conn)
    /\ UNCHANGED sessionVars

Next == Client \/ KillClient \/ Server \/ KillServer \/ DriverStep \/ Spin \/ Quiet

Spec == Init /\ [][Next]_sessionVars

\* The operating system runs both processes and the driver's threads; the
\* client program's own calls are fair because clientexample.cpp always goes
\* on to its last call.
Fairness ==
    /\ WF_sessionVars(Server)
    /\ WF_sessionVars(Client)
    /\ \A t \in Tasks : WF_sessionVars(DriverStep /\ Proceeds(t))

FairSpec == Spec /\ Fairness

-----------------------------------------------------------------------------
(* Properties *)

\* The lines that give key a value.
LinesFor(key) ==
    {i \in 1..Len(file) : Len(file[i]) > 2 /\ file[i][1] = key /\ file[i][2] = "="}
Given(key) == LET i == CHOOSE i \in LinesFor(key) : TRUE IN SubSeq(file[i], 3, Len(file[i]))

\* A server that has come as far as listening uses a file that gives each key
\* one value, and has taken all that follows the first "=" for it; it has a
\* voltage for every word, and its buffer holds the samples of every channel.
ConfigurationRead ==
    config # NoConfig =>
        /\ \A key \in Keys : Cardinality(LinesFor(key)) = 1
        /\ config.channelDescription = Given("NIDAQmxChannelDescription")
        /\ config.port = Number[Words(Given("port"))[1]]
        /\ config.bufferSize = config.numChannels * config.sampleRate
        /\ DOMAIN config.channelVoltages = 1..Len(Words(Given("NIDAQmxChannelVoltages")))

Headers == {i \in 1..Len(writer) : writer[i].kind = "header"}

\* While the server lives, a client that goes on has had each of its starts
\* recorded and its header written: the handshake of one start never lets the
\* client past another (the order of handleSessionStart, 105-113).
HandshakeAfterHeader ==
    (cpc = "ready" /\ ~ServerGone) => Cardinality(Headers) = Count("START")

\* The client's sendSessionStart always returns: it gets its reply, or end of
\* stream when the server dies.
StartReturns == (cpc = "await") ~> (cpc # "await")

\* The lines of the file that are stamps, in their order.
StampLines == {i \in 1..Len(writer) : writer[i].kind = "stamp"}
StampLine(k) == CHOOSE i \in StampLines : Cardinality({j \in StampLines : j <= i}) = k
StampsInFile == [k \in 1..Cardinality(StampLines) |-> writer[StampLine(k)]]

\* A client that gets as far as sendSessionEnd, and whose server is not killed,
\* leaves a finished server and a file with the times of everything it sent,
\* in order.
SessionCompletes ==
    (cpc = "closed") ~> \/ spc = "exited"
                        \/ /\ spc = "finished"
                           /\ [k \in 1..Len(StampsInFile) |-> StampsInFile[k].a]
                              = [k \in 1..Len(sent) |-> sent[k].ts]

\* "keep reading until handleClientConnection() gives an error": a server whose
\* client is gone leaves its loop.
ServerLeavesLoop == (conn /\ ClientGone) ~> ServerGone

\* The session implements SessionRecord.
Events == [tag : {"START", "TAG", "END"}, ts : 1..MaxStarts + MaxTags + 1]
Reported ==
    IF Ended THEN [i \in 1..Len(StampsInFile) |->
                      CHOOSE e \in {sent[j] : j \in 1..Len(sent)} : e.ts = StampsInFile[i].a]
             ELSE <<>>
AbstractRecord == INSTANCE SessionRecord WITH
    Event <- Events, produced <- sent, recorded <- timestamps, reported <- Reported

\* A session keeps the promise of SessionRecord: events recorded once and in
\* order, one report of the whole record (socketutils.cpp with endHandler).
ImplementsRecord == AbstractRecord!RecordSpec
=============================================================================
