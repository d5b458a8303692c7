--------------------------- MODULE ConnectionTable ---------------------------
(***************************************************************************)
(* The connection table of the legacy meter servers: a listener thread     *)
(* (request_handler) looks for a free entry of connection[], accepts a      *)
(* client into it and starts a client_req thread, which answers requests    *)
(* until the client leaves and then frees the entry.  No lock guards the    *)
(* table.  mserver.c, sensor_server.c, mlogger.c, nidaqmx_server.c and,     *)
(* twice, multiserver.c each have a copy; the copies differ in how much a   *)
(* thread reads, in what it makes of several requests read at once, in how  *)
(* it is given its number, and in how the listener fails.                   *)
(*                                                                         *)
(* The array has MAXCONNS entries and the scan goes up to and including    *)
(* index MAXCONNS, so the word behind the array is part of the state: the  *)
(* allocator leaves it zero or not.                                        *)
(***************************************************************************)
EXTENDS Naturals, Sequences

CONSTANTS
    Servers,        \* the copies of the table to consider
    MAXCONNS,       \* entries allocated
    Clients,        \* connections that clients may make, one each
    MaxReq,         \* bound: requests a client sends on one connection
    Persistent,     \* clients that connect, stay silent and never hang up
    NoSock, Junk    \* sock = 0, and a nonzero word that is no socket

AllServers == {"mserver", "sensor_server", "mlogger", "multiserver", "multiserver_fAPI", "niserver"}

ASSUME TableAssumption ==
    /\ Servers \subseteq AllServers
    /\ MAXCONNS \in Nat \ {0}
    /\ MaxReq \in Nat
    /\ Persistent \subseteq Clients
    /\ NoSock \notin Clients /\ Junk \notin Clients /\ NoSock # Junk

VARIABLES
    server,      \* which of them this is
    running,     \* the flag of that name
    main,        \* main(): monitor, then join of the listener, then exited
    sock,        \* connection[i].sock: the client it is connected to
    lpc, i,      \* the listener's place, and its loop variable
    new,         \* the connection that accept has just returned
    argId,       \* the listener's local id that nidaqmx_server passes a pointer to
    cl,          \* each client's side of its connection
    inbox,       \* requests sent and not yet read
    asked,       \* requests sent so far
    replies,     \* replies received: the requests they answer
    thr, id,     \* client_req threads, named by the client they were made for
    msg          \* the request such a thread has read

tableVars == <<sock, lpc, i, new, argId>>
clientVars == <<inbox, asked, replies>>
threadVars == <<thr, id, msg>>
procVars == <<server, running, main>>
vars == <<procVars, tableVars, cl, clientVars, threadVars>>

Slots == 0..MAXCONNS
Commands == {"POWER", "RESET", "QUIT"}
\* A request: who sent it, and its number among that client's requests.
Req(c, cmd, n) == [from |-> c, cmd |-> cmd, n |-> n]
Requests == [from : Clients, cmd : Commands \cup {"JUMBLE"}, n : Nat]

Init ==
    /\ server \in Servers
    /\ running = TRUE
    /\ main = "monitor"
    /\ \E word \in {NoSock, Junk} :
          sock = [s \in Slots |-> IF s = MAXCONNS THEN word ELSE NoSock]
    /\ lpc = "bind" /\ i = 0 /\ new = NoSock /\ argId = 0
    /\ cl = [c \in Clients |-> "idle"]
    /\ inbox = [c \in Clients |-> <<>>]
    /\ asked = [c \in Clients |-> 0]
    /\ replies = [c \in Clients |-> <<>>]
    /\ thr = [c \in Clients |-> "none"]
    /\ id = [c \in Clients |-> 0]
    /\ msg = [c \in Clients |-> Req(c, "JUMBLE", 0)]

-----------------------------------------------------------------------------
(* request_handler; main is gone once it has joined it *)

Up == main # "exited"

\* tcp_passive_port: without a port there is no listener.
Bind ==
    /\ Up /\ lpc = "bind"
    /\ lpc' \in {"top", "done"}
    /\ UNCHANGED <<procVars, sock, i, new, argId, cl, clientVars, threadVars>>

\* On Windows socket, bind or listen failing ends the process.
NiBind ==
    /\ Up /\ lpc = "bind"
    /\ \/ lpc' = "top" /\ main' = main
       \/ lpc' = "done" /\ main' = "exited"
    /\ UNCHANGED <<server, running, sock, i, new, argId, cl, clientVars, threadVars>>

\* Mutant: no free entry is looked for.
TopNoScan ==
    /\ Up /\ lpc = "top"
    /\ i' = 0
    /\ lpc' = IF running THEN "poll" ELSE "done"
    /\ UNCHANGED <<procVars, sock, new, argId, cl, clientVars, threadVars>>

\* Mutant: the flag is not looked at.
TopForever ==
    /\ Up /\ lpc = "top"
    /\ i' = 0
    /\ lpc' = "scan"
    /\ UNCHANGED <<procVars, sock, new, argId, cl, clientVars, threadVars>>

Top ==
    /\ Up /\ lpc = "top"
    /\ i' = 0
    /\ lpc' = IF running THEN "scan" ELSE "done"
    /\ UNCHANGED <<procVars, sock, new, argId, cl, clientVars, threadVars>>

\* One turn of the scan.  Past the end it sleeps and sets i to 0, and the
\* loop's own i++ makes that 1.
Scan ==
    /\ Up /\ lpc = "scan"
    /\ IF i > MAXCONNS
       THEN i' = 1 /\ lpc' = lpc
       ELSE IF sock[i] = NoSock
            THEN i' = i /\ lpc' = "poll"
            ELSE i' = i + 1 /\ lpc' = lpc
    /\ UNCHANGED <<procVars, sock, new, argId, cl, clientVars, threadVars>>

\* Mutant: what poll found is not looked at.
PollTimeoutBlind ==
    /\ Up /\ lpc = "poll"
    /\ lpc' = "top"
    /\ UNCHANGED <<procVars, sock, i, new, argId, cl, clientVars, threadVars>>

PollTimeout ==
    /\ Up /\ lpc = "poll"
    /\ \A c \in Clients : cl[c] # "pending"
    /\ lpc' = "top"
    /\ UNCHANGED <<procVars, sock, i, new, argId, cl, clientVars, threadVars>>

\* select fails on the listening socket: the server is told to stop.
NiSelectFail ==
    /\ Up /\ lpc = "poll"
    /\ running' = FALSE
    /\ lpc' = "top"
    /\ UNCHANGED <<server, main, sock, i, new, argId, cl, clientVars, threadVars>>

Accept(c) ==
    /\ Up /\ lpc = "poll"
    /\ cl[c] = "pending"
    /\ sock' = [sock EXCEPT ![i] = c]
    /\ cl' = [cl EXCEPT ![c] = "open"]
    /\ new' = c /\ argId' = i
    /\ lpc' = "create"
    /\ UNCHANGED <<procVars, i, clientVars, threadVars>>

\* accept fails: the entry is left free.
AcceptFail(c) ==
    /\ Up /\ lpc = "poll"
    /\ cl[c] = "pending"
    /\ cl' = [cl EXCEPT ![c] = "closed"]
    /\ lpc' = "top"
    /\ UNCHANGED <<procVars, sock, i, new, argId, clientVars, threadVars>>

CreateThread ==
    /\ Up /\ lpc = "create"
    /\ thr' = [thr EXCEPT ![new] = "starting"]
    /\ id' = [id EXCEPT ![new] = i]
    /\ lpc' = "top"
    /\ UNCHANGED <<procVars, sock, i, new, argId, cl, msg, clientVars>>

CreateFail ==
    /\ Up /\ lpc = "create"
    /\ cl' = IF sock[i] \in Clients THEN [cl EXCEPT ![sock[i]] = "closed"] ELSE cl
    /\ sock' = [sock EXCEPT ![i] = NoSock]
    /\ lpc' = "top"
    /\ UNCHANGED <<procVars, i, new, argId, clientVars, threadVars>>

\* The loop of request_handler once the socket listens.
AcceptLoop ==
    \/ Top \/ Scan \/ PollTimeout
    \/ \E c \in Clients : Accept(c) \/ AcceptFail(c)
    \/ CreateThread \/ CreateFail

\* The listener of each server.
MserverListener == server = "mserver" /\ (Bind \/ AcceptLoop)
SensorListener == server = "sensor_server" /\ (Bind \/ AcceptLoop)
MloggerListener == server = "mlogger" /\ (Bind \/ AcceptLoop)
MultiListener == server = "multiserver" /\ (Bind \/ AcceptLoop)
ApiListener == server = "multiserver_fAPI" /\ (Bind \/ AcceptLoop)
NiListener == server = "niserver" /\ (NiBind \/ NiSelectFail \/ AcceptLoop)

Listener == \/ MserverListener \/ SensorListener \/ MloggerListener
            \/ MultiListener \/ ApiListener \/ NiListener

-----------------------------------------------------------------------------
(* client_req, for the thread t *)

ThreadStart(t) ==
    /\ Up /\ thr[t] = "starting"
    /\ thr' = [thr EXCEPT ![t] = "loop"]
    /\ UNCHANGED <<procVars, cl, id, msg, tableVars, clientVars>>

\* The number is read through a pointer to the listener's local.
NiThreadStart(t) ==
    /\ Up /\ thr[t] = "starting"
    /\ id' = [id EXCEPT ![t] = argId]
    /\ thr' = [thr EXCEPT ![t] = "loop"]
    /\ UNCHANGED <<procVars, cl, msg, tableVars, clientVars>>

\* getpeername fails on a connection that was reset, and the thread returns
\* without freeing its entry.
ThreadAbort(t) ==
    /\ Up /\ thr[t] = "starting"
    /\ cl[t] = "closed"
    /\ thr' = [thr EXCEPT ![t] = "aborted"]
    /\ UNCHANGED <<procVars, cl, id, msg, tableVars, clientVars>>

LoopTop(t) ==
    /\ Up /\ thr[t] = "loop"
    /\ thr' = [thr EXCEPT ![t] = IF running THEN "read" ELSE "closing"]
    /\ UNCHANGED <<procVars, cl, id, msg, tableVars, clientVars>>

\* Mutant: the request is left in the socket.
ReadPeek(t, n, cmd) ==
    LET c == sock[id[t]] IN
    /\ Up /\ thr[t] = "read"
    /\ c \in Clients
    /\ n = 1 /\ inbox[c] # <<>>
    /\ msg' = [msg EXCEPT ![t] = Req(Head(inbox[c]).from, cmd, Head(inbox[c]).n)]
    /\ thr' = [thr EXCEPT ![t] = "serve"]
    /\ UNCHANGED <<procVars, cl, id, tableVars, clientVars>>

\* read returned n requests, which the server takes for the command cmd.
Read(t, n, cmd) ==
    LET c == sock[id[t]] IN
    /\ Up /\ thr[t] = "read"
    /\ c \in Clients
    /\ n \in 1..Len(inbox[c])
    /\ inbox' = [inbox EXCEPT ![c] = SubSeq(@, n + 1, Len(@))]
    /\ msg' = [msg EXCEPT ![t] = Req(Head(inbox[c]).from, cmd, Head(inbox[c]).n)]
    /\ thr' = [thr EXCEPT ![t] = "serve"]
    /\ UNCHANGED <<procVars, cl, id, tableVars, asked, replies>>

\* POWER (like ENERGY and READ) is answered on the socket that the entry holds
\* by then; RESET has no reply.  QUIT and what is not understood disconnect,
\* and so does anything once running is cleared.  A control message (LogControl
\* says what that does) disconnects like QUIT, too, but is passed over like
\* RESET in nidaqmx_server.c.
Serve(t) ==
    LET c == sock[id[t]] IN
    /\ Up /\ thr[t] = "serve"
    /\ replies' = IF running /\ msg[t].cmd = "POWER" /\ c \in Clients
                  THEN [replies EXCEPT ![c] = Append(@, msg[t])] ELSE replies
    /\ thr' = [thr EXCEPT ![t] =
                  IF running /\ msg[t].cmd \in {"POWER", "RESET"}
                  THEN "loop" ELSE "closing"]
    /\ UNCHANGED <<procVars, cl, id, msg, tableVars, inbox, asked>>

\* read returned 0, or -1 because the entry holds no socket any more.
ReadEof(t) ==
    LET c == sock[id[t]] IN
    /\ Up /\ thr[t] = "read"
    /\ c \in Clients => cl[c] = "closed" /\ inbox[c] = <<>>
    /\ thr' = [thr EXCEPT ![t] = "closing"]
    /\ UNCHANGED <<procVars, cl, id, msg, tableVars, clientVars>>

\* Mutant: the socket is closed and the entry is not marked free.
CloseSlotKeep(t) ==
    LET c == sock[id[t]] IN
    /\ Up /\ thr[t] = "closing"
    /\ cl' = IF c \in Clients THEN [cl EXCEPT ![c] = "closed"] ELSE cl
    /\ thr' = [thr EXCEPT ![t] = "gone"]
    /\ UNCHANGED <<procVars, id, msg, tableVars, clientVars>>

CloseSlot(t) ==
    LET c == sock[id[t]] IN
    /\ Up /\ thr[t] = "closing"
    /\ cl' = IF c \in Clients THEN [cl EXCEPT ![c] = "closed"] ELSE cl
    /\ sock' = [sock EXCEPT ![id[t]] = NoSock]
    /\ thr' = [thr EXCEPT ![t] = "gone"]
    /\ UNCHANGED <<procVars, id, msg, lpc, i, new, argId, clientVars>>

\* msgbuf holds two requests.
BufReqs == 2

\* The command of the first request of a connection.
FirstCmd(t) == IF sock[id[t]] \in Clients /\ inbox[sock[id[t]]] # <<>>
               THEN Head(inbox[sock[id[t]]]).cmd ELSE "JUMBLE"

\* Two requests in one read have the size of a control message with a command
\* that is none: "unknow control command".
ReadBySize(t) == \E n \in 1..BufReqs :
                    Read(t, n, IF n = 1 THEN FirstCmd(t) ELSE "JUMBLE")

\* A size that is a multiple of a request's is taken for one request: the
\* first one is served and the others are dropped.
ReadFirst(t) == \E n \in 1..BufReqs : Read(t, n, FirstCmd(t))

\* read asks for one request.
ReadOne(t) == Read(t, 1, FirstCmd(t))

ServeAndLeave(t) == ThreadAbort(t) \/ LoopTop(t) \/ Serve(t) \/ ReadEof(t) \/ CloseSlot(t)

\* client_req of each server.
MserverThread(t) == server = "mserver" /\ (ThreadStart(t) \/ ReadBySize(t) \/ ServeAndLeave(t))
SensorThread(t) == server = "sensor_server" /\ (ThreadStart(t) \/ ReadBySize(t) \/ ServeAndLeave(t))
ApiThread(t) == server = "multiserver_fAPI" /\ (ThreadStart(t) \/ ReadBySize(t) \/ ServeAndLeave(t))
MloggerThread(t) == server = "mlogger" /\ (ThreadStart(t) \/ ReadOne(t) \/ ServeAndLeave(t))
MultiThread(t) == server = "multiserver" /\ (ThreadStart(t) \/ ReadFirst(t) \/ ServeAndLeave(t))
NiThread(t) == server = "niserver" /\ (NiThreadStart(t) \/ ReadFirst(t) \/ ServeAndLeave(t))

Thread(t) == \/ MserverThread(t) \/ SensorThread(t) \/ ApiThread(t)
             \/ MloggerThread(t) \/ MultiThread(t) \/ NiThread(t)

-----------------------------------------------------------------------------
(* main and monitor: the meter fails, the count is reached or SIGINT arrives *)

StopMonitor ==
    /\ main = "monitor"
    /\ running' = FALSE
    /\ main' = "join"
    /\ UNCHANGED <<server, cl, tableVars, clientVars, threadVars>>

\* pthread_join; the Windows server polls the thread once and returns.
Join ==
    /\ main = "join" /\ (lpc = "done" \/ server = "niserver")
    /\ main' = "exited"
    /\ UNCHANGED <<server, running, cl, tableVars, clientVars, threadVars>>

-----------------------------------------------------------------------------
(* The clients *)

Connect(c) ==
    /\ Up /\ lpc \notin {"bind", "done"} /\ cl[c] = "idle"
    /\ cl' = [cl EXCEPT ![c] = "pending"]
    /\ UNCHANGED <<procVars, tableVars, clientVars, threadVars>>

\* Bound: the clients that stay are silent.
Quota(c) == IF c \in Persistent THEN 0 ELSE MaxReq

Request(c, cmd) ==
    /\ Up /\ cl[c] \in {"pending", "open"}
    /\ asked[c] < Quota(c)
    /\ inbox' = [inbox EXCEPT ![c] = Append(@, Req(c, cmd, asked[c] + 1))]
    /\ asked' = [asked EXCEPT ![c] = @ + 1]
    /\ UNCHANGED <<procVars, cl, replies, tableVars, threadVars>>

\* A client that leaves before it is accepted is accepted all the same.
HangUp(c) ==
    /\ Up /\ c \notin Persistent
    /\ cl[c] = "open"
    /\ cl' = [cl EXCEPT ![c] = "closed"]
    /\ UNCHANGED <<procVars, clientVars, tableVars, threadVars>>

Exited == ~Up /\ UNCHANGED vars

Next ==
    \/ Listener
    \/ \E t \in Clients : Thread(t)
    \/ StopMonitor \/ Join \/ Exited
    \/ \E c \in Clients : Connect(c) \/ HangUp(c) \/ (\E cmd \in Commands : Request(c, cmd))

Spec == Init /\ [][Next]_vars

\* The operating system runs the listener, main and every thread; nothing is
\* assumed of the clients, and the monitor need not stop.
Fairness ==
    /\ WF_vars(Listener) /\ WF_vars(Join)
    /\ \A t \in Clients : WF_vars(Thread(t))

FairSpec == Spec /\ Fairness

-----------------------------------------------------------------------------
(* Properties *)

Live(t) == thr[t] \in {"starting", "loop", "read", "serve", "closing"}

\* The server is given its number by value, as all but nidaqmx_server are.
ByValue == server # "niserver"

\* Types of the table, the listener, the threads and the clients.
TypeOK ==
    /\ server \in AllServers
    /\ running \in BOOLEAN
    /\ main \in {"monitor", "join", "exited"}
    /\ sock \in [Slots -> Clients \cup {NoSock, Junk}]
    /\ lpc \in {"bind", "top", "scan", "poll", "create", "done"}
    /\ i \in 0..MAXCONNS + 1
    /\ lpc \in {"poll", "create"} => i \in Slots
    /\ new \in Clients \cup {NoSock}
    /\ lpc = "create" => new \in Clients
    /\ argId \in Slots
    /\ cl \in [Clients -> {"idle", "pending", "open", "closed"}]
    /\ inbox \in [Clients -> Seq(Requests)]
    /\ asked \in [Clients -> Nat]
    /\ replies \in [Clients -> Seq(Requests)]
    /\ thr \in [Clients -> {"none", "starting", "loop", "read", "serve", "closing", "gone", "aborted"}]
    /\ id \in [Clients -> Slots]
    /\ msg \in [Clients -> Requests]

\* While a client_req thread lives, its table entry holds its own connection:
\* the unlocked listener never reuses an entry that is in use, and no thread
\* frees another's.
SlotOwnership == ByValue => \A t \in Clients : Live(t) => sock[id[t]] = t

\* The replies a client receives answer its own requests, in the order it made
\* them and each at most once, although the entry is read again between the
\* request and its reply (mserver.c, 287 and 298-306).
RepliesAsked ==
    ByValue =>
    \A c \in Clients : \A k \in 1..Len(replies[c]) :
        /\ replies[c][k].from = c
        /\ replies[c][k].n <= asked[c]
        /\ \A l \in 1..(k - 1) : replies[c][l].n < replies[c][k].n

\* Every entry that holds a connection has a thread that will free it: none is
\* lost but by a thread that returns when getpeername fails.
SlotsAccounted ==
    ByValue =>
    \A s \in Slots : sock[s] \in Clients =>
        \/ Live(sock[s]) /\ id[sock[s]] = s
        \/ thr[sock[s]] = "aborted"
        \/ lpc = "create" /\ i = s

\* In the end some entry that the scan looks at after its first pass is free.
RoomInTheEnd == <>[](\E s \in 1..MAXCONNS : sock[s] = NoSock)

\* When the monitor ends, the listener notices and main leaves, unless the
\* table stays full.
ShutdownCompletes == RoomInTheEnd => ((main = "join") ~> (main = "exited"))

\* A client that waits in the accept queue is taken out of it unless the
\* server shuts down or the table stays full.
AcceptedEventually ==
    RoomInTheEnd =>
    \A c \in Clients : (cl[c] = "pending") ~> (cl[c] # "pending" \/ ~running)
=============================================================================
