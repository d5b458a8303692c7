----------------------- MODULE ConnectionTable_proofs -----------------------
(***************************************************************************)
(* Proofs about ConnectionTable for any number of entries, clients and     *)
(* requests.  The inductive invariant has two parts besides the types:     *)
(* who owns which entry (TableInv), and where the numbers of a client's    *)
(* requests are between its socket, its thread and its replies             *)
(* (RepliesInv).                                                           *)
(***************************************************************************)
EXTENDS ConnectionTable, SequenceTheorems, TLAPS

\* The entry that the listener is about to fill is free, and the one that it
\* has filled belongs to a connection that has no thread yet.
ListenerOK ==
    /\ lpc = "poll" => i \in Slots /\ sock[i] = NoSock
    /\ lpc = "create" => i \in Slots /\ sock[i] = new /\ new \in Clients /\ thr[new] = "none"

\* A client that was not accepted is not in the table.
NotAccepted ==
    \A c \in Clients : cl[c] \in {"idle", "pending"} =>
        thr[c] = "none" /\ \A s \in Slots : sock[s] # c

TableInv == SlotOwnership /\ ListenerOK /\ NotAccepted /\ SlotsAccounted

\* The requests in a socket are the last ones that its client made, in order.
InboxOK ==
    \A c \in Clients : \A k \in 1..Len(inbox[c]) :
        /\ inbox[c][k].from = c
        /\ inbox[c][k].n + Len(inbox[c]) = asked[c] + k

\* The request in a thread's hands is its client's, older than those in the
\* socket and newer than those answered.
MsgOK ==
    \A t \in Clients : thr[t] = "serve" =>
        /\ msg[t].from = t
        /\ msg[t].n + Len(inbox[t]) <= asked[t]
        /\ \A k \in 1..Len(replies[t]) : replies[t][k].n < msg[t].n

RepliesOK ==
    \A c \in Clients : \A k \in 1..Len(replies[c]) :
        /\ replies[c][k].from = c
        /\ replies[c][k].n + Len(inbox[c]) <= asked[c]
        /\ \A l \in 1..(k - 1) : replies[c][l].n < replies[c][k].n

RepliesInv == InboxOK /\ MsgOK /\ RepliesOK

ValueInv == TableInv /\ RepliesInv
Inv == TypeOK /\ (ByValue => ValueInv)

-----------------------------------------------------------------------------
(* Every action, for the case splits *)

ListenerStep == Bind \/ Top \/ Scan \/ PollTimeout \/ CreateThread \/ CreateFail
MainStep == StopMonitor \/ Join \/ Exited
NiStep == NiBind \/ NiSelectFail \/ \E t \in Clients : NiThreadStart(t)
AnyCmd == Commands \cup {"JUMBLE"}

\* However a server reads, it reads one or two requests and takes them for some
\* command.
LEMMA ReadCases ==
    ASSUME TypeOK, NEW t \in Clients, ReadBySize(t) \/ ReadFirst(t) \/ ReadOne(t)
    PROVE  \E n \in 1..BufReqs : \E cmd \in AnyCmd : Read(t, n, cmd)
<1>1. FirstCmd(t) \in AnyCmd
  <2>1. CASE sock[id[t]] \in Clients /\ inbox[sock[id[t]]] # <<>>
    <3>1. inbox[sock[id[t]]] \in Seq(Requests)
        BY <2>1 DEF TypeOK
    <3>2. Head(inbox[sock[id[t]]]) \in Requests
        BY <2>1, <3>1, HeadTailProperties
    <3> QED
        BY <2>1, <3>2 DEF FirstCmd, AnyCmd, Requests
  <2>2. CASE ~(sock[id[t]] \in Clients /\ inbox[sock[id[t]]] # <<>>)
      BY <2>2 DEF FirstCmd, AnyCmd
  <2> QED
      BY <2>1, <2>2
<1>2. "JUMBLE" \in AnyCmd /\ 1 \in 1..BufReqs
    BY DEF AnyCmd, BufReqs
<1>3. CASE ReadBySize(t)
  <2>1. PICK n \in 1..BufReqs : Read(t, n, IF n = 1 THEN FirstCmd(t) ELSE "JUMBLE")
      BY <1>3 DEF ReadBySize
  <2>2. (IF n = 1 THEN FirstCmd(t) ELSE "JUMBLE") \in AnyCmd
      BY <1>1, <1>2
  <2> QED
      BY <2>1, <2>2
<1>4. CASE ReadFirst(t)
    BY <1>1, <1>4 DEF ReadFirst
<1>5. CASE ReadOne(t)
    BY <1>1, <1>2, <1>5 DEF ReadOne
<1> QED
    BY <1>3, <1>4, <1>5

\* A step is one of these, or changes nothing.
LEMMA Cases ==
    ASSUME TypeOK, [Next]_vars
    PROVE  \/ ListenerStep \/ MainStep \/ UNCHANGED vars
           \/ ~ByValue /\ NiStep
           \/ \E c \in Clients : Accept(c) \/ AcceptFail(c) \/ Connect(c) \/ HangUp(c)
           \/ \E c \in Clients : \E cmd \in Commands : Request(c, cmd)
           \/ \E t \in Clients : ThreadStart(t) \/ ThreadAbort(t) \/ LoopTop(t)
           \/ \E t \in Clients : Serve(t) \/ ReadEof(t) \/ CloseSlot(t)
           \/ \E t \in Clients : \E n \in 1..BufReqs : \E cmd \in AnyCmd : Read(t, n, cmd)
<1>1. CASE Listener
    BY <1>1 DEF Listener, MserverListener, SensorListener, MloggerListener, MultiListener,
                ApiListener, NiListener, AcceptLoop, ListenerStep, NiStep, ByValue
<1>2. ASSUME NEW t \in Clients, Thread(t)
      PROVE  \/ ThreadStart(t) \/ ThreadAbort(t) \/ LoopTop(t)
             \/ Serve(t) \/ ReadEof(t) \/ CloseSlot(t)
             \/ ~ByValue /\ NiStep
             \/ ReadBySize(t) \/ ReadFirst(t) \/ ReadOne(t)
    BY <1>2 DEF Thread, MserverThread, SensorThread, ApiThread, MloggerThread, MultiThread,
                NiThread, ServeAndLeave, NiStep, ByValue
<1> QED
    BY <1>1, <1>2, ReadCases DEF Next, MainStep

\* What is left of a sequence when its first n elements are taken.
LEMMA DropFirst ==
    ASSUME NEW S, NEW sq \in Seq(S), NEW n \in 1..Len(sq)
    PROVE  LET rest == SubSeq(sq, n + 1, Len(sq)) IN
           /\ rest \in Seq(S)
           /\ Len(rest) = Len(sq) - n
           /\ \A k \in 1..Len(rest) : rest[k] = sq[n + k]
<1>1. Len(sq) \in Nat /\ n \in Nat /\ \A k \in (n + 1)..Len(sq) : sq[k] \in S
    OBVIOUS
<1>2. /\ SubSeq(sq, n + 1, Len(sq)) \in Seq(S)
      /\ Len(SubSeq(sq, n + 1, Len(sq)))
            = IF n + 1 <= Len(sq) THEN Len(sq) - (n + 1) + 1 ELSE 0
      /\ \A k \in 1..Len(sq) - (n + 1) + 1 :
            SubSeq(sq, n + 1, Len(sq))[k] = sq[n + 1 + k - 1]
  <2>1. n + 1 \in Int /\ Len(sq) \in Int
      BY <1>1
  <2> QED
      BY <1>1, <2>1, SubSeqProperties
<1> QED
    BY <1>1, <1>2

-----------------------------------------------------------------------------
(* The initial states *)

\* A table fresh from calloc with no thread and no request satisfies Inv.
LEMMA InitInv == Init => Inv
<1> SUFFICES ASSUME Init PROVE Inv
    OBVIOUS
<1>1. TypeOK
    BY TableAssumption DEF Init, TypeOK, Slots, Req, Requests, Commands, AllServers
<1>2. TableInv
    BY TableAssumption
    DEF Init, TableInv, SlotOwnership, ListenerOK, NotAccepted, SlotsAccounted, Live, Slots
<1>3. RepliesInv
    BY DEF Init, RepliesInv, InboxOK, MsgOK, RepliesOK
<1> QED
    BY <1>1, <1>2, <1>3 DEF Inv, ValueInv

\* A process does not become another server.
LEMMA ServerKept == TypeOK /\ [Next]_vars => server' = server
<1> SUFFICES ASSUME TypeOK, [Next]_vars PROVE server' = server
    OBVIOUS
<1> USE DEF procVars
<1>1. CASE ListenerStep \/ NiStep
    BY <1>1 DEF ListenerStep, NiStep, Bind, Top, Scan, PollTimeout, CreateThread, CreateFail,
                NiBind, NiSelectFail, NiThreadStart
<1>2. CASE MainStep \/ UNCHANGED vars
    BY <1>2 DEF MainStep, StopMonitor, Join, Exited, vars
<1>3. ASSUME NEW c \in Clients,
             \/ Accept(c) \/ AcceptFail(c) \/ Connect(c) \/ HangUp(c)
             \/ \E cmd \in Commands : Request(c, cmd)
      PROVE  server' = server
    BY <1>3 DEF Accept, AcceptFail, Connect, HangUp, Request
<1>4. ASSUME NEW t \in Clients,
             \/ ThreadStart(t) \/ ThreadAbort(t) \/ LoopTop(t)
             \/ Serve(t) \/ ReadEof(t) \/ CloseSlot(t)
             \/ \E n \in 1..BufReqs : \E cmd \in AnyCmd : Read(t, n, cmd)
      PROVE  server' = server
    BY <1>4 DEF ThreadStart, ThreadAbort, LoopTop, Serve, ReadEof, CloseSlot, Read
<1> QED
    BY Cases, <1>1, <1>2, <1>3, <1>4

-----------------------------------------------------------------------------
(* Types *)

\* Every step of the listener, a thread, main or a client keeps the types.
LEMMA TypeStep == TypeOK /\ [Next]_vars => TypeOK'
<1> SUFFICES ASSUME TypeOK, [Next]_vars PROVE TypeOK'
    OBVIOUS
<1> USE TableAssumption DEF TypeOK, Slots, procVars
<1>1. CASE ListenerStep
  <2>1. CASE Bind \/ Top \/ PollTimeout
      BY <2>1 DEF Bind, Top, PollTimeout, clientVars, threadVars
  <2>2. CASE Scan
      BY <2>2 DEF Scan, clientVars, threadVars
  <2>3. CASE CreateThread
      BY <2>3 DEF CreateThread, clientVars
  <2>4. CASE CreateFail
      BY <2>4 DEF CreateFail, clientVars, threadVars
  <2> QED
      BY <1>1, <2>1, <2>2, <2>3, <2>4 DEF ListenerStep
<1>2. CASE MainStep
    BY <1>2 DEF MainStep, StopMonitor, Join, Exited, vars, tableVars, clientVars, threadVars
<1>3. CASE UNCHANGED vars
    BY <1>3 DEF vars, procVars, tableVars, clientVars, threadVars
<1>4. ASSUME NEW c \in Clients, Accept(c) \/ AcceptFail(c) \/ Connect(c) \/ HangUp(c)
      PROVE  TypeOK'
  <2>1. CASE Accept(c)
      BY <2>1 DEF Accept, clientVars, threadVars
  <2>2. CASE AcceptFail(c)
      BY <2>2 DEF AcceptFail, clientVars, threadVars
  <2>3. CASE Connect(c) \/ HangUp(c)
      BY <2>3 DEF Connect, HangUp, tableVars, clientVars, threadVars
  <2> QED
      BY <1>4, <2>1, <2>2, <2>3
<1>5. ASSUME NEW c \in Clients, NEW cmd \in Commands, Request(c, cmd)
      PROVE  TypeOK'
  <2>1. Req(c, cmd, asked[c] + 1) \in Requests
      BY <1>5 DEF Req, Requests
  <2> QED
      BY <1>5, <2>1 DEF Request, tableVars, threadVars
<1>6. ASSUME NEW t \in Clients, ThreadStart(t) \/ ThreadAbort(t) \/ LoopTop(t)
      PROVE  TypeOK'
  <2>1. CASE ThreadStart(t)
      BY <2>1 DEF ThreadStart, tableVars, clientVars
  <2>2. CASE ThreadAbort(t)
      BY <2>2 DEF ThreadAbort, tableVars, clientVars
  <2>3. CASE LoopTop(t)
      BY <2>3 DEF LoopTop, tableVars, clientVars
  <2> QED
      BY <1>6, <2>1, <2>2, <2>3
<1>7. ASSUME NEW t \in Clients, Serve(t) \/ ReadEof(t) \/ CloseSlot(t)
      PROVE  TypeOK'
  <2>1. CASE Serve(t)
      BY <2>1 DEF Serve, tableVars
  <2>2. CASE ReadEof(t)
      BY <2>2 DEF ReadEof, tableVars, clientVars
  <2>3. CASE CloseSlot(t)
      BY <2>3 DEF CloseSlot, clientVars
  <2> QED
      BY <1>7, <2>1, <2>2, <2>3
<1>8. ASSUME NEW t \in Clients, NEW n \in 1..BufReqs, NEW cmd \in AnyCmd, Read(t, n, cmd)
      PROVE  TypeOK'
  <2> DEFINE c == sock[id[t]]
  <2>1. c \in Clients /\ n \in 1..Len(inbox[c]) /\ inbox[c] \in Seq(Requests)
      BY <1>8 DEF Read
  <2>2. SubSeq(inbox[c], n + 1, Len(inbox[c])) \in Seq(Requests)
      BY <2>1, DropFirst
  <2>3. Req(Head(inbox[c]).from, cmd, Head(inbox[c]).n) \in Requests
    <3>1. Head(inbox[c]) \in Requests
        BY <2>1, inbox[c] # <<>>, HeadTailProperties
    <3> QED
        BY <3>1 DEF Req, Requests, AnyCmd
  <2> QED
      BY <1>8, <2>1, <2>2, <2>3 DEF Read, tableVars
<1>9. CASE NiStep
  <2>1. CASE NiBind
      BY <2>1 DEF NiBind, clientVars, threadVars
  <2>2. CASE NiSelectFail
      BY <2>2 DEF NiSelectFail, clientVars, threadVars
  <2>3. ASSUME NEW t \in Clients, NiThreadStart(t) PROVE TypeOK'
      BY <2>3 DEF NiThreadStart, tableVars, clientVars
  <2> QED
      BY <1>9, <2>1, <2>2, <2>3 DEF NiStep
<1> QED
    BY Cases, <1>1, <1>2, <1>3, <1>4, <1>5, <1>6, <1>7, <1>8, <1>9

-----------------------------------------------------------------------------
(* Who owns which entry *)

\* No step gives an entry to two threads, or a thread an entry of another: the
\* listener stores into an entry only when its sock is NoSock, and a thread
\* clears sock as the last thing it does with the entry.
LEMMA TableStep == ByValue /\ TypeOK /\ ValueInv /\ [Next]_vars => TableInv'
<1> SUFFICES ASSUME ByValue, TypeOK, ValueInv, [Next]_vars PROVE TableInv'
    OBVIOUS
<1> USE TableAssumption
    DEF ValueInv, TypeOK, Slots, TableInv, SlotOwnership, ListenerOK, NotAccepted,
        SlotsAccounted, Live
<1>1. CASE ListenerStep
  <2>1. CASE Bind \/ Top \/ PollTimeout
      BY <2>1 DEF Bind, Top, PollTimeout, threadVars
  <2>2. CASE Scan
      BY <2>2 DEF Scan, threadVars
  <2>3. CASE CreateThread
      BY <2>3 DEF CreateThread
  <2>4. CASE CreateFail
      BY <2>4 DEF CreateFail, threadVars
  <2> QED
      BY <1>1, <2>1, <2>2, <2>3, <2>4 DEF ListenerStep
<1>2. CASE MainStep
    BY <1>2 DEF MainStep, StopMonitor, Join, Exited, vars, tableVars, threadVars
<1>3. CASE UNCHANGED vars
    BY <1>3 DEF vars, procVars, tableVars, clientVars, threadVars
<1>4. ASSUME NEW c \in Clients, Accept(c) \/ AcceptFail(c) \/ Connect(c) \/ HangUp(c)
      PROVE  TableInv'
  <2>1. CASE Accept(c)
      BY <2>1 DEF Accept, threadVars
  <2>2. CASE AcceptFail(c) \/ Connect(c) \/ HangUp(c)
      BY <2>2, ZenonT(40) DEF AcceptFail, Connect, HangUp, tableVars, threadVars
  <2> QED
      BY <1>4, <2>1, <2>2
<1>5. ASSUME NEW c \in Clients, NEW cmd \in Commands, Request(c, cmd)
      PROVE  TableInv'
    BY <1>5 DEF Request, tableVars, threadVars
<1>6. ASSUME NEW t \in Clients, ThreadStart(t) \/ ThreadAbort(t) \/ LoopTop(t)
      PROVE  TableInv'
  <2>1. CASE ThreadStart(t)
      BY <2>1 DEF ThreadStart, tableVars
  <2>2. CASE ThreadAbort(t)
      BY <2>2 DEF ThreadAbort, tableVars
  <2>3. CASE LoopTop(t)
      BY <2>3 DEF LoopTop, tableVars
  <2> QED
      BY <1>6, <2>1, <2>2, <2>3
<1>7. ASSUME NEW t \in Clients, Serve(t) \/ ReadEof(t) \/ CloseSlot(t)
      PROVE  TableInv'
  <2>1. CASE Serve(t)
      BY <2>1 DEF Serve, tableVars
  <2>2. CASE ReadEof(t)
      BY <2>2 DEF ReadEof, tableVars
  <2>3. CASE CloseSlot(t)
      BY <2>3 DEF CloseSlot
  <2> QED
      BY <1>7, <2>1, <2>2, <2>3
<1>8. ASSUME NEW t \in Clients, NEW n \in 1..BufReqs, NEW cmd \in AnyCmd, Read(t, n, cmd)
      PROVE  TableInv'
    BY <1>8 DEF Read, tableVars
<1> QED
    BY Cases, <1>1, <1>2, <1>3, <1>4, <1>5, <1>6, <1>7, <1>8

-----------------------------------------------------------------------------
(* Where a client's requests are *)

\* What the types say of the numbers.
LEMMA Numbers ==
    ASSUME TypeOK, NEW c \in Clients
    PROVE  /\ asked[c] \in Nat /\ msg[c].n \in Nat
           /\ Len(inbox[c]) \in Nat /\ Len(replies[c]) \in Nat
           /\ \A k \in 1..Len(inbox[c]) : inbox[c][k].n \in Nat
           /\ \A k \in 1..Len(replies[c]) : replies[c][k].n \in Nat
<1>1. inbox[c] \in Seq(Requests) /\ replies[c] \in Seq(Requests) /\ msg[c] \in Requests
    BY DEF TypeOK
<1>2. \A q \in Requests : q.n \in Nat
    BY DEF Requests
<1>3. /\ \A k \in 1..Len(inbox[c]) : inbox[c][k] \in Requests
      /\ \A k \in 1..Len(replies[c]) : replies[c][k] \in Requests
      /\ Len(inbox[c]) \in Nat /\ Len(replies[c]) \in Nat
    BY <1>1
<1> QED
    BY <1>1, <1>2, <1>3 DEF TypeOK

\* Steps that touch neither requests nor replies, and let no thread start to
\* serve, keep RepliesInv.
LEMMA RepliesKept ==
    ASSUME RepliesInv, UNCHANGED <<inbox, asked, replies, msg>>,
           \A t \in Clients : thr'[t] = "serve" => thr[t] = "serve"
    PROVE  RepliesInv'
BY DEF RepliesInv, InboxOK, MsgOK, RepliesOK

\* A request stays on the way to its own reply: in the inbox, in the thread's
\* buffer msg, or answered, numbered without a gap that is not a merged request.
LEMMA RepliesStep == ByValue /\ TypeOK /\ ValueInv /\ [Next]_vars => RepliesInv'
<1> SUFFICES ASSUME ByValue, TypeOK, ValueInv, [Next]_vars PROVE RepliesInv'
    OBVIOUS
<1> USE DEF ValueInv
<1>1. CASE ListenerStep
  <2>1. UNCHANGED <<inbox, asked, replies, msg>>
      BY <1>1 DEF ListenerStep, Bind, Top, Scan, PollTimeout, CreateThread, CreateFail,
                  clientVars, threadVars
  <2>2. \A t \in Clients : thr'[t] = "serve" => thr[t] = "serve"
      BY <1>1 DEF ListenerStep, Bind, Top, Scan, PollTimeout, CreateThread, CreateFail,
                  threadVars, TypeOK
  <2> QED
      BY <2>1, <2>2, RepliesKept
<1>2. CASE MainStep
    BY <1>2, RepliesKept DEF MainStep, StopMonitor, Join, Exited, vars, clientVars, threadVars
<1>3. CASE UNCHANGED vars
    BY <1>3, RepliesKept DEF vars, clientVars, threadVars
<1>4. ASSUME NEW c \in Clients, Accept(c) \/ AcceptFail(c) \/ Connect(c) \/ HangUp(c)
      PROVE  RepliesInv'
    BY <1>4, RepliesKept DEF Accept, AcceptFail, Connect, HangUp, clientVars, threadVars
<1>5. ASSUME NEW c \in Clients, NEW cmd \in Commands, Request(c, cmd)
      PROVE  RepliesInv'
  <2>1. /\ inbox' = [inbox EXCEPT ![c] = Append(inbox[c], Req(c, cmd, asked[c] + 1))]
        /\ asked' = [asked EXCEPT ![c] = asked[c] + 1]
        /\ UNCHANGED <<replies, thr, msg>>
      BY <1>5 DEF Request, threadVars
  <2>2. /\ inbox[c] \in Seq(Requests) /\ asked[c] \in Nat
        /\ inbox \in [Clients -> Seq(Requests)] /\ asked \in [Clients -> Nat]
        /\ replies \in [Clients -> Seq(Requests)] /\ msg \in [Clients -> Requests]
      BY DEF TypeOK
  <2>3. /\ \A d \in Clients \ {c} : inbox'[d] = inbox[d] /\ asked'[d] = asked[d]
        /\ asked'[c] = asked[c] + 1
        /\ Len(inbox'[c]) = Len(inbox[c]) + 1
        /\ \A k \in 1..Len(inbox[c]) : inbox'[c][k] = inbox[c][k]
        /\ inbox'[c][Len(inbox[c]) + 1] = Req(c, cmd, asked[c] + 1)
      BY <2>1, <2>2, Req(c, cmd, asked[c] + 1) \in Requests DEF Requests, Req
  <2>4. InboxOK'
    <3> SUFFICES ASSUME NEW d \in Clients, NEW k \in 1..Len(inbox'[d])
                 PROVE  /\ inbox'[d][k].from = d
                        /\ inbox'[d][k].n + Len(inbox'[d]) = asked'[d] + k
        BY DEF InboxOK
    <3>1. CASE d # c
        BY <2>3, <3>1 DEF RepliesInv, InboxOK
    <3>2. CASE d = c /\ k \in 1..Len(inbox[c])
      <4>1. /\ inbox[c][k].from = c /\ inbox[c][k].n + Len(inbox[c]) = asked[c] + k
            /\ inbox'[c][k] = inbox[c][k]
          BY <2>3, <3>2 DEF RepliesInv, InboxOK
      <4> DEFINE x == inbox[c][k].n
                 len == Len(inbox[c])
                 a == asked[c]
      <4>2. x \in Nat /\ len \in Nat /\ a \in Nat /\ k \in Nat /\ x + len = a + k
          BY <3>2, <4>1, Numbers
      <4>3. x + (len + 1) = (a + 1) + k
        <5> HIDE DEF x, len, a
        <5> QED
            BY <4>2
      <4> QED
          BY <2>3, <3>2, <4>1, <4>3
    <3>3. CASE d = c /\ k = Len(inbox[c]) + 1
        BY <2>2, <2>3, <3>3, Numbers DEF Req
    <3> QED
        BY <2>3, <3>1, <3>2, <3>3, Numbers
  <2>5. MsgOK'
      BY <2>1, <2>3, Numbers DEF RepliesInv, MsgOK
  <2>6. RepliesOK'
      BY <2>1, <2>3, Numbers, SMTT(30) DEF RepliesInv, RepliesOK
  <2> QED
      BY <2>4, <2>5, <2>6 DEF RepliesInv
<1>6. ASSUME NEW t \in Clients, ThreadStart(t) \/ ThreadAbort(t) \/ LoopTop(t)
      PROVE  RepliesInv'
    BY <1>6, RepliesKept DEF ThreadStart, ThreadAbort, LoopTop, clientVars, TypeOK
<1>7. ASSUME NEW t \in Clients, ReadEof(t) \/ CloseSlot(t)
      PROVE  RepliesInv'
    BY <1>7, RepliesKept DEF ReadEof, CloseSlot, clientVars, TypeOK
<1>8. ASSUME NEW t \in Clients, Serve(t)
      PROVE  RepliesInv'
  <2>1. thr[t] = "serve" /\ sock[id[t]] = t
      BY <1>8 DEF Serve, TableInv, SlotOwnership, Live
  <2>2. CASE UNCHANGED replies
      BY <1>8, <2>2, RepliesKept DEF Serve, TypeOK
  <2>3. CASE replies' = [replies EXCEPT ![t] = Append(replies[t], msg[t])]
    <3>1. /\ UNCHANGED <<inbox, asked, msg>>
          /\ thr'[t] # "serve" /\ \A u \in Clients \ {t} : thr'[u] = thr[u]
        BY <1>8 DEF Serve, TypeOK
    <3>2. /\ replies \in [Clients -> Seq(Requests)] /\ msg[t] \in Requests
          /\ inbox \in [Clients -> Seq(Requests)] /\ asked \in [Clients -> Nat]
        BY DEF TypeOK
    <3>3. /\ \A u \in Clients \ {t} : replies'[u] = replies[u]
          /\ Len(replies'[t]) = Len(replies[t]) + 1
          /\ \A k \in 1..Len(replies[t]) : replies'[t][k] = replies[t][k]
          /\ replies'[t][Len(replies[t]) + 1] = msg[t]
        BY <2>3, <3>2
    <3>4. InboxOK' /\ MsgOK'
        BY <3>1, <3>3 DEF RepliesInv, InboxOK, MsgOK
    <3>5. RepliesOK'
      <4> SUFFICES ASSUME NEW u \in Clients, NEW k \in 1..Len(replies'[u])
                   PROVE  /\ replies'[u][k].from = u
                          /\ replies'[u][k].n + Len(inbox[u]) <= asked[u]
                          /\ \A l \in 1..(k - 1) : replies'[u][l].n < replies'[u][k].n
          BY <3>1 DEF RepliesOK
      <4>1. CASE u # t
          BY <3>3, <4>1 DEF RepliesInv, RepliesOK
      <4>2. CASE u = t /\ k \in 1..Len(replies[t])
          BY <3>3, <4>2, Numbers, SMTT(30) DEF RepliesInv, RepliesOK
      <4>3. CASE u = t /\ k = Len(replies[t]) + 1
        <5>1. /\ msg[t].from = t /\ msg[t].n + Len(inbox[t]) <= asked[t]
              /\ \A l \in 1..Len(replies[t]) : replies[t][l].n < msg[t].n
            BY <2>1 DEF RepliesInv, MsgOK
        <5>2. \A l \in 1..(k - 1) : l \in 1..Len(replies[t])
            BY <4>3, Numbers
        <5> QED
            BY <3>3, <4>3, <5>1, <5>2
      <4> QED
          BY <3>3, <4>1, <4>2, <4>3, Numbers
    <3> QED
        BY <3>4, <3>5 DEF RepliesInv
  <2> QED
      BY <1>8, <2>1, <2>2, <2>3 DEF Serve
<1>9. ASSUME NEW t \in Clients, NEW n \in 1..BufReqs, NEW cmd \in AnyCmd, Read(t, n, cmd)
      PROVE  RepliesInv'
  <2>1. thr[t] = "read" /\ sock[id[t]] = t
      BY <1>9 DEF Read, TableInv, SlotOwnership, Live
  <2>2. /\ inbox \in [Clients -> Seq(Requests)] /\ asked \in [Clients -> Nat]
        /\ replies \in [Clients -> Seq(Requests)] /\ msg \in [Clients -> Requests]
        /\ thr \in [Clients -> {"none", "starting", "loop", "read", "serve", "closing", "gone", "aborted"}]
      BY DEF TypeOK
  <2>3. /\ n \in 1..Len(inbox[t])
        /\ inbox' = [inbox EXCEPT ![t] = SubSeq(inbox[t], n + 1, Len(inbox[t]))]
        /\ msg' = [msg EXCEPT ![t] = Req(Head(inbox[t]).from, cmd, Head(inbox[t]).n)]
        /\ thr' = [thr EXCEPT ![t] = "serve"]
        /\ UNCHANGED <<asked, replies>>
      BY <1>9, <2>1 DEF Read
  <2>4. /\ Len(inbox'[t]) = Len(inbox[t]) - n
        /\ \A k \in 1..Len(inbox'[t]) : inbox'[t][k] = inbox[t][n + k]
        /\ \A u \in Clients \ {t} : inbox'[u] = inbox[u] /\ msg'[u] = msg[u] /\ thr'[u] = thr[u]
      BY <2>2, <2>3, DropFirst
  <2>5. Len(inbox[t]) \in Nat /\ n \in 1..Len(inbox[t])
      BY <2>3, Numbers
  <2>6. msg'[t].from = t /\ msg'[t].n = inbox[t][1].n /\ inbox[t][1].n \in Nat
    <3>1. Head(inbox[t]) = inbox[t][1] /\ 1 \in 1..Len(inbox[t])
        BY <2>2, <2>3
    <3> QED
        BY <2>2, <2>3, <3>1, Numbers DEF Req, RepliesInv, InboxOK
  <2>7. InboxOK'
    <3> SUFFICES ASSUME NEW d \in Clients, NEW k \in 1..Len(inbox'[d])
                 PROVE  /\ inbox'[d][k].from = d
                        /\ inbox'[d][k].n + Len(inbox'[d]) = asked'[d] + k
        BY DEF InboxOK
    <3>1. CASE d # t
        BY <2>3, <2>4, <3>1 DEF RepliesInv, InboxOK
    <3>2. CASE d = t
      <4>0. Len(inbox[t]) \in Nat /\ n \in 1..Len(inbox[t]) /\ k \in 1..(Len(inbox[t]) - n)
          BY <2>5, <2>4, <3>2
      <4>1. n + k \in 1..Len(inbox[t]) /\ inbox'[t][k] = inbox[t][n + k]
        <5>1. n + k \in 1..Len(inbox[t])
            BY <4>0
        <5> QED
            BY <5>1, <2>4, <3>2
      <4>2. inbox[t][n + k].from = t /\ inbox[t][n + k].n + Len(inbox[t]) = asked[t] + (n + k)
          BY <4>1 DEF RepliesInv, InboxOK
      <4> DEFINE x == inbox[t][n + k].n
                 len == Len(inbox[t])
                 a == asked[t]
      <4>3. /\ x \in Nat /\ len \in Nat /\ a \in Nat /\ k \in Nat /\ n \in Nat
            /\ x + len = a + (n + k)
          BY <4>1, <4>2, Numbers
      <4>4. x + (len - n) = a + k
        <5> HIDE DEF x, len, a
        <5> QED
            BY <4>3
      <4> QED
          BY <2>3, <2>4, <3>2, <4>1, <4>2, <4>4
    <3> QED
        BY <3>1, <3>2
  <2>8. inbox[t][1].n + Len(inbox[t]) = asked[t] + 1
      BY <2>3, Numbers DEF RepliesInv, InboxOK
  <2>9. RepliesOK'
    <3> SUFFICES ASSUME NEW u \in Clients, NEW k \in 1..Len(replies[u])
                 PROVE  /\ replies[u][k].from = u
                        /\ replies[u][k].n + Len(inbox'[u]) <= asked[u]
                        /\ \A l \in 1..(k - 1) : replies[u][l].n < replies[u][k].n
        BY <2>3 DEF RepliesOK
    <3>1. /\ replies[u][k].from = u
          /\ replies[u][k].n + Len(inbox[u]) <= asked[u]
          /\ \A l \in 1..(k - 1) : replies[u][l].n < replies[u][k].n
        BY DEF RepliesInv, RepliesOK
    <3>2. Len(inbox'[u]) <= Len(inbox[u]) /\ Len(inbox'[u]) \in Int
        BY <2>3, <2>4, Numbers
    <3> QED
        BY <3>1, <3>2, Numbers
  <2>10. MsgOK'
    <3>1. thr'[t] = "serve" =>
            /\ msg'[t].from = t
            /\ msg'[t].n + Len(inbox'[t]) <= asked'[t]
            /\ \A k \in 1..Len(replies'[t]) : replies'[t][k].n < msg'[t].n
      <4> DEFINE first == inbox[t][1].n
                 len == Len(inbox[t])
                 a == asked[t]
      <4>1. first \in Nat /\ len \in Nat /\ a \in Nat /\ n \in 1..len /\ first + len = a + 1
          BY <2>6, <2>8, <2>5, Numbers
      <4>2. /\ Len(replies[t]) \in Nat
            /\ \A k \in 1..Len(replies[t]) :
                  replies[t][k].n \in Nat /\ replies[t][k].n + len <= a
          BY Numbers DEF RepliesInv, RepliesOK
      <4>3. msg'[t].n = first /\ Len(inbox'[t]) = len - n
          BY <2>4, <2>6
      <4>4. asked'[t] = a /\ replies'[t] = replies[t]
          BY <2>3
      <4> HIDE DEF first, len, a
      <4>5. first + (len - n) <= a
          BY <4>1
      <4>6. \A k \in 1..Len(replies[t]) : replies[t][k].n < first
          BY <4>1, <4>2
      <4> QED
          BY <2>6, <4>3, <4>4, <4>5, <4>6
    <3> QED
        BY <2>3, <2>4, <3>1 DEF RepliesInv, MsgOK
  <2> QED
      BY <2>7, <2>9, <2>10 DEF RepliesInv
<1> QED
    BY Cases, <1>1, <1>2, <1>3, <1>4, <1>5, <1>6, <1>7, <1>8, <1>9

-----------------------------------------------------------------------------
(* The theorems *)

\* The types hold and, unless a thread reads its number through a pointer as in
\* nidaqmx_server.c, no entry in use is reused or freed by another thread, none
\* is lost and replies answer their client's own requests in order, for any
\* number of entries, clients and requests.
THEOREM Safety == Spec => []Inv
<1>1. Init => Inv
    BY InitInv
<1>2. Inv /\ [Next]_vars => Inv'
  <2> SUFFICES ASSUME Inv, [Next]_vars PROVE Inv'
      OBVIOUS
  <2>1. TypeOK'
      BY TypeStep DEF Inv
  <2>2. server' = server
      BY ServerKept DEF Inv
  <2>3. ASSUME ByValue' PROVE ValueInv'
    <3>1. ByValue
        BY <2>2, <2>3 DEF ByValue
    <3> QED
        BY <3>1, TableStep, RepliesStep DEF Inv, ValueInv
  <2> QED
      BY <2>1, <2>3 DEF Inv
<1> QED
    BY <1>1, <1>2, PTL DEF Spec

\* The type invariant of the table, the listener and the threads.
THEOREM TypeCorrect == Spec => []TypeOK
<1>1. Inv => TypeOK
    BY DEF Inv
<1> QED
    BY <1>1, Safety, PTL

\* The unlocked listener never reuses an entry that a thread still serves.
THEOREM OwnershipHolds == Spec => []SlotOwnership
<1>1. Inv => SlotOwnership
    BY DEF Inv, ValueInv, TableInv, SlotOwnership
<1> QED
    BY <1>1, Safety, PTL

\* An entry is lost only by a thread that returns when getpeername fails.
THEOREM NoSlotLost == Spec => []SlotsAccounted
<1>1. Inv => SlotsAccounted
    BY DEF Inv, ValueInv, TableInv, SlotsAccounted
<1> QED
    BY <1>1, Safety, PTL

\* Requests are answered on the connection they came from, in order, once.
THEOREM RepliesHold == Spec => []RepliesAsked
<1>1. Inv => RepliesAsked
  <2> SUFFICES ASSUME Inv, ByValue PROVE RepliesAsked
      BY DEF RepliesAsked
  <2>1. TypeOK /\ RepliesOK
      BY DEF Inv, ValueInv, RepliesInv
  <2> QED
      BY <2>1, Numbers DEF RepliesAsked, RepliesOK
<1> QED
    BY <1>1, Safety, PTL
=============================================================================
