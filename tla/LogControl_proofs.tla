-------------------------- MODULE LogControl_proofs --------------------------
(***************************************************************************)
(* Proofs about the log file of the legacy servers, for any number of      *)
(* messages, files, rounds, sessions and monitors: with fp_mutex, or with  *)
(* a caller that leaves time between its calls, control threads use only   *)
(* the open FILE and leak none; the first log begins with its header and   *)
(* the marks of sessions are in order.                                     *)
(***************************************************************************)
EXTENDS LogControl, TLAPS, SequenceTheorems, FiniteSetTheorems

Where == {"new", "switch", "forget", "open", "begin", "print", "done"}
Texts == Commands \cup {"BEGIN_LOG", "READING"}

LogTypes ==
    /\ server \in {"mserver", "multiserver"} /\ tool \in {"fcontrol", "mcontrol"}
    /\ spaced \in BOOLEAN /\ refused \in BOOLEAN
    /\ app \in {"out", "init", "ready", "session"}
    /\ msgs \in Seq(Commands) /\ th \in Seq(Where) /\ Len(th) = Len(msgs)
    /\ fplog \in 0..MaxFiles /\ logging \in BOOLEAN
    /\ file \in [Files -> {"none", "open", "closed"}]
    /\ lines \in [Files -> Seq(Texts)]
    /\ mon \in [Monitors -> {"idle", "write"}]

\* Which message brings a thread where.
PlaceInv ==
    \A k \in 1..Len(th) :
        /\ th[k] \in {"open", "begin"} => msgs[k] = "NEW_LOG_FILE"
        /\ th[k] = "forget" => msgs[k] \in {"NEW_LOG_FILE", "END_LOG_FILE"}
        /\ th[k] = "print" => msgs[k] \in {"NEW_SESSION", "END_SESSION"}

Chdir(k) == msgs[k] = "CHG_WORKING_DIR"
Done(k) == th[k] = "done" \/ Chdir(k)

\* One thread at a time works on the log: fp_mutex sees to it, or the caller
\* does.  Only powerpack_fp_init sends a message while another, its chdir, may
\* still be under way.
AloneInv ==
    /\ Multi => \A k \in 1..Len(th) : th[k] \notin {"new", "done"} => fpMutex = k
    /\ spaced => \A j, k \in 1..Len(th) : j # k => Done(j) \/ Done(k)
    /\ spaced /\ app = "init" => \A k \in 1..Len(th) : Done(k)

Exclusive == Multi \/ spaced
NoneOpen == \A f \in Files : file[f] # "open"
Clean == /\ \A f \in Files : file[f] = "open" <=> f = fplog
         /\ logging => fplog # 0

\* Between the fclose of an old log and the fopen of the next one no file is
\* open and nothing says so but fplog, which may be stale; otherwise fplog is
\* the one open file.
FileInv ==
    Exclusive =>
        /\ (\A k \in 1..Len(th) : th[k] \notin {"forget", "open"}) => Clean
        /\ \A k \in 1..Len(th) :
              /\ th[k] \in {"forget", "open"} => NoneOpen /\ ~logging
              /\ th[k] = "open" => fplog = 0
              /\ th[k] \in {"begin", "print"} => fplog # 0
        /\ "control" \notin fault

\* The files are opened in order, and the first one is empty only until the
\* thread that opened it writes its header; until then logging is off and no
\* monitor of mserver.c is about to write.
HeaderInv ==
    spaced /\ ~Multi =>
        /\ fplog # 0 => file[1] # "none"
        /\ file[1] # "none" /\ lines[1] = <<>> =>
              \E k \in 1..Len(th) : th[k] = "begin" /\ fplog = 1
        /\ lines[1] = <<>> => ~logging /\ \A m \in Monitors : mon[m] = "idle"
        /\ BeginFirst

Orderly == tool = "fcontrol" /\ spaced /\ ~refused

\* Where the application is, seen in the last message it sent.
LastInv ==
    Orderly =>
        LET n == Len(msgs) IN
        /\ app = "out" => n = 0 \/ msgs[n] = "END_LOG_FILE"
        /\ app = "init" => n > 0 /\ msgs[n] = "CHG_WORKING_DIR"
        /\ app = "ready" => n > 0 /\ msgs[n] \in {"NEW_LOG_FILE", "END_SESSION"}
        /\ app = "session" => n > 0 /\ msgs[n] = "NEW_SESSION"
        /\ \A k \in 1..(n - 1) : Done(k)

\* A session is marked as begun and not yet as ended.
InSession ==
    LET n == Len(msgs) IN
    /\ n > 0
    /\ \/ msgs[n] = "NEW_SESSION" /\ th[n] = "done"
       \/ msgs[n] = "END_SESSION" /\ th[n] # "done"

Total(f, text) == Marks(lines[f], Len(lines[f]), text)

\* The current log has as many ends as starts, and one start more while a
\* session is on; a file that was not opened is empty.
MarksInv ==
    /\ Orderly /\ fplog # 0 =>
          Total(fplog, "NEW_SESSION")
            = Total(fplog, "END_SESSION") + (IF InSession THEN 1 ELSE 0)
    /\ \A f \in Files : file[f] = "none" => lines[f] = <<>>
    /\ SessionsInOrder

LogInv == LogTypes /\ PlaceInv /\ AloneInv /\ FileInv /\ HeaderInv /\ LastInv /\ MarksInv

-----------------------------------------------------------------------------
(* Steps *)

Round == {<<"out", "CHG_WORKING_DIR", "init">>, <<"init", "NEW_LOG_FILE", "ready">>,
          <<"ready", "NEW_SESSION", "session">>, <<"session", "END_SESSION", "ready">>,
          <<"ready", "END_LOG_FILE", "out">>}

\* A call of the application or of mcontrol sends cmd and leaves app at next.
Sends(cmd, next) ==
    /\ Post(cmd, next)
    /\ (spaced => Handled) \/ (app = "init" /\ cmd = "NEW_LOG_FILE")
    /\ next = "init" => cmd = "CHG_WORKING_DIR"
    /\ tool = "fcontrol" => <<app, cmd, next>> \in Round

LEMMA ApplicationSends ==
    Application => \E cmd \in Commands, next \in {"out", "init", "ready", "session"} :
                       Sends(cmd, next)
<1> SUFFICES ASSUME Application
             PROVE  \E cmd \in Commands, next \in {"out", "init", "ready", "session"} :
                       Sends(cmd, next)
    OBVIOUS
<1>1. CASE \E cmd \in Commands : Mcontrol(cmd)
    BY <1>1 DEF Mcontrol, Sends, Call
<1>2. CASE FpInit
    BY <1>2 DEF FpInit, Sends, Call, Round, Commands
<1>3. CASE FpInitLog
    BY <1>3 DEF FpInitLog, Sends, Call, Round, Commands
<1>4. CASE SessionStart
    BY <1>4 DEF SessionStart, Sends, Call, Round, Commands
<1>5. CASE SessionEnd
    BY <1>5 DEF SessionEnd, Sends, Call, Round, Commands
<1>6. CASE FpEnd
    BY <1>6 DEF FpEnd, Sends, Call, Round, Commands
<1> QED
    BY <1>1, <1>2, <1>3, <1>4, <1>5, <1>6 DEF Application

\* Every step is one of these.
LEMMA LogCases ==
    ASSUME [Next]_vars, NEW G,
           \A cmd \in Commands, next \in {"out", "init", "ready", "session"} :
               Sends(cmd, next) => G,
           \A k \in 1..Len(msgs) : Thread(k) => G,
           \A m \in Monitors : MonitorTest(m) => G,
           \A m \in Monitors : MonitorWrite(m) => G,
           UNCHANGED vars => G
    PROVE  G
<1>1. CASE Application
    BY <1>1, ApplicationSends
<1> QED
    BY <1>1 DEF Next, Quiet

\* th changes at one place.
LEMMA GotoFacts ==
    ASSUME LogTypes, NEW k \in 1..Len(msgs), NEW w \in Where, Goto(k, w)
    PROVE  /\ th' \in Seq(Where) /\ Len(th') = Len(th)
           /\ th'[k] = w
           /\ \A j \in 1..Len(th) : j # k => th'[j] = th[j]
<1>1. k \in 1..Len(th) /\ th \in Seq(Where)
    BY DEF LogTypes
<1> QED
    BY <1>1, ExceptSeq DEF Goto

\* A message that arrives gets a thread of its own.
LEMMA PostFacts ==
    ASSUME LogTypes, NEW cmd \in Commands, msgs' = Append(msgs, cmd), th' = Append(th, "new")
    PROVE  /\ msgs' \in Seq(Commands) /\ th' \in Seq(Where)
           /\ Len(msgs') = Len(msgs) + 1 /\ Len(th') = Len(th) + 1
           /\ msgs'[Len(msgs) + 1] = cmd /\ th'[Len(msgs) + 1] = "new"
           /\ \A j \in 1..Len(msgs) : msgs'[j] = msgs[j] /\ th'[j] = th[j]
<1>1. "new" \in Where /\ Len(th) = Len(msgs) /\ msgs \in Seq(Commands) /\ th \in Seq(Where)
    BY DEF LogTypes, Where
<1> QED
    BY <1>1, AppendProperties

\* What a print does.
LEMMA PutFacts ==
    ASSUME LogTypes, NEW who, NEW text \in Texts, Put(who, text)
    PROVE  /\ lines' \in [Files -> Seq(Texts)]
           /\ fault' \subseteq fault \cup {who}
           /\ IsOpen(fplog) => /\ fault' = fault
                              /\ fplog \in Files
                              /\ lines'[fplog] = Append(lines[fplog], text)
                              /\ \A f \in Files : f # fplog => lines'[f] = lines[f]
           /\ ~IsOpen(fplog) => lines' = lines
<1>1. CASE IsOpen(fplog)
  <2>1. fplog \in Files /\ lines[fplog] \in Seq(Texts)
      BY <1>1 DEF LogTypes, IsOpen, Files
  <2>2. Append(lines[fplog], text) \in Seq(Texts)
      BY <2>1, AppendProperties
  <2>3. lines' = [lines EXCEPT ![fplog] = Append(@, text)] /\ fault' = fault
      BY <1>1 DEF Put
  <2> QED
      BY <1>1, <2>1, <2>2, <2>3 DEF LogTypes
<1>2. CASE ~IsOpen(fplog)
    BY <1>2 DEF Put, LogTypes
<1> QED
    BY <1>1, <1>2

-----------------------------------------------------------------------------
(* Types and places *)

LEMMA LogTypesInit == Init => LogTypes
<1> SUFFICES ASSUME Init PROVE LogTypes
    OBVIOUS
<1>1. lines \in [Files -> Seq(Texts)]
    BY EmptySeq DEF Init
<1>2. spaced \in BOOLEAN /\ refused \in BOOLEAN /\ logging \in BOOLEAN
    BY Zenon DEF Init
<1>3. msgs \in Seq(Commands) /\ th \in Seq(Where) /\ Len(th) = Len(msgs)
    BY EmptySeq DEF Init
<1>4. fplog \in 0..MaxFiles
    BY LogAssumption DEF Init
<1>5. /\ server \in {"mserver", "multiserver"} /\ tool \in {"fcontrol", "mcontrol"}
      /\ app \in {"out", "init", "ready", "session"}
      /\ file \in [Files -> {"none", "open", "closed"}]
      /\ mon \in [Monitors -> {"idle", "write"}]
    BY LogAssumption DEF Init
<1> QED
    BY <1>1, <1>2, <1>3, <1>4, <1>5 DEF LogTypes

\* What a thread's step leaves alone, and that it moves on along a path of its
\* message.
ThreadMoves(k) ==
    /\ \E w \in Where \ {"new"} : Goto(k, w)
    /\ th[k] = "new" <=> th'[k] = "switch"
    /\ th[k] # "done"
    /\ th'[k] \in {"open", "begin"} => msgs[k] = "NEW_LOG_FILE"
    /\ th'[k] = "forget" => msgs[k] \in {"NEW_LOG_FILE", "END_LOG_FILE"}
    /\ th'[k] = "print" => msgs[k] \in {"NEW_SESSION", "END_SESSION"}
    /\ UNCHANGED <<server, tool, spaced, app, msgs, mon>>
    /\ refused => refused'
    /\ Chdir(k) => UNCHANGED <<fplog, logging, file, lines, fault>>
    /\ Multi => \/ th[k] = "new" /\ fpMutex = 0 /\ fpMutex' = k
                \/ th[k] # "new" /\ fpMutex' = fpMutex
                \/ th'[k] = "done"

LEMMA ThreadFacts ==
    ASSUME LogTypes, PlaceInv, NEW k \in 1..Len(msgs), Thread(k)
    PROVE  ThreadMoves(k)
<1> k \in 1..Len(th) /\ th[k] \in Where /\ msgs[k] \in Commands
    BY DEF LogTypes
<1> USE DEF Thread, ThreadMoves, Leave, Chdir, appVars, setup, monVars, fileVars, Where
<1>a. ASSUME NEW w \in Where, Goto(k, w) PROVE th'[k] = w
    BY <1>a, GotoFacts
<1>1. CASE Enter(k)
    BY <1>1, <1>a DEF Enter
<1>2. CASE NewLogClose(k)
    BY <1>2, <1>a DEF NewLogClose
<1>3. CASE NewLogForget(k)
    BY <1>3, <1>a DEF NewLogForget
<1>4. CASE NewLogOpen(k)
    BY <1>4, <1>a DEF NewLogOpen, PlaceInv
<1>5. CASE NewLogBegin(k)
    BY <1>5, <1>a DEF NewLogBegin, PlaceInv
<1>6. CASE EndLogClose(k)
    BY <1>6, <1>a DEF EndLogClose
<1>7. CASE EndLogForget(k)
    BY <1>7, <1>a DEF EndLogForget
<1>8. CASE SessionTest(k)
    BY <1>8, <1>a DEF SessionTest
<1>9. CASE SessionPrint(k)
    BY <1>9, <1>a DEF SessionPrint, PlaceInv
<1>10. CASE ChangeDir(k)
    BY <1>10, <1>a DEF ChangeDir
<1> QED
    BY <1>1, <1>2, <1>3, <1>4, <1>5, <1>6, <1>7, <1>8, <1>9, <1>10

LEMMA LogTypesStep == LogTypes /\ PlaceInv /\ [Next]_vars => LogTypes'
<1> SUFFICES ASSUME LogTypes, PlaceInv, [Next]_vars PROVE LogTypes'
    OBVIOUS
<1>1. ASSUME NEW cmd \in Commands, NEW next \in {"out", "init", "ready", "session"},
             Sends(cmd, next)
      PROVE  LogTypes'
  <2>1. app' = next /\ UNCHANGED <<setup, fplog, logging, fileVars, mon>>
      BY <1>1 DEF Sends, Post
  <2>2. CASE msgs' = Append(msgs, cmd) /\ th' = Append(th, "new") /\ UNCHANGED refused
      BY <2>1, <2>2, PostFacts DEF LogTypes, setup, fileVars
  <2>3. CASE refused' = TRUE /\ UNCHANGED <<msgs, th>>
      BY <2>1, <2>3 DEF LogTypes, setup, fileVars
  <2> QED
      BY <1>1, <2>2, <2>3 DEF Sends, Post
<1>2. ASSUME NEW k \in 1..Len(msgs), Thread(k) PROVE LogTypes'
  <2>1. ThreadMoves(k)
      BY <1>2, ThreadFacts
  <2>2. /\ th' \in Seq(Where) /\ Len(th') = Len(th)
        /\ UNCHANGED <<server, tool, spaced, app, msgs, mon>>
      BY <2>1, GotoFacts DEF ThreadMoves
  <2>3. refused' \in BOOLEAN /\ logging' \in BOOLEAN
      BY <1>2 DEF LogTypes, Thread, Enter, NewLogClose, NewLogForget, NewLogOpen, NewLogBegin,
         EndLogClose, EndLogForget, SessionTest, SessionPrint, ChangeDir, appVars
  <2>4. fplog' \in 0..MaxFiles /\ file' \in [Files -> {"none", "open", "closed"}]
      BY <1>2, LogAssumption, SMTT(30) DEF LogTypes, Thread, Enter, NewLogClose, NewLogForget, NewLogOpen,
         NewLogBegin, EndLogClose, EndLogForget, SessionTest, SessionPrint, ChangeDir, fileVars,
         Close, Files, IsOpen
  <2>5. CASE NewLogBegin(k) \/ SessionPrint(k)
    <3>1. \E text \in Texts : Put("control", text)
        BY <2>5 DEF NewLogBegin, SessionPrint, Texts, LogTypes
    <3> QED
        BY <3>1, <2>2, <2>3, <2>4, PutFacts DEF LogTypes
  <2>6. CASE ~(NewLogBegin(k) \/ SessionPrint(k))
    <3>1. lines' = lines
        BY <1>2, <2>6 DEF Thread, Enter, NewLogClose, NewLogForget, NewLogOpen,
           EndLogClose, EndLogForget, SessionTest, ChangeDir, fileVars
    <3> QED
        BY <3>1, <2>2, <2>3, <2>4 DEF LogTypes
  <2> QED
      BY <2>5, <2>6
<1>3. ASSUME NEW m \in Monitors, MonitorTest(m) PROVE LogTypes'
    BY <1>3 DEF MonitorTest, LogTypes, appVars, setup, fileVars
<1>4. ASSUME NEW m \in Monitors, MonitorWrite(m) PROVE LogTypes'
  <2>1. lines' \in [Files -> Seq(Texts)]
      BY <1>4, PutFacts DEF MonitorWrite, Texts
  <2> QED
      BY <1>4, <2>1 DEF MonitorWrite, LogTypes, appVars, setup
<1>5. CASE UNCHANGED vars
    BY <1>5 DEF vars, LogTypes
<1> QED
    BY <1>1, <1>2, <1>3, <1>4, <1>5, LogCases

LEMMA PlaceStep == LogTypes /\ PlaceInv /\ [Next]_vars => PlaceInv'
<1> SUFFICES ASSUME LogTypes, PlaceInv, [Next]_vars PROVE PlaceInv'
    OBVIOUS
<1>0. Len(th) = Len(msgs) /\ Len(th) \in Nat
    BY LenProperties DEF LogTypes
<1>1. ASSUME NEW cmd \in Commands, NEW next \in {"out", "init", "ready", "session"},
             Sends(cmd, next)
      PROVE  PlaceInv'
  <2>1. CASE msgs' = Append(msgs, cmd) /\ th' = Append(th, "new")
      BY <1>0, <2>1, PostFacts DEF PlaceInv
  <2>2. CASE UNCHANGED <<msgs, th>>
      BY <2>2 DEF PlaceInv
  <2> QED
      BY <1>1, <2>1, <2>2 DEF Sends, Post
<1>2. ASSUME NEW k \in 1..Len(msgs), Thread(k) PROVE PlaceInv'
  <2>1. ThreadMoves(k)
      BY <1>2, ThreadFacts
  <2>2. Len(th') = Len(th) /\ \A j \in 1..Len(th) : j # k => th'[j] = th[j]
      BY <2>1, GotoFacts DEF ThreadMoves
  <2> QED
      BY <2>1, <2>2 DEF ThreadMoves, PlaceInv
<1>3. ASSUME NEW m \in Monitors, MonitorTest(m) \/ MonitorWrite(m) PROVE PlaceInv'
    BY <1>3 DEF MonitorTest, MonitorWrite, PlaceInv, appVars
<1>5. CASE UNCHANGED vars
    BY <1>5 DEF vars, PlaceInv
<1> QED
    BY <1>1, <1>2, <1>3, <1>5, LogCases

-----------------------------------------------------------------------------
(* One thread at a time *)

LEMMA AloneStep == LogTypes /\ PlaceInv /\ AloneInv /\ [Next]_vars => AloneInv'
<1> SUFFICES ASSUME LogTypes, PlaceInv, AloneInv, [Next]_vars PROVE AloneInv'
    OBVIOUS
<1>0. Len(th) = Len(msgs) /\ Len(th) \in Nat
    BY LenProperties DEF LogTypes
<1>1. ASSUME NEW cmd \in Commands, NEW next \in {"out", "init", "ready", "session"},
             Sends(cmd, next)
      PROVE  AloneInv'
  <2>1. app' = next /\ UNCHANGED <<server, spaced, fpMutex>>
      BY <1>1 DEF Sends, Post, setup
  <2>2. spaced => \A j \in 1..Len(th) : Done(j)
      BY <1>0, <1>1 DEF Sends, Handled, AloneInv, Done
  <2>3. CASE msgs' = Append(msgs, cmd) /\ th' = Append(th, "new")
    <3>1. /\ Len(th') = Len(th) + 1
          /\ msgs'[Len(th) + 1] = cmd /\ th'[Len(th) + 1] = "new"
          /\ \A j \in 1..Len(th) : msgs'[j] = msgs[j] /\ th'[j] = th[j]
        BY <1>0, <2>3, PostFacts
    <3>2. spaced => \A j \in 1..Len(th) : Done(j)'
        BY <2>2, <3>1 DEF Done, Chdir
    <3>3. app' = "init" => msgs'[Len(th) + 1] = "CHG_WORKING_DIR"
        BY <1>1, <2>1, <3>1 DEF Sends
    <3>4. \A j \in 1..Len(th') : j \in 1..Len(th) \/ j = Len(th) + 1
        BY <1>0, <3>1
    <3>5. Multi' => \A k \in 1..Len(th') : th'[k] \notin {"new", "done"} => fpMutex' = k
        BY <1>0, <2>1, <3>1, <3>4 DEF AloneInv, Multi
    <3>6. spaced' => \A j, k \in 1..Len(th') : j # k => Done(j)' \/ Done(k)'
        BY <2>1, <3>2, <3>4
    <3>7. (spaced /\ app = "init")' => \A k \in 1..Len(th') : Done(k)'
        BY <2>1, <3>2, <3>3, <3>4 DEF Done, Chdir
    <3> QED
        BY <3>5, <3>6, <3>7 DEF AloneInv
  <2>4. CASE UNCHANGED <<msgs, th>>
      BY <2>1, <2>2, <2>4 DEF AloneInv, Multi, Done, Chdir
  <2> QED
      BY <1>1, <2>3, <2>4 DEF Sends, Post
<1>2. ASSUME NEW k \in 1..Len(msgs), Thread(k) PROVE AloneInv'
  <2>1. ThreadMoves(k)
      BY <1>2, ThreadFacts
  <2>2. Len(th') = Len(th) /\ \A j \in 1..Len(th) : j # k => th'[j] = th[j]
      BY <2>1, GotoFacts DEF ThreadMoves
  <2>3. Multi' => \A j \in 1..Len(th') : th'[j] \notin {"new", "done"} => fpMutex' = j
      BY <1>0, <2>1, <2>2 DEF ThreadMoves, AloneInv, Multi
  <2>4. \A j \in 1..Len(th) : Done(j) => Done(j)'
      BY <2>1, <2>2 DEF ThreadMoves, Done, Chdir
  <2> QED
      BY <2>1, <2>2, <2>3, <2>4 DEF AloneInv, ThreadMoves
<1>3. ASSUME NEW m \in Monitors, MonitorTest(m) \/ MonitorWrite(m) PROVE AloneInv'
    BY <1>3 DEF MonitorTest, MonitorWrite, AloneInv, appVars, setup, Done, Chdir, Multi
<1>5. CASE UNCHANGED vars
    BY <1>5 DEF vars, AloneInv, Done, Chdir, Multi
<1> QED
    BY <1>1, <1>2, <1>3, <1>5, LogCases

-----------------------------------------------------------------------------
(* The open file *)

Quietly == {"new", "switch", "done"}

\* While a thread works on the log the others have not begun or are through.
LEMMA Sole ==
    ASSUME LogTypes, PlaceInv, AloneInv, Exclusive, NEW k \in 1..Len(msgs),
           th[k] \notin {"new", "done"}, ~Chdir(k)
    PROVE  \A j \in 1..Len(th) : j # k => th[j] \in Quietly
<1> SUFFICES ASSUME NEW j \in 1..Len(th), j # k PROVE th[j] \in Quietly
    OBVIOUS
<1>0. Len(th) = Len(msgs) /\ th[j] \in Where
    BY DEF LogTypes
<1>1. CASE Multi
    BY <1>0, <1>1 DEF AloneInv, Quietly
<1>2. CASE spaced
  <2>1. th[j] = "done" \/ Chdir(j)
      BY <1>0, <1>2 DEF AloneInv, Done
  <2> QED
      BY <1>0, <2>1 DEF PlaceInv, Chdir, Quietly, Where
<1> QED
    BY <1>1, <1>2 DEF Exclusive

\* FileInv, as it is when only thread k is at work on the log.
FileAt(k) ==
    /\ th[k] \notin {"forget", "open"} => Clean
    /\ th[k] \in {"forget", "open"} => NoneOpen /\ ~logging
    /\ th[k] = "open" => fplog = 0
    /\ th[k] \in {"begin", "print"} => fplog # 0
    /\ "control" \notin fault

LEMMA FileThread ==
    ASSUME LogTypes, PlaceInv, NEW k \in 1..Len(msgs), Thread(k), FileAt(k),
           ~(Enter(k) \/ ChangeDir(k))
    PROVE  FileAt(k)'
<1>1. fplog \in 0..MaxFiles /\ file \in [Files -> {"none", "open", "closed"}]
    BY DEF LogTypes
<1>2. ASSUME NEW w \in Where, Goto(k, w) PROVE th'[k] = w
    BY <1>2, GotoFacts
<1>3. fplog # 0 => fplog \in Files
    BY <1>1, LogAssumption DEF Files
<1> USE <1>1, <1>2, <1>3 DEF Where
<1>4. CASE NewLogClose(k)
    BY <1>4 DEF NewLogClose, FileAt, Clean, NoneOpen, Close, IsOpen
<1>5. CASE NewLogForget(k)
    BY <1>5 DEF NewLogForget, FileAt, NoneOpen, fileVars
<1>6. CASE NewLogOpen(k)
  <2>1. NoneOpen /\ ~logging /\ fplog = 0 /\ fault' = fault
      BY <1>6 DEF NewLogOpen, FileAt
  <2>2. ASSUME NEW f \in Files, file' = [file EXCEPT ![f] = "open"], fplog' = f,
               Goto(k, "begin"), logging' = logging
        PROVE  FileAt(k)'
      BY <2>1, <2>2, LogAssumption DEF FileAt, Clean, NoneOpen, Files
  <2>3. CASE fplog' = 0 /\ logging' = FALSE /\ Leave(k) /\ UNCHANGED <<file, dir>>
      BY <2>1, <2>3, LogAssumption DEF FileAt, Clean, NoneOpen, Leave, Files
  <2> QED
      BY <1>6, <2>2, <2>3 DEF NewLogOpen
<1>7. CASE NewLogBegin(k)
    BY <1>7, LogAssumption DEF NewLogBegin, FileAt, Clean, Leave, Put, IsOpen, Files
<1>8. CASE EndLogClose(k)
    BY <1>8, SMTT(30) DEF EndLogClose, FileAt, Clean, NoneOpen, Close, IsOpen
<1>9. CASE EndLogForget(k)
    BY <1>9, LogAssumption DEF EndLogForget, FileAt, Clean, NoneOpen, Leave, fileVars, Files
<1>10. CASE SessionTest(k)
    BY <1>10 DEF SessionTest, FileAt, Clean, Leave, fileVars
<1>11. CASE SessionPrint(k)
    BY <1>11, LogAssumption DEF SessionPrint, FileAt, Clean, Leave, Put, IsOpen, Files
<1> QED
    BY <1>4, <1>5, <1>6, <1>7, <1>8, <1>9, <1>10, <1>11 DEF Thread

\* FileInv goes by where the threads are, up to the threads that are quiet.
LEMMA FileQuiet ==
    ASSUME FileInv, AloneInv, UNCHANGED <<server, spaced, fplog, logging, file>>,
           "control" \in fault' => "control" \in fault,
           \A j \in 1..Len(th) : j \in 1..Len(th') /\ (th'[j] = th[j] \/ th[j] \in Quietly),
           \A j \in 1..Len(th') : \/ j \in 1..Len(th) /\ th'[j] = th[j]
                                  \/ th'[j] \in Quietly
    PROVE  FileInv'
<1>1. Exclusive' <=> Exclusive
    BY DEF Exclusive, Multi
<1>2. (Clean' <=> Clean) /\ (NoneOpen' <=> NoneOpen)
    BY DEF Clean, NoneOpen
<1>3. (\A k \in 1..Len(th') : th'[k] \notin {"forget", "open"})
        => \A k \in 1..Len(th) : th[k] \notin {"forget", "open"}
    BY DEF Quietly
<1>4. ASSUME NEW k \in 1..Len(th'), th'[k] \in {"forget", "open", "begin", "print"}
      PROVE  k \in 1..Len(th) /\ th'[k] = th[k]
    BY <1>4 DEF Quietly
<1> QED
    BY <1>1, <1>2, <1>3, <1>4 DEF FileInv

LEMMA FileStep ==
    LogTypes /\ PlaceInv /\ AloneInv /\ FileInv /\ [Next]_vars => FileInv'
<1> SUFFICES ASSUME LogTypes, PlaceInv, AloneInv, FileInv, [Next]_vars PROVE FileInv'
    OBVIOUS
<1>0. Len(th) = Len(msgs) /\ Len(th) \in Nat
    BY LenProperties DEF LogTypes
<1>1. ASSUME NEW cmd \in Commands, NEW next \in {"out", "init", "ready", "session"},
             Sends(cmd, next)
      PROVE  FileInv'
  <2>1. UNCHANGED <<server, spaced, fplog, logging, file, fault>>
      BY <1>1 DEF Sends, Post, setup, fileVars
  <2>2. CASE msgs' = Append(msgs, cmd) /\ th' = Append(th, "new")
      BY <1>0, <2>1, <2>2, PostFacts, FileQuiet DEF Quietly
  <2>3. CASE UNCHANGED <<msgs, th>>
      BY <2>1, <2>3, FileQuiet
  <2> QED
      BY <1>1, <2>2, <2>3 DEF Sends, Post
<1>2. ASSUME NEW k \in 1..Len(msgs), Thread(k) PROVE FileInv'
  <2>1. ThreadMoves(k)
      BY <1>2, ThreadFacts
  <2>2. Len(th') = Len(th) /\ \A j \in 1..Len(th) : j # k => th'[j] = th[j]
      BY <2>1, GotoFacts DEF ThreadMoves
  <2>3. CASE Enter(k) \/ ChangeDir(k)
    <3>1. UNCHANGED <<server, spaced, fplog, logging, file, fault>>
        BY <2>3 DEF Enter, ChangeDir, appVars, setup, fileVars
    <3>2. th[k] \in Quietly /\ th'[k] \in Quietly
        BY <2>3, GotoFacts DEF Enter, ChangeDir, Leave, Quietly, Where
    <3> QED
        BY <2>2, <3>1, <3>2, FileQuiet
  <2>4. CASE ~(Enter(k) \/ ChangeDir(k))
    <3>1. th[k] \notin {"new", "done"} /\ ~Chdir(k)
        BY <1>2, <2>4 DEF Thread, NewLogClose, NewLogForget, NewLogOpen, NewLogBegin, EndLogClose,
           EndLogForget, SessionTest, SessionPrint, PlaceInv, Chdir, LogTypes
    <3> SUFFICES ASSUME Exclusive PROVE FileInv'
        BY <2>1 DEF FileInv, Exclusive, Multi, ThreadMoves
    <3>2. \A j \in 1..Len(th) : j # k => th[j] \in Quietly
        BY <3>1, Sole
    <3>3. FileAt(k)
        BY <1>0, <3>2 DEF FileInv, FileAt, Quietly
    <3>4. FileAt(k)'
        BY <1>2, <2>4, <3>3, FileThread
    <3>5. \A j \in 1..Len(th') : j # k => th'[j] \in Quietly
        BY <2>2, <3>2
    <3> QED
        BY <1>0, <2>2, <3>4, <3>5 DEF FileInv, FileAt, Quietly
  <2> QED
      BY <2>3, <2>4
<1>3. ASSUME NEW m \in Monitors, MonitorTest(m) PROVE FileInv'
    BY <1>3, FileQuiet DEF MonitorTest, appVars, setup, fileVars
<1>4. ASSUME NEW m \in Monitors, MonitorWrite(m) PROVE FileInv'
  <2>1. fault' \subseteq fault \cup {"monitor"}
      BY <1>4, PutFacts DEF MonitorWrite, Texts
  <2> QED
      BY <1>4, <2>1, FileQuiet DEF MonitorWrite, appVars, setup
<1>5. CASE UNCHANGED vars
    BY <1>5, FileQuiet DEF vars
<1> QED
    BY <1>1, <1>2, <1>3, <1>4, <1>5, LogCases

-----------------------------------------------------------------------------
(* The header *)

\* Lines are only added to a file, so what is first stays first.
LEMMA PutFirst ==
    ASSUME LogTypes, NEW who, NEW text \in Texts, Put(who, text)
    PROVE  /\ lines[1] # <<>> => lines'[1] # <<>> /\ lines'[1][1] = lines[1][1]
           /\ IsOpen(fplog) /\ fplog = 1 =>
                 /\ lines'[1] # <<>>
                 /\ lines[1] = <<>> => lines'[1][1] = text
<1>1. 1 \in Files /\ lines[1] \in Seq(Texts)
    BY LogAssumption DEF Files, LogTypes
<1>2. Len(lines[1]) \in Nat /\ (lines[1] # <<>> => Len(lines[1]) > 0)
    BY <1>1, EmptySeq, LenProperties
<1>3. Append(lines[1], text) # <<>>
    BY <1>1, <1>2, AppendProperties
<1>4. lines[1] # <<>> => Append(lines[1], text)[1] = lines[1][1]
    BY <1>1, <1>2, AppendProperties
<1>5. lines[1] = <<>> => Append(lines[1], text)[1] = text
    BY <1>1, AppendProperties, EmptySeq
<1> QED
    BY <1>1, <1>3, <1>4, <1>5, PutFacts

\* A file that some thread opened has its header once no thread is about to
\* write one.
LEMMA Headed ==
    ASSUME LogTypes, PlaceInv, AloneInv, HeaderInv, spaced, ~Multi, NEW k \in 1..Len(msgs),
           th[k] \in {"switch", "forget", "open", "print"}, ~Chdir(k), file[1] # "none"
    PROVE  lines[1] # <<>>
<1>1. \A j \in 1..Len(th) : j # k => th[j] \in Quietly
    BY Sole DEF Exclusive
<1>2. ~ \E j \in 1..Len(th) : th[j] = "begin"
    BY <1>1 DEF Quietly
<1> QED
    BY <1>2 DEF HeaderInv

LEMMA HeaderThread ==
    ASSUME LogTypes, PlaceInv, AloneInv, FileInv, HeaderInv, spaced, ~Multi,
           NEW k \in 1..Len(msgs), Thread(k), ~(Enter(k) \/ ChangeDir(k))
    PROVE  /\ fplog' # 0 => file'[1] # "none"
           /\ file'[1] # "none" /\ lines'[1] = <<>> => th'[k] = "begin" /\ fplog' = 1
           /\ lines'[1] = <<>> => ~logging' /\ \A m \in Monitors : mon[m] = "idle"
           /\ lines'[1] # <<>> => lines'[1][1] = "BEGIN_LOG"
<1>1. 1 \in Files /\ file \in [Files -> {"none", "open", "closed"}] /\ fplog \in 0..MaxFiles
    BY LogAssumption DEF LogTypes, Files
<1>2. /\ fplog # 0 => file[1] # "none"
      /\ lines[1] = <<>> => ~logging /\ \A m \in Monitors : mon[m] = "idle"
      /\ lines[1] # <<>> => lines[1][1] = "BEGIN_LOG"
    BY DEF HeaderInv, BeginFirst
<1>3. Len(th) = Len(msgs) /\ k \in 1..Len(th)
    BY DEF LogTypes
<1>4. CASE NewLogClose(k) \/ NewLogForget(k) \/ EndLogClose(k) \/ EndLogForget(k)
           \/ SessionTest(k)
  <2>1. file[1] # "none" => lines[1] # <<>>
      BY <1>4, Headed DEF NewLogClose, NewLogForget, EndLogClose, EndLogForget, SessionTest, Chdir
  <2>2. lines' = lines /\ (fplog' = fplog \/ fplog' = 0) /\ (logging' => logging)
      BY <1>4 DEF NewLogClose, NewLogForget, EndLogClose, EndLogForget, SessionTest, fileVars
  <2>3. file'[1] = "none" <=> file[1] = "none"
      BY <1>1, <1>4 DEF NewLogClose, NewLogForget, EndLogClose, EndLogForget, SessionTest,
         fileVars, Close, IsOpen
  <2> QED
      BY <1>2, <2>1, <2>2, <2>3
<1>5. CASE NewLogOpen(k)
  <2>1. th[k] = "open" /\ ~Chdir(k) /\ lines' = lines
      BY <1>3, <1>5 DEF NewLogOpen, PlaceInv, Chdir
  <2>2. file[1] # "none" => lines[1] # <<>>
      BY <2>1, Headed
  <2>3. ASSUME NEW f \in Files, file[f] = "none", \A g \in Files : g < f => file[g] # "none",
               file' = [file EXCEPT ![f] = "open"], fplog' = f, Goto(k, "begin"),
               logging' = logging
        PROVE  /\ file'[1] # "none" /\ logging' = logging
               /\ lines[1] = <<>> => th'[k] = "begin" /\ fplog' = 1
    <3>1. th'[k] = "begin"
        BY <2>3, GotoFacts DEF Where
    <3>2. f = 1 \/ 1 < f
        BY DEF Files
    <3> QED
        BY <1>1, <2>2, <2>3, <3>1, <3>2
  <2>4. CASE fplog' = 0 /\ logging' = FALSE /\ Leave(k) /\ UNCHANGED <<file, dir>>
      BY <1>2, <2>1, <2>2, <2>4
  <2>5. CASE \E f \in Files :
                /\ file[f] = "none" /\ \A g \in Files : g < f => file[g] # "none"
                /\ file' = [file EXCEPT ![f] = "open"]
                /\ dir' = [dir EXCEPT ![f] = cwd]
                /\ fplog' = f
                /\ Goto(k, "begin") /\ UNCHANGED <<fpMutex, logging>>
    <3>1. /\ file'[1] # "none" /\ logging' = logging
          /\ lines[1] = <<>> => th'[k] = "begin" /\ fplog' = 1
        BY <2>3, <2>5
    <3> QED
        BY <1>2, <2>1, <3>1
  <2> QED
      BY <1>5, <2>4, <2>5 DEF NewLogOpen
<1>6. CASE NewLogBegin(k)
  <2>1. Put("control", "BEGIN_LOG") /\ "BEGIN_LOG" \in Texts /\ fplog' = fplog /\ file' = file
      BY <1>6 DEF NewLogBegin, Texts
  <2>2. \A j \in 1..Len(th) : j # k => th[j] \in Quietly
      BY <1>3, <1>6, Sole DEF NewLogBegin, PlaceInv, Chdir, Exclusive
  <2>3. Clean /\ fplog # 0
      BY <1>3, <1>6, <2>2 DEF NewLogBegin, FileInv, Exclusive, Quietly
  <2>4. IsOpen(fplog)
      BY <1>1, <2>3, LogAssumption DEF Clean, IsOpen, Files
  <2>5. lines[1] = <<>> => fplog = 1
      BY <1>2, <2>3 DEF HeaderInv
  <2>6. lines'[1] # <<>> /\ lines'[1][1] = "BEGIN_LOG"
      BY <1>2, <2>1, <2>4, <2>5, PutFirst
  <2> QED
      BY <1>2, <2>1, <2>6
<1>7. CASE SessionPrint(k)
  <2>1. Put("control", msgs[k]) /\ msgs[k] \in Texts /\ fplog' = fplog /\ file' = file
      BY <1>7 DEF SessionPrint, Texts, LogTypes
  <2>2. fplog # 0 /\ ~Chdir(k) /\ th[k] = "print"
      BY <1>3, <1>7 DEF SessionPrint, FileInv, Exclusive, PlaceInv, Chdir
  <2>3. lines[1] # <<>>
      BY <1>2, <2>2, Headed
  <2> QED
      BY <1>2, <2>1, <2>3, PutFirst
<1> QED
    BY <1>4, <1>5, <1>6, <1>7 DEF Thread

\* A step that moves no thread into or out of the header.
LEMMA HeaderQuiet ==
    ASSUME HeaderInv, UNCHANGED <<server, spaced, fplog, logging, file>>,
           lines[1] # <<>> => lines'[1] # <<>> /\ lines'[1][1] = lines[1][1],
           lines[1] = <<>> => lines'[1] = <<>> /\ mon' = mon,
           \A j \in 1..Len(th) : th[j] = "begin" => j \in 1..Len(th') /\ th'[j] = "begin"
    PROVE  HeaderInv'
BY DEF HeaderInv, BeginFirst, Multi

LEMMA HeaderStep ==
    LogTypes /\ PlaceInv /\ AloneInv /\ FileInv /\ HeaderInv /\ [Next]_vars => HeaderInv'
<1> SUFFICES ASSUME LogTypes, PlaceInv, AloneInv, FileInv, HeaderInv, [Next]_vars
             PROVE  HeaderInv'
    OBVIOUS
<1>0. Len(th) = Len(msgs) /\ Len(th) \in Nat
    BY LenProperties DEF LogTypes
<1>1. ASSUME NEW cmd \in Commands, NEW next \in {"out", "init", "ready", "session"},
             Sends(cmd, next)
      PROVE  HeaderInv'
  <2>1. UNCHANGED <<server, spaced, fplog, logging, file, lines, mon>>
      BY <1>1 DEF Sends, Post, setup, fileVars
  <2>2. CASE msgs' = Append(msgs, cmd) /\ th' = Append(th, "new")
      BY <1>0, <2>1, <2>2, PostFacts, HeaderQuiet
  <2>3. CASE UNCHANGED <<msgs, th>>
      BY <2>1, <2>3, HeaderQuiet
  <2> QED
      BY <1>1, <2>2, <2>3 DEF Sends, Post
<1>2. ASSUME NEW k \in 1..Len(msgs), Thread(k) PROVE HeaderInv'
  <2>1. ThreadMoves(k)
      BY <1>2, ThreadFacts
  <2>2. Len(th') = Len(th) /\ \A j \in 1..Len(th) : j # k => th'[j] = th[j]
      BY <2>1, GotoFacts DEF ThreadMoves
  <2>3. CASE Enter(k) \/ ChangeDir(k)
    <3>1. UNCHANGED <<server, spaced, fplog, logging, file, lines, mon>> /\ th[k] # "begin"
        BY <2>3 DEF Enter, ChangeDir, appVars, setup, fileVars, monVars
    <3> QED
        BY <2>2, <3>1, HeaderQuiet
  <2>4. CASE ~(Enter(k) \/ ChangeDir(k))
    <3> SUFFICES ASSUME spaced, ~Multi PROVE HeaderInv'
        BY <2>1 DEF HeaderInv, Multi, ThreadMoves
    <3>1. /\ fplog' # 0 => file'[1] # "none"
          /\ file'[1] # "none" /\ lines'[1] = <<>> => th'[k] = "begin" /\ fplog' = 1
          /\ lines'[1] = <<>> => ~logging' /\ \A m \in Monitors : mon[m] = "idle"
          /\ lines'[1] # <<>> => lines'[1][1] = "BEGIN_LOG"
        BY <1>2, <2>4, HeaderThread
    <3>2. k \in 1..Len(th') /\ mon' = mon
        BY <1>0, <2>1, <2>2 DEF ThreadMoves
    <3> QED
        BY <3>1, <3>2 DEF HeaderInv, BeginFirst
  <2> QED
      BY <2>3, <2>4
<1>3. ASSUME NEW m \in Monitors, MonitorTest(m) PROVE HeaderInv'
  <2>1. UNCHANGED <<server, spaced, fplog, logging, file, lines, th>> /\ (Multi \/ logging)
      BY <1>3 DEF MonitorTest, appVars, setup, fileVars
  <2>2. spaced /\ ~Multi => lines[1] # <<>>
      BY <2>1 DEF HeaderInv
  <2> QED
      BY <2>1, <2>2 DEF HeaderInv, BeginFirst, Multi
<1>4. ASSUME NEW m \in Monitors, MonitorWrite(m) PROVE HeaderInv'
  <2>1. UNCHANGED <<server, spaced, fplog, logging, file, th>> /\ mon[m] = "write"
      BY <1>4 DEF MonitorWrite, appVars, setup
  <2>2. spaced /\ ~Multi => lines[1] # <<>>
      BY <2>1 DEF HeaderInv
  <2>3. lines[1] # <<>> => lines'[1] # <<>> /\ lines'[1][1] = lines[1][1]
      BY <1>4, PutFirst DEF MonitorWrite, Texts
  <2> QED
      BY <2>1, <2>2, <2>3 DEF HeaderInv, BeginFirst, Multi
<1>5. CASE UNCHANGED vars
    BY <1>5, HeaderQuiet DEF vars
<1> QED
    BY <1>1, <1>2, <1>3, <1>4, <1>5, LogCases

-----------------------------------------------------------------------------
(* The last message *)

LEMMA LastStep ==
    LogTypes /\ PlaceInv /\ AloneInv /\ LastInv /\ [Next]_vars => LastInv'
<1> SUFFICES ASSUME LogTypes, PlaceInv, AloneInv, LastInv, [Next]_vars, Orderly'
             PROVE  LastInv'
    BY DEF LastInv
<1>0. Len(th) = Len(msgs) /\ Len(msgs) \in Nat
    BY LenProperties DEF LogTypes
<1>1. ASSUME NEW cmd \in Commands, NEW next \in {"out", "init", "ready", "session"},
             Sends(cmd, next)
      PROVE  LastInv'
  <2>1. app' = next /\ msgs' = Append(msgs, cmd) /\ th' = Append(th, "new")
      BY <1>1 DEF Sends, Post, Orderly
  <2>2. <<app, cmd, next>> \in Round /\ spaced
      BY <1>1 DEF Sends, Post, setup, Orderly
  <2>3. \A j \in 1..Len(th) : Done(j)
      BY <1>0, <1>1, <2>2 DEF Sends, Handled, AloneInv, Done
  <2>4. /\ Len(msgs') = Len(msgs) + 1 /\ msgs'[Len(msgs')] = cmd
        /\ \A j \in 1..Len(msgs) : msgs'[j] = msgs[j] /\ th'[j] = th[j]
      BY <2>1, PostFacts
  <2>5. \A j \in 1..(Len(msgs') - 1) : Done(j)'
      BY <1>0, <2>3, <2>4 DEF Done, Chdir
  <2> QED
      BY <1>0, <2>1, <2>2, <2>4, <2>5 DEF LastInv, Round
<1>2. ASSUME NEW k \in 1..Len(msgs), Thread(k) PROVE LastInv'
  <2>1. ThreadMoves(k)
      BY <1>2, ThreadFacts
  <2>2. \A j \in 1..Len(th) : j # k => th'[j] = th[j]
      BY <2>1, GotoFacts DEF ThreadMoves
  <2>3. Orderly /\ UNCHANGED <<app, msgs>>
      BY <2>1 DEF ThreadMoves, Orderly
  <2>4. \A j \in 1..Len(th) : Done(j) => Done(j)'
      BY <2>1, <2>2 DEF ThreadMoves, Done, Chdir
  <2> QED
      BY <1>0, <2>3, <2>4 DEF LastInv
<1>3. ASSUME NEW m \in Monitors, MonitorTest(m) \/ MonitorWrite(m) PROVE LastInv'
    BY <1>3 DEF MonitorTest, MonitorWrite, LastInv, Orderly, appVars, setup, Done, Chdir
<1>5. CASE UNCHANGED vars
    BY <1>5 DEF vars, LastInv, Orderly, Done, Chdir
<1> QED
    BY <1>1, <1>2, <1>3, <1>5, LogCases

-----------------------------------------------------------------------------
(* Counting marks *)

LEMMA MarksNat ==
    ASSUME NEW s, NEW j \in Nat, NEW text
    PROVE  /\ Marks(s, j, text) \in Nat
           /\ IsFiniteSet({i \in 1..j : s[i] = text})
           /\ Marks(<<>>, 0, text) = 0
<1>1. IsFiniteSet(1..j)
    BY FS_Interval
<1>2. IsFiniteSet({i \in 1..j : s[i] = text})
    BY <1>1, FS_Subset
<1>3. {i \in 1..0 : <<>>[i] = text} = {}
    OBVIOUS
<1> QED
    BY <1>2, <1>3, FS_CardinalityType, FS_EmptySet DEF Marks

LEMMA MarksAppend ==
    ASSUME NEW s \in Seq(Texts), NEW x \in Texts, NEW text
    PROVE  /\ \A j \in 0..Len(s) : Marks(Append(s, x), j, text) = Marks(s, j, text)
           /\ Marks(Append(s, x), Len(s) + 1, text)
                = Marks(s, Len(s), text) + (IF x = text THEN 1 ELSE 0)
<1> DEFINE t == Append(s, x)
<1> DEFINE n == Len(s)
<1>1. n \in Nat /\ t[n + 1] = x /\ \A i \in 1..n : t[i] = s[i]
    BY AppendProperties, LenProperties
<1> HIDE DEF t, n
<1>2. ASSUME NEW j \in 0..n PROVE Marks(t, j, text) = Marks(s, j, text)
  <2>1. {i \in 1..j : t[i] = text} = {i \in 1..j : s[i] = text}
      BY <1>1
  <2> QED
      BY <2>1 DEF Marks
<1>3. Marks(t, n, text) = Marks(s, n, text)
    BY <1>1, <1>2
<1>4. Marks(t, n + 1, text) = Marks(t, n, text) + (IF x = text THEN 1 ELSE 0)
  <2> DEFINE A == {i \in 1..n : t[i] = text}
  <2> DEFINE B == {i \in 1..(n + 1) : t[i] = text}
  <2>1. IsFiniteSet(A) /\ Cardinality(A) \in Nat
    <3>1. IsFiniteSet(A)
        BY <1>1, MarksNat
    <3> QED
        BY <3>1, FS_CardinalityType
  <2>2. Marks(t, n, text) = Cardinality(A) /\ Marks(t, n + 1, text) = Cardinality(B)
      BY DEF Marks
  <2>3. CASE x = text
    <3>1. B = A \cup {n + 1} /\ n + 1 \notin A
        BY <1>1, <2>3
    <3> HIDE DEF A, B
    <3> QED
        BY <2>1, <2>2, <2>3, <3>1, FS_AddElement
  <2>4. CASE x # text
    <3>1. B = A
        BY <1>1, <2>4
    <3> HIDE DEF A, B
    <3> QED
        BY <2>1, <2>2, <2>4, <3>1
  <2> QED
      BY <2>3, <2>4
<1>5. Marks(t, n + 1, text) = Marks(s, n, text) + (IF x = text THEN 1 ELSE 0)
    BY <1>3, <1>4
<1> QED
    BY <1>2, <1>5 DEF t, n

Ordered ==
    \A f \in Files : \A j \in 1..Len(lines[f]) :
        Marks(lines[f], j, "END_SESSION") <= Marks(lines[f], j, "NEW_SESSION")

Adds(text, mark) == IF text = mark THEN 1 ELSE 0

\* A print adds to the totals of the current log, and the order of its marks
\* depends on the new totals only.
LEMMA PutMarks ==
    ASSUME LogTypes, NEW who, NEW text \in Texts, Put(who, text), IsOpen(fplog),
           fplog' = fplog
    PROVE  /\ \A mark : Total(fplog, mark)' = Total(fplog, mark) + Adds(text, mark)
           /\ (Total(fplog, "END_SESSION")' <= Total(fplog, "NEW_SESSION")' /\ Ordered)
                 => Ordered'
<1>1. /\ fplog \in Files /\ lines[fplog] \in Seq(Texts)
      /\ lines'[fplog] = Append(lines[fplog], text)
      /\ \A f \in Files : f # fplog => lines'[f] = lines[f]
    BY PutFacts DEF LogTypes
<1>2. Len(lines[fplog]) \in Nat /\ Len(lines'[fplog]) = Len(lines[fplog]) + 1
    BY <1>1, AppendProperties, LenProperties
<1>3. \A mark : Total(fplog, mark)' = Total(fplog, mark) + Adds(text, mark)
  <2> TAKE mark
  <2>1. Marks(Append(lines[fplog], text), Len(lines[fplog]) + 1, mark)
          = Marks(lines[fplog], Len(lines[fplog]), mark) + (IF text = mark THEN 1 ELSE 0)
      BY <1>1, MarksAppend
  <2>2. Total(fplog, mark)'
          = Marks(Append(lines[fplog], text), Len(lines[fplog]) + 1, mark)
      BY <1>1, <1>2 DEF Total
  <2> QED
      BY <2>1, <2>2 DEF Total, Adds
<1>4. ASSUME Total(fplog, "END_SESSION")' <= Total(fplog, "NEW_SESSION")', Ordered,
             NEW f \in Files, NEW j \in 1..Len(lines'[f])
      PROVE  Marks(lines'[f], j, "END_SESSION") <= Marks(lines'[f], j, "NEW_SESSION")
  <2>1. CASE f # fplog
      BY <1>1, <1>4, <2>1 DEF Ordered
  <2>2. CASE f = fplog /\ j \in 1..Len(lines[fplog])
    <3>1. \A mark : Marks(lines'[f], j, mark) = Marks(lines[f], j, mark)
      <4> TAKE mark
      <4>1. \A i \in 0..Len(lines[fplog]) :
                Marks(Append(lines[fplog], text), i, mark) = Marks(lines[fplog], i, mark)
          BY <1>1, MarksAppend, ZenonT(40)
      <4>2. j \in 0..Len(lines[fplog])
          BY <1>2, <2>2
      <4> QED
          BY <1>1, <2>2, <4>1, <4>2
    <3> QED
        BY <1>4, <2>2, <3>1 DEF Ordered
  <2>3. CASE f = fplog /\ j = Len(lines[fplog]) + 1
      BY <1>2, <1>4, <2>3 DEF Total
  <2> QED
      BY <1>2, <2>1, <2>2, <2>3
<1>5. Total(fplog, "END_SESSION")' <= Total(fplog, "NEW_SESSION")' /\ Ordered => Ordered'
    BY <1>4 DEF Ordered
<1> QED
    BY <1>3, <1>5

Unopened == \A f \in Files : file[f] = "none" => lines[f] = <<>>
Balanced ==
    fplog # 0 =>
        Total(fplog, "NEW_SESSION")
          = Total(fplog, "END_SESSION") + (IF InSession THEN 1 ELSE 0)

LEMMA TotalNat ==
    ASSUME LogTypes, NEW f \in Files, NEW mark
    PROVE  Total(f, mark) \in Nat
<1>1. Len(lines[f]) \in Nat
    BY LenProperties DEF LogTypes
<1> QED
    BY <1>1, MarksNat DEF Total

\* A line that is no mark of a session changes nothing that is counted.
LEMMA PutOther ==
    ASSUME LogTypes, NEW who, NEW text \in Texts \ {"NEW_SESSION", "END_SESSION"},
           Put(who, text), fplog' = fplog, Balanced, Ordered, InSession' <=> InSession
    PROVE  Balanced' /\ Ordered'
<1>1. CASE IsOpen(fplog)
  <2>1. fplog \in Files
      BY <1>1, PutFacts
  <2>2. /\ Total(fplog, "NEW_SESSION") \in Nat /\ Total(fplog, "END_SESSION") \in Nat
      BY <2>1, TotalNat
  <2>3. \A mark : Total(fplog, mark)' = Total(fplog, mark) + Adds(text, mark)
      BY <1>1, PutMarks
  <2>4. /\ Total(fplog, "NEW_SESSION")' = Total(fplog, "NEW_SESSION")
        /\ Total(fplog, "END_SESSION")' = Total(fplog, "END_SESSION")
      BY <2>2, <2>3 DEF Adds
  <2>5. fplog # 0
      BY <1>1 DEF IsOpen
  <2>6. Total(fplog, "END_SESSION") <= Total(fplog, "NEW_SESSION")
      BY <2>2, <2>5 DEF Balanced
  <2>7. Ordered'
      BY <1>1, <2>4, <2>6, PutMarks
  <2> QED
      BY <2>4, <2>7 DEF Balanced
<1>2. CASE ~IsOpen(fplog)
  <2>1. lines' = lines
      BY <1>2, PutFacts
  <2> QED
      BY <2>1 DEF Balanced, Ordered, Total, Marks
<1> QED
    BY <1>1, <1>2

\* A step that writes nothing and keeps fplog, or makes it NULL, or makes it a
\* file that was not opened before.
LEMMA SameLines ==
    ASSUME LogTypes, Balanced, Ordered, lines' = lines,
           \/ fplog' = 0
           \/ fplog' = fplog /\ (InSession' <=> InSession)
           \/ fplog' \in Files /\ lines[fplog'] = <<>> /\ ~InSession'
    PROVE  Balanced' /\ Ordered'
<1>1. Ordered'
    BY DEF Ordered, Marks
<1>2. CASE fplog' = 0
    BY <1>1, <1>2 DEF Balanced
<1>3. CASE fplog' = fplog /\ (InSession' <=> InSession)
    BY <1>1, <1>3 DEF Balanced, Total, Marks
<1>4. CASE fplog' \in Files /\ lines[fplog'] = <<>> /\ ~InSession'
  <2>1. \A mark : Total(fplog, mark)' = 0
    <3> TAKE mark
    <3>1. lines'[fplog'] = <<>> /\ Len(<<>>) = 0
        BY <1>4, EmptySeq
    <3>2. Marks(<<>>, 0, mark) = 0
        BY MarksNat
    <3>3. Total(fplog, mark)' = Marks(<<>>, 0, mark)
        BY <3>1 DEF Total, Marks
    <3> QED
        BY <3>2, <3>3
  <2> QED
      BY <1>1, <1>4, <2>1 DEF Balanced
<1> QED
    BY <1>2, <1>3, <1>4

\* A call does not change whether a session is on.
LEMMA SendSession ==
    ASSUME LogTypes, AloneInv, LastInv, Orderly,
           NEW cmd \in Commands, NEW next \in {"out", "init", "ready", "session"},
           Sends(cmd, next), msgs' = Append(msgs, cmd), th' = Append(th, "new")
    PROVE  InSession' <=> InSession
<1>0. Len(th) = Len(msgs) /\ Len(msgs) \in Nat
    BY LenProperties DEF LogTypes
<1>1. <<app, cmd, next>> \in Round /\ (Handled \/ app = "init")
    BY DEF Sends, Orderly
<1>2. /\ Len(msgs') = Len(msgs) + 1
      /\ msgs'[Len(msgs')] = cmd /\ th'[Len(msgs')] = "new"
    BY PostFacts
<1>3. InSession' <=> cmd = "END_SESSION"
    BY <1>0, <1>2 DEF InSession
<1>4. cmd = "END_SESSION" <=> app = "session"
    BY <1>1 DEF Round
<1>5. app = "init" => ~InSession
    BY <1>0 DEF InSession, LastInv
<1>6. Handled => (InSession <=> Len(msgs) > 0 /\ msgs[Len(msgs)] = "NEW_SESSION")
    BY <1>0 DEF InSession, Handled
<1>7. Handled => (InSession <=> app = "session")
    BY <1>0, <1>6 DEF LastInv, LogTypes
<1> QED
    BY <1>1, <1>3, <1>4, <1>5, <1>7

LEMMA MarksThread ==
    ASSUME LogTypes, PlaceInv, AloneInv, FileInv, LastInv, Orderly, Orderly',
           Balanced, Ordered, Unopened,
           NEW k \in 1..Len(msgs), Thread(k)
    PROVE  Balanced' /\ Ordered'
<1>0. Len(th) = Len(msgs) /\ Len(msgs) \in Nat /\ k \in 1..Len(th)
    BY LenProperties DEF LogTypes
<1>1. ThreadMoves(k)
    BY ThreadFacts
<1>2. /\ Len(th') = Len(th) /\ msgs' = msgs
      /\ \A j \in 1..Len(th) : j # k => th'[j] = th[j]
    BY <1>1, GotoFacts DEF ThreadMoves
<1>3. ASSUME NEW w \in Where, Goto(k, w) PROVE th'[k] = w
    BY <1>3, GotoFacts
<1>4. CASE Chdir(k)
  <2>1. InSession' <=> InSession
      BY <1>0, <1>2, <1>4 DEF InSession, Chdir
  <2> QED
      BY <1>1, <1>4, <2>1, SameLines DEF ThreadMoves
<1>5. CASE ~Chdir(k)
  <2>1. k = Len(msgs)
    <3>1. ~Done(k)
        BY <1>1, <1>5 DEF ThreadMoves, Done
    <3> QED
        BY <1>0, <3>1 DEF LastInv
  <2>2. msgs[k] \notin {"NEW_SESSION", "END_SESSION"} => ~InSession /\ ~InSession'
      BY <1>2, <2>1 DEF InSession
  <2>3. th[k] # "done" /\ th'[k] # "done" => (InSession' <=> InSession)
      BY <1>2, <2>1 DEF InSession
  <2>4. CASE Enter(k)
      BY <1>3, <2>3, <2>4, SameLines DEF Enter, Where, fileVars
  <2>5. CASE NewLogClose(k) \/ NewLogForget(k) \/ EndLogClose(k) \/ EndLogForget(k)
      BY <2>2, <2>5, SameLines DEF NewLogClose, NewLogForget, EndLogClose, EndLogForget, fileVars
  <2>6. CASE NewLogOpen(k)
    <3>1. ~InSession' /\ lines' = lines
        BY <1>0, <2>2, <2>6 DEF NewLogOpen, PlaceInv
    <3>2. fplog' = 0 \/ (fplog' \in Files /\ lines[fplog'] = <<>>)
        BY <2>6 DEF NewLogOpen, Unopened
    <3> QED
        BY <3>1, <3>2, SameLines
  <2>7. CASE NewLogBegin(k)
      BY <1>0, <2>2, <2>7, PutOther DEF NewLogBegin, PlaceInv, Texts, Commands
  <2>8. CASE SessionTest(k)
    <3>1. CASE fplog # 0
        BY <1>3, <2>3, <2>8, <3>1, SameLines DEF SessionTest, Where, fileVars
    <3>2. CASE fplog = 0
        BY <2>8, <3>2, SameLines DEF SessionTest, fileVars
    <3> QED
        BY <3>1, <3>2
  <2>9. CASE SessionPrint(k)
    <3>1. /\ th[k] = "print" /\ th'[k] = "done" /\ Put("control", msgs[k]) /\ fplog' = fplog
          /\ msgs[k] \in Texts /\ msgs[k] \in {"NEW_SESSION", "END_SESSION"}
        BY <1>0, <1>3, <2>9 DEF SessionPrint, Leave, Where, PlaceInv, Texts, Commands
    <3>2. /\ InSession <=> msgs[k] = "END_SESSION"
          /\ InSession' <=> msgs[k] = "NEW_SESSION"
        BY <1>0, <1>2, <2>1, <3>1 DEF InSession
    <3>3. fplog # 0 /\ fplog \in Files
        BY <1>0, <3>1 DEF FileInv, Exclusive, Orderly, LogTypes, Files
    <3>4. IsOpen(fplog)
      <4>1. \A j \in 1..Len(th) : j # k => th[j] \in Quietly
          BY <1>5, <3>1, Sole DEF Exclusive, Orderly
      <4>2. Clean
          BY <1>0, <3>1, <4>1 DEF FileInv, Exclusive, Orderly, Quietly
      <4> QED
          BY <3>3, <4>2 DEF Clean, IsOpen
    <3>5. Total(fplog, "NEW_SESSION") \in Nat /\ Total(fplog, "END_SESSION") \in Nat
        BY <3>3, TotalNat
    <3>6. \A mark : Total(fplog, mark)' = Total(fplog, mark) + Adds(msgs[k], mark)
        BY <3>1, <3>4, PutMarks
    <3>7. Total(fplog, "NEW_SESSION")
            = Total(fplog, "END_SESSION") + (IF msgs[k] = "END_SESSION" THEN 1 ELSE 0)
        BY <3>2, <3>3 DEF Balanced
    <3>8. Total(fplog, "NEW_SESSION")'
            = Total(fplog, "END_SESSION")' + (IF msgs[k] = "NEW_SESSION" THEN 1 ELSE 0)
        BY <3>1, <3>5, <3>6, <3>7 DEF Adds
    <3>9. Total(fplog, "END_SESSION")' <= Total(fplog, "NEW_SESSION")'
        BY <3>1, <3>5, <3>6, <3>7 DEF Adds
    <3>10. Ordered'
        BY <3>1, <3>4, <3>9, PutMarks
    <3>11. Balanced'
        BY <3>2, <3>8 DEF Balanced
    <3> QED
        BY <3>10, <3>11
  <2> QED
      BY <1>5, <2>4, <2>5, <2>6, <2>7, <2>8, <2>9 DEF Thread, ChangeDir, Chdir
<1> QED
    BY <1>4, <1>5

LEMMA MarksParts == MarksInv <=> Unopened /\ (Orderly => Balanced /\ Ordered)
BY DEF MarksInv, Unopened, Orderly, Balanced, Ordered, SessionsInOrder

\* Only an open file is written to, and a file that was opened stays so.
LEMMA UnopenedStep == LogTypes /\ PlaceInv /\ Unopened /\ [Next]_vars => Unopened'
<1> SUFFICES ASSUME LogTypes, PlaceInv, Unopened, [Next]_vars PROVE Unopened'
    OBVIOUS
<1>1. ASSUME NEW cmd \in Commands, NEW next \in {"out", "init", "ready", "session"},
             Sends(cmd, next)
      PROVE  Unopened'
    BY <1>1 DEF Sends, Post, fileVars, Unopened
<1>2. ASSUME NEW who, NEW text \in Texts, Put(who, text), file' = file PROVE Unopened'
    BY <1>2, PutFacts DEF Unopened, IsOpen
<1>3. ASSUME lines' = lines, \A f \in Files : file'[f] = "none" => file[f] = "none"
      PROVE  Unopened'
    BY <1>3 DEF Unopened
<1>4. ASSUME NEW k \in 1..Len(msgs), Thread(k) PROVE Unopened'
  <2>1. CASE NewLogBegin(k) \/ SessionPrint(k)
      BY <1>2, <2>1 DEF NewLogBegin, SessionPrint, Texts, LogTypes
  <2>2. CASE ~(NewLogBegin(k) \/ SessionPrint(k))
    <3>1. lines' = lines
        BY <1>4, <2>2 DEF Thread, Enter, NewLogClose, NewLogForget, NewLogOpen,
           EndLogClose, EndLogForget, SessionTest, ChangeDir, fileVars
    <3>2. \A f \in Files : file'[f] = "none" => file[f] = "none"
        BY <1>4, <2>2 DEF Thread, Enter, NewLogClose, NewLogForget, NewLogOpen,
           EndLogClose, EndLogForget, SessionTest, ChangeDir, fileVars, Close, LogTypes
    <3> QED
        BY <1>3, <3>1, <3>2
  <2> QED
      BY <2>1, <2>2
<1>5. ASSUME NEW m \in Monitors, MonitorTest(m) PROVE Unopened'
    BY <1>5 DEF MonitorTest, fileVars, Unopened
<1>6. ASSUME NEW m \in Monitors, MonitorWrite(m) PROVE Unopened'
    BY <1>2, <1>6 DEF MonitorWrite, Texts
<1>7. CASE UNCHANGED vars
    BY <1>7 DEF vars, Unopened
<1> QED
    BY <1>1, <1>4, <1>5, <1>6, <1>7, LogCases

LEMMA MarksStep ==
    LogTypes /\ PlaceInv /\ AloneInv /\ FileInv /\ LastInv /\ MarksInv /\ [Next]_vars => MarksInv'
<1> SUFFICES ASSUME LogTypes, PlaceInv, AloneInv, FileInv, LastInv, MarksInv, [Next]_vars
             PROVE  MarksInv'
    OBVIOUS
<1>1. Unopened /\ (Orderly => Balanced /\ Ordered)
    BY MarksParts
<1>2. Unopened'
    BY <1>1, UnopenedStep
<1>3. MarksInv' <=> Unopened' /\ (Orderly' => Balanced' /\ Ordered')
    BY DEF MarksInv, Unopened, Orderly, Balanced, Ordered, SessionsInOrder
<1> SUFFICES ASSUME Orderly' PROVE Balanced' /\ Ordered'
    BY <1>2, <1>3
<1>4. ASSUME NEW cmd \in Commands, NEW next \in {"out", "init", "ready", "session"},
             Sends(cmd, next)
      PROVE  Balanced' /\ Ordered'
  <2>1. /\ msgs' = Append(msgs, cmd) /\ th' = Append(th, "new") /\ refused' = refused
        /\ UNCHANGED <<tool, spaced, fplog, lines>>
      BY <1>4 DEF Sends, Post, Orderly, setup, fileVars
  <2>2. Orderly
      BY <2>1 DEF Orderly
  <2>3. InSession' <=> InSession
      BY <1>4, <2>1, <2>2, SendSession
  <2> QED
      BY <1>1, <2>1, <2>2, <2>3, SameLines
<1>5. ASSUME NEW k \in 1..Len(msgs), Thread(k) PROVE Balanced' /\ Ordered'
  <2>1. Orderly
      BY <1>5, ThreadFacts DEF ThreadMoves, Orderly
  <2> QED
      BY <1>1, <1>5, <2>1, MarksThread
<1>6. ASSUME NEW m \in Monitors, MonitorTest(m) PROVE Balanced' /\ Ordered'
  <2>1. UNCHANGED <<tool, spaced, refused, fplog, lines, msgs, th>>
      BY <1>6 DEF MonitorTest, appVars, setup, fileVars
  <2>2. Orderly /\ (InSession' <=> InSession)
      BY <2>1 DEF Orderly, InSession
  <2> QED
      BY <1>1, <2>1, <2>2, SameLines
<1>7. ASSUME NEW m \in Monitors, MonitorWrite(m) PROVE Balanced' /\ Ordered'
  <2>1. UNCHANGED <<tool, spaced, refused, fplog, msgs, th>> /\ Put("monitor", "READING")
      BY <1>7 DEF MonitorWrite, appVars, setup
  <2>2. Orderly /\ (InSession' <=> InSession)
      BY <2>1 DEF Orderly, InSession
  <2>3. "READING" \in Texts \ {"NEW_SESSION", "END_SESSION"}
      BY DEF Texts
  <2> QED
      BY <1>1, <2>1, <2>2, <2>3, PutOther
<1>8. CASE UNCHANGED vars
  <2>1. UNCHANGED <<tool, spaced, refused, fplog, lines, msgs, th>>
      BY <1>8 DEF vars
  <2>2. Orderly /\ (InSession' <=> InSession)
      BY <2>1 DEF Orderly, InSession
  <2> QED
      BY <1>1, <2>1, <2>2, SameLines
<1> QED
    BY <1>4, <1>5, <1>6, <1>7, <1>8, LogCases

-----------------------------------------------------------------------------
(* The theorems *)

LEMMA LogInit == Init => LogInv
<1> SUFFICES ASSUME Init PROVE LogInv
    OBVIOUS
<1>0. Len(th) = 0 /\ Len(msgs) = 0 /\ 1 \in Files
    BY EmptySeq, LogAssumption DEF Init, Files
<1>1. LogTypes
    BY LogTypesInit
<1>2. PlaceInv /\ AloneInv /\ LastInv
    BY <1>0 DEF PlaceInv, AloneInv, LastInv, Init
<1>3. FileInv
    BY <1>0, LogAssumption DEF FileInv, Clean, Init, Files
<1>4. HeaderInv
    BY <1>0 DEF HeaderInv, BeginFirst, Init
<1>5. MarksInv
  <2>1. \A f \in Files : lines[f] = <<>> /\ Len(lines[f]) = 0
      BY EmptySeq DEF Init
  <2>2. SessionsInOrder
      BY <2>1 DEF SessionsInOrder
  <2> QED
      BY <2>1, <2>2 DEF MarksInv, Init
<1> QED
    BY <1>1, <1>2, <1>3, <1>4, <1>5 DEF LogInv

\* The inductive invariant of the log control, for every server and caller.
THEOREM LogSafety == Spec => []LogInv
<1>1. Init => LogInv
    BY LogInit
<1>2. LogInv /\ [Next]_vars => LogInv'
    BY LogTypesStep, PlaceStep, AloneStep, FileStep, HeaderStep, LastStep, MarksStep DEF LogInv
<1> QED
    BY <1>1, <1>2, PTL DEF Spec

\* With fp_mutex (multiserver.c), or with time between the calls of fcontrol.c
\* and mcontrol.c, no control thread prints to or closes a FILE that is not
\* open, in whatever order the threads run.
THEOREM ControlUsesOpenFile == Spec => []ControlNoFault
<1>1. LogInv => ControlNoFault
    BY DEF LogInv, FileInv, Exclusive, ControlNoFault
<1> QED
    BY <1>1, LogSafety, PTL

\* Under the same conditions fplog is, between two control messages, the one
\* FILE that is open, or NULL when there is none.
THEOREM NoLogLeaks == Spec => []OneOpenLog
<1>1. LogInv => OneOpenLog
    BY DEF LogInv, FileInv, Exclusive, Clean, OneOpenLog, Inside
<1> QED
    BY <1>1, LogSafety, PTL

\* The monitors of mserver.c write nothing to the first log before its header.
THEOREM HeaderComesFirst == Spec => []BeginFirst
<1>1. LogInv => BeginFirst
    BY DEF LogInv, HeaderInv, BeginFirst
<1> QED
    BY <1>1, LogSafety, PTL

\* The marks that an application's sessions leave in a log are in order, when
\* its calls are spaced and none of its messages is lost.
THEOREM MarksInOrder == Spec => []SessionsInOrder
<1>1. LogInv => SessionsInOrder
    BY DEF LogInv, MarksInv
<1> QED
    BY <1>1, LogSafety, PTL
=============================================================================
