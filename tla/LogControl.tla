----------------------------- MODULE LogControl -----------------------------
(***************************************************************************)
(* The log file of the legacy servers and who touches it.  Control         *)
(* messages come from an application that calls the function-level API     *)
(* (functionAPIs/fcontrol.c, in C or in Fortran) or from the command line  *)
(* tool mcontrol.c.  Each is sent over a connection of its own, without an *)
(* acknowledgement, so each is handled by a client thread of its own       *)
(* (client_req of mserver.c, and its copy in sensor_server.c;              *)
(* client_req_fAPI of multiserver.c) and those threads run in any order.   *)
(* They open, close and mark the file behind the globals fplog and         *)
(* logging, and the monitor threads write readings to the same fplog.      *)
(*                                                                         *)
(* A behaviour is about one server and one kind of caller, chosen in Init. *)
(* multiserver.c holds fp_mutex while a control message is handled, and    *)
(* its monitors test fplog alone; mserver.c has no lock and its monitor    *)
(* also tests logging.  Using a FILE that is closed (or NULL) is           *)
(* undefined in C; the model records who did it in fault.                  *)
(***************************************************************************)
EXTENDS Naturals, Sequences, FiniteSets

CONSTANTS
    Servers,        \* the servers that behaviours are about
    MaxMsgs,        \* bound: control messages sent by mcontrol
    MaxFiles,       \* bound: log files created
    MaxRuns,        \* bound: init .. end rounds of the application
    MaxSessions,    \* bound: sessions the application starts
    MaxReadings,    \* bound: lines written by monitors
    Monitors        \* the monitor threads

ASSUME LogAssumption ==
    /\ Servers \subseteq {"mserver", "multiserver"}
    /\ MaxMsgs \in Nat /\ MaxFiles \in Nat \ {0}
    /\ MaxRuns \in Nat \ {0}
    /\ MaxSessions \in Nat /\ MaxReadings \in Nat

VARIABLES
    server,       \* the server program
    tool,         \* who sends: fcontrol or mcontrol
    spaced,       \* the caller leaves time between two calls
    refused,      \* a connection or a chdir has failed
    app,          \* where the application is in its API calls
    runs, sessions, readings,     \* counted for the bounds
    msgs,         \* the control messages sent, in order
    th,           \* th[k]: where the thread handling msgs[k] is
    fpMutex,      \* the holder of fp_mutex, 0 when it is free
    fplog,        \* the global of that name; 0 is NULL
    logging,
    file,         \* each FILE ever opened: open or closed
    lines,        \* what was written to it
    dir,          \* the directory it was created in
    cwd,          \* the server's working directory
    mon,          \* each monitor: idle, or about to write
    fault         \* who used a FILE that is not open

vars == <<server, tool, spaced, refused, app, runs, sessions, readings, msgs, th, fpMutex, fplog, logging,
          file, lines, dir, cwd, mon, fault>>
setup == <<server, tool, spaced>>
appVars == <<setup, refused, app, runs, sessions, msgs>>
monVars == <<mon, readings>>
fileVars == <<file, lines, dir>>

Commands == {"CHG_WORKING_DIR", "NEW_LOG_FILE", "NEW_SESSION", "END_SESSION",
             "END_LOG_FILE"}
Files == 1..MaxFiles

Multi == server = "multiserver"

Init ==
    /\ server \in Servers
    /\ tool \in {"fcontrol", "mcontrol"}
    /\ spaced \in BOOLEAN
    /\ refused = FALSE
    /\ app = "out" /\ runs = 0 /\ sessions = 0 /\ readings = 0
    /\ msgs = <<>>
    /\ th = <<>>
    /\ fpMutex = 0
    /\ fplog = 0 /\ logging = FALSE
    /\ file = [f \in Files |-> "none"]
    /\ lines = [f \in Files |-> <<>>]
    /\ dir = [f \in Files |-> "none"]
    /\ cwd = "start"
    /\ mon = [m \in Monitors |-> "idle"]
    /\ fault = {}

-----------------------------------------------------------------------------
(* The callers: fcontrol.c and mcontrol.c *)

Handled == \A k \in 1..Len(msgs) : th[k] = "done"
Call == spaced => Handled

\* send_control_msg: a refused connection is reported to no one.
Post(cmd, next) ==
    /\ app' = next
    /\ \/ msgs' = Append(msgs, cmd) /\ th' = Append(th, "new")
          /\ UNCHANGED refused
       \/ refused' = TRUE /\ UNCHANGED <<msgs, th>>
    /\ UNCHANGED <<setup, readings, fpMutex, fplog, logging, fileVars, cwd, mon, fault>>

\* powerpack_fp_init sends two messages one after the other.
FpInit ==
    /\ tool = "fcontrol"
    /\ app = "out" /\ runs < MaxRuns /\ Call
    /\ Post("CHG_WORKING_DIR", "init")
    /\ runs' = runs + 1 /\ UNCHANGED sessions

FpInitLog ==
    /\ app = "init"
    /\ Post("NEW_LOG_FILE", "ready")
    /\ UNCHANGED <<runs, sessions>>

SessionStart ==
    /\ app = "ready" /\ sessions < MaxSessions /\ Call
    /\ Post("NEW_SESSION", "session")
    /\ sessions' = sessions + 1 /\ UNCHANGED runs

SessionEnd ==
    /\ app = "session" /\ Call
    /\ Post("END_SESSION", "ready")
    /\ UNCHANGED <<runs, sessions>>

FpEnd ==
    /\ app = "ready" /\ Call
    /\ Post("END_LOG_FILE", "out")
    /\ UNCHANGED <<runs, sessions>>

\* main of mcontrol.c: each option sends one message, in any order.
Mcontrol(cmd) ==
    /\ tool = "mcontrol" /\ sessions < MaxMsgs /\ Call
    /\ Post(cmd, "out")
    /\ sessions' = sessions + 1 /\ UNCHANGED runs

Application ==
    \/ \E cmd \in Commands : Mcontrol(cmd)
    \/ FpInit \/ FpInitLog \/ SessionStart \/ SessionEnd \/ FpEnd

-----------------------------------------------------------------------------
(* The thread of message k *)

IsOpen(f) == f # 0 /\ file[f] = "open"
Goto(k, where) == th' = [th EXCEPT ![k] = where]

\* Mutant: fp_mutex is kept.
LeaveLocked(k) == Goto(k, "done") /\ UNCHANGED fpMutex

\* The handler is left: fp_mutex is released.
Leave(k) == Goto(k, "done") /\ fpMutex' = 0

Put(who, text) ==
    IF IsOpen(fplog)
    THEN lines' = [lines EXCEPT ![fplog] = Append(@, text)] /\ fault' = fault
    ELSE fault' = fault \cup {who} /\ lines' = lines

\* fclose(fplog)
Close ==
    IF IsOpen(fplog)
    THEN file' = [file EXCEPT ![fplog] = "closed"] /\ fault' = fault
    ELSE fault' = fault \cup {"control"} /\ file' = file

\* Mutant: fp_mutex is not taken.
EnterUnlocked(k) ==
    /\ th[k] = "new"
    /\ Goto(k, "switch")
    /\ UNCHANGED <<appVars, monVars, fpMutex, fplog, logging, fileVars, cwd, fault>>

Enter(k) ==
    /\ th[k] = "new"
    /\ IF Multi THEN fpMutex = 0 /\ fpMutex' = k ELSE UNCHANGED fpMutex
    /\ Goto(k, "switch")
    /\ UNCHANGED <<appVars, monVars, fplog, logging, fileVars, cwd, fault>>

\* Mutant: a log that is open is not closed.
NewLogKeep(k) ==
    /\ th[k] = "switch" /\ msgs[k] = "NEW_LOG_FILE"
    /\ Goto(k, "open")
    /\ UNCHANGED <<appVars, monVars, fpMutex, fplog, logging, fileVars, cwd, fault>>

\* NEW_LOG_FILE: an open log is closed first.
NewLogClose(k) ==
    /\ th[k] = "switch" /\ msgs[k] = "NEW_LOG_FILE"
    /\ IF fplog # 0
       THEN Close /\ logging' = FALSE /\ Goto(k, "forget")
       ELSE Goto(k, "open") /\ UNCHANGED <<file, fault, logging>>
    /\ UNCHANGED <<appVars, monVars, fpMutex, fplog, lines, dir, cwd>>

NewLogForget(k) ==
    /\ th[k] = "forget" /\ msgs[k] = "NEW_LOG_FILE"
    /\ fplog' = 0
    /\ Goto(k, "open")
    /\ UNCHANGED <<appVars, monVars, fpMutex, logging, fileVars, cwd, fault>>

\* fopen creates the file in the working directory of the moment, or fails.
NewLogOpen(k) ==
    /\ th[k] = "open"
    /\ \/ \E f \in Files :
             /\ file[f] = "none" /\ \A g \in Files : g < f => file[g] # "none"
             /\ file' = [file EXCEPT ![f] = "open"]
             /\ dir' = [dir EXCEPT ![f] = cwd]
             /\ fplog' = f
             /\ Goto(k, "begin") /\ UNCHANGED <<fpMutex, logging>>
       \/ fplog' = 0 /\ logging' = FALSE /\ Leave(k) /\ UNCHANGED <<file, dir>>
    /\ UNCHANGED <<appVars, monVars, lines, cwd, fault>>

NewLogBegin(k) ==
    /\ th[k] = "begin"
    /\ Put("control", "BEGIN_LOG")
    /\ logging' = TRUE
    /\ Leave(k)
    /\ UNCHANGED <<appVars, monVars, fplog, file, dir, cwd>>

EndLogClose(k) ==
    /\ th[k] = "switch" /\ msgs[k] = "END_LOG_FILE"
    /\ logging' = FALSE
    /\ IF fplog # 0 THEN Close ELSE UNCHANGED <<file, fault>>
    /\ Goto(k, "forget")
    /\ UNCHANGED <<appVars, monVars, fpMutex, fplog, lines, dir, cwd>>

EndLogForget(k) ==
    /\ th[k] = "forget" /\ msgs[k] = "END_LOG_FILE"
    /\ fplog' = 0
    /\ Leave(k)
    /\ UNCHANGED <<appVars, monVars, logging, fileVars, cwd, fault>>

\* NEW_SESSION and END_SESSION: fplog is tested, then printed to.
SessionTest(k) ==
    /\ th[k] = "switch" /\ msgs[k] \in {"NEW_SESSION", "END_SESSION"}
    /\ IF fplog # 0
       THEN Goto(k, "print") /\ UNCHANGED <<fplog, logging, fpMutex>>
       ELSE fplog' = 0 /\ logging' = FALSE /\ Leave(k)
    /\ UNCHANGED <<appVars, monVars, fileVars, cwd, fault>>

\* Mutant: the two marks are swapped.
SessionPrintSwapped(k) ==
    /\ th[k] = "print"
    /\ Put("control", IF msgs[k] = "NEW_SESSION" THEN "END_SESSION" ELSE "NEW_SESSION")
    /\ Leave(k)
    /\ UNCHANGED <<appVars, monVars, fplog, logging, file, dir, cwd>>

SessionPrint(k) ==
    /\ th[k] = "print"
    /\ Put("control", msgs[k])
    /\ Leave(k)
    /\ UNCHANGED <<appVars, monVars, fplog, logging, file, dir, cwd>>

\* chdir to the directory the application names; the sender never learns of
\* a failure.
ChangeDir(k) ==
    /\ th[k] = "switch" /\ msgs[k] = "CHG_WORKING_DIR"
    /\ \/ cwd' = "powerpack" /\ UNCHANGED refused
       \/ refused' = TRUE /\ UNCHANGED cwd
    /\ Leave(k)
    /\ UNCHANGED <<setup, app, runs, sessions, msgs, monVars, fplog, logging, fileVars, fault>>

Thread(k) ==
    \/ Enter(k) \/ NewLogClose(k) \/ NewLogForget(k) \/ NewLogOpen(k) \/ NewLogBegin(k)
    \/ EndLogClose(k) \/ EndLogForget(k) \/ SessionTest(k) \/ SessionPrint(k)
    \/ ChangeDir(k)

-----------------------------------------------------------------------------
(* The monitors: fplog is tested, then printed to *)

\* Mutant: logging is not tested.
MonitorTestFile(m) ==
    /\ mon[m] = "idle" /\ readings < MaxReadings
    /\ fplog # 0
    /\ mon' = [mon EXCEPT ![m] = "write"]
    /\ readings' = readings + 1
    /\ UNCHANGED <<appVars, th, fpMutex, fplog, logging, fileVars, cwd, fault>>

MonitorTest(m) ==
    /\ mon[m] = "idle" /\ readings < MaxReadings
    /\ fplog # 0 /\ (Multi \/ logging)
    /\ mon' = [mon EXCEPT ![m] = "write"]
    /\ readings' = readings + 1
    /\ UNCHANGED <<appVars, th, fpMutex, fplog, logging, fileVars, cwd, fault>>

MonitorWrite(m) ==
    /\ mon[m] = "write"
    /\ Put("monitor", "READING")
    /\ mon' = [mon EXCEPT ![m] = "idle"]
    /\ UNCHANGED <<appVars, th, readings, fpMutex, fplog, logging, file, dir, cwd>>

Quiet ==
    /\ app = "out" /\ Handled
    /\ runs = MaxRuns \/ tool = "mcontrol"
    /\ \A m \in Monitors : mon[m] = "idle"
    /\ UNCHANGED vars

Next ==
    \/ Application
    \/ \E k \in 1..Len(msgs) : Thread(k)
    \/ \E m \in Monitors : MonitorTest(m) \/ MonitorWrite(m)
    \/ Quiet

Spec == Init /\ [][Next]_vars

\* The operating system goes on running some thread that can run.  The
\* application and the monitors may stop.
FairSpec == Spec /\ WF_vars(\E k \in 1..Len(msgs) : Thread(k))

-----------------------------------------------------------------------------
(* Properties *)

Inside == \E k \in 1..Len(th) : th[k] \notin {"new", "done"}

\* Under fp_mutex, or when the caller leaves time between its calls, no
\* control message makes a thread print to or close a FILE that another thread
\* closed, in whatever order the messages are handled.
ControlNoFault == (Multi \/ spaced) => "control" \notin fault

\* Under the same conditions fplog is, between two control messages, the one
\* open file or NULL: no FILE leaks and no closed FILE stays reachable, and
\* logging is on only with a file.
OneOpenLog ==
    (Multi \/ spaced) /\ ~Inside =>
        /\ \A f \in Files : file[f] = "open" <=> f = fplog
        /\ logging => fplog # 0

\* How often text is among the first j lines of s.
Marks(s, j, text) == Cardinality({i \in 1..j : s[i] = text})

\* When an application leaves time between its calls and every call reaches
\* the server, the end of a session never comes before its start in a log.
SessionsInOrder ==
    (tool = "fcontrol" /\ spaced /\ ~refused) =>
        \A f \in Files : \A j \in 1..Len(lines[f]) :
            Marks(lines[f], j, "END_SESSION") <= Marks(lines[f], j, "NEW_SESSION")

\* The first log of a server whose monitors test logging, and whose caller
\* leaves time between calls, starts with its BEGIN_LOG line: no reading or
\* mark precedes it.
BeginFirst ==
    (spaced /\ ~Multi /\ lines[1] # <<>>) => lines[1][1] = "BEGIN_LOG"

\* Every control message is handled to its end: fp_mutex is released on every
\* path, and no thread waits for it for ever.
AllHandled == []<>Handled
=============================================================================
