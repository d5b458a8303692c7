------------------------------ MODULE ReadData ------------------------------
(***************************************************************************)
(* How the meter server takes messages off the TCP stream, byte by byte    *)
(* (src/src/socketutils.cpp).  handleClientConnection and handleTag read   *)
(* every field with socketServer::readData, a loop around read();          *)
(* handleSessionStart and handleSessionEnd read their timestamp with one   *)
(* bare read() whose result is ignored.  TCP delivers the bytes in any     *)
(* number of pieces, and the client may be gone at any point.              *)
(*                                                                         *)
(* What is read decides what is read next: a type byte the handler, a size *)
(* the length of the text.  A byte that is not the type the reader takes   *)
(* it for, and a size that is not in place, may have any value.            *)
(***************************************************************************)
EXTENDS Naturals, Sequences, FiniteSets

CONSTANTS
    Fields,      \* the fields the client sends, in order: [is, kind, width]
    Sizes,       \* the values that a size may have when it is not the client's
    SizeWidth,   \* sizeof(size_t)
    TimeWidth,   \* sizeof(uint64_t)
    IntSize      \* sizeof(int): readData's cursor is an int pointer

Kinds == {"START", "TAG", "END"}
Parts == {"type", "size", "text", "time"}
NFields == Len(Fields)
After(is, kind) == CASE is = "type" -> IF kind = "TAG" THEN "size" ELSE "time"
                     [] is = "size" -> "text"
                     [] is = "text" -> "time"
                     [] is = "time" -> "type"

\* sendSessionStart, sendTag and sendSessionEnd: type and time, and in a tag a
\* size and a text of that size between them; nothing after the end.
ASSUME ReadAssumption ==
    /\ Fields \in Seq([is : Parts, kind : Kinds, width : Nat \ {0}]) /\ Fields # <<>>
    /\ Fields[1].is = "type"
    /\ \A k \in 1..NFields :
          /\ Fields[k].is = "type" => Fields[k].width = 1
          /\ Fields[k].is = "size" => Fields[k].width = SizeWidth
          /\ Fields[k].is = "time" => Fields[k].width = TimeWidth
          /\ k = NFields <=> Fields[k].is = "time" /\ Fields[k].kind = "END"
    /\ \A k \in 1..(NFields - 1) :
          /\ Fields[k + 1].is = After(Fields[k].is, Fields[k].kind)
          /\ Fields[k].is # "time" => Fields[k + 1].kind = Fields[k].kind
    /\ Sizes \subseteq Nat
    /\ SizeWidth \in Nat \ {0} /\ TimeWidth \in Nat \ {0} /\ IntSize \in Nat \ {0}

VARIABLES
    avail,       \* bytes that have arrived and were not read
    arrived,     \* bytes of the messages that have arrived
    peer,        \* the client's end: open, closed, or reset
    status,      \* the server: reading, done with the end message, or exited
    replies,     \* handshakes sent
    kind,        \* msgTypeBuffer: the message that is being handled
    is,          \* what is being read
    want,        \* its size: what readData or read was called with
    to_read,     \* readData: bytes still wanted
    tmp,         \* readData: the cursor's offset from buf, in bytes
    buf,         \* memory from buf on: the number of the byte stored, 0 if none
    consumed,    \* bytes read so far
    field,       \* history: the number of this read, at most NFields + 1
    cut          \* history: a size was not in place, or a bare read got too little

streamVars == <<arrived, peer>>
callVars == <<kind, is, want, field>>
vars == <<avail, streamVars, status, replies, callVars, to_read, tmp, buf, consumed, cut>>

Offset[k \in 1..NFields + 1] == IF k = 1 THEN 0 ELSE Offset[k - 1] + Fields[k - 1].width
Total == Offset[NFields + 1]
Smaller(a, b) == IF a < b THEN a ELSE b
Reach == IntSize * Total        \* memory that is looked at
Blank == [a \in 0..Reach |-> 0]
Bare == is = "time" /\ kind # "TAG"

Init ==
    /\ avail = 0 /\ arrived = 0 /\ peer = "open"
    /\ status = "reading" /\ replies = 0
    /\ kind = "unknown" /\ is = "type" /\ want = 1 /\ field = 1
    /\ to_read = 1 /\ tmp = 0 /\ buf = Blank
    /\ consumed = 0 /\ cut = FALSE

-----------------------------------------------------------------------------
(* The client and the network *)

\* The starts up to field k; the client waits for a reply to each.
StartsTo(k) == {j \in 1..k : Fields[j].is = "time" /\ Fields[j].kind = "START"}

Arrive(n) ==
    /\ peer = "open" /\ arrived + n <= Total
    /\ \A k \in StartsTo(NFields) :
          Cardinality(StartsTo(k)) > replies => arrived + n <= Offset[k + 1]
    /\ arrived' = arrived + n
    /\ avail' = avail + n
    /\ UNCHANGED <<peer, status, replies, callVars, to_read, tmp, buf, consumed, cut>>

HangUp ==
    /\ peer = "open"
    /\ peer' \in {"closed", "reset"}
    /\ UNCHANGED <<avail, arrived, status, replies, callVars, to_read, tmp, buf, consumed, cut>>

-----------------------------------------------------------------------------
(* readData *)

\* read(fd, tmp, to_read) returns n bytes and stores them at the cursor.
Fetch(n) ==
    /\ avail' = avail - n
    /\ consumed' = consumed + n
    /\ buf' = [a \in 0..Reach |-> IF a \in tmp..(tmp + n - 1)
                                  THEN want - to_read + (a - tmp) + 1
                                  ELSE buf[a]]

\* Mutant: a short read is taken for the whole field.
ReadPartEnough ==
    LET n == Smaller(avail, to_read) IN
    /\ status = "reading" /\ ~Bare
    /\ n > 0 /\ n < to_read
    /\ Fetch(n)
    /\ to_read' = 0
    /\ tmp' = tmp + IntSize * n
    /\ UNCHANGED <<streamVars, status, replies, callVars, cut>>

\* Mutant: what was read is not subtracted from what is wanted.
ReadPartAgain ==
    LET n == Smaller(avail, to_read) IN
    /\ status = "reading" /\ ~Bare
    /\ n > 0 /\ n < to_read
    /\ Fetch(n)
    /\ tmp' = tmp
    /\ UNCHANGED <<streamVars, status, replies, callVars, to_read, cut>>

\* One turn of readData's do-while that gets bytes but not all it wants.
\* tmp is an int pointer, so adding n moves it by n * sizeof(int) bytes.
ReadPart ==
    LET n == Smaller(avail, to_read) IN
    /\ status = "reading" /\ ~Bare
    /\ n > 0 /\ n < to_read
    /\ Fetch(n)
    /\ to_read' = to_read - n
    /\ tmp' = tmp + IntSize * n
    /\ UNCHANGED <<streamVars, status, replies, callVars, cut>>

\* The last turn: the loop ends with the buffer as it is.
ReadRest ==
    /\ status = "reading" /\ ~Bare
    /\ avail >= to_read /\ to_read > 0
    /\ Fetch(to_read)
    /\ to_read' = 0
    /\ tmp' = tmp + IntSize * to_read
    /\ UNCHANGED <<streamVars, status, replies, callVars, cut>>

\* End of stream: read returns 0, which readData takes for progress.
ReadEof ==
    /\ status = "reading" /\ ~Bare /\ to_read > 0
    /\ avail = 0 /\ peer = "closed"
    /\ UNCHANGED vars

\* After a reset read returns -1, which printError turns into an exit.
ReadReset ==
    /\ status = "reading" /\ ~Bare /\ to_read > 0
    /\ peer = "reset"
    /\ status' = "exited"
    /\ UNCHANGED <<avail, streamVars, replies, callVars, to_read, tmp, buf, consumed, cut>>

-----------------------------------------------------------------------------
(* handleClientConnection and the handlers *)

\* The next read: each has a buffer of its own.
Begin(part, size) ==
    /\ is' = part
    /\ want' = size /\ to_read' = size
    /\ tmp' = 0 /\ buf' = Blank
    /\ field' = Smaller(field + 1, NFields + 1)

Returned(part) == status = "reading" /\ is = part /\ ~Bare /\ to_read = 0

\* The fields of this sort whose last byte is the last one that was read.
EndingHere(part) == {k \in 1..NFields : Fields[k].is = part /\ Offset[k + 1] = consumed}

\* The byte after which handleClientConnection switches.
TypesRead == IF EndingHere("type") # {} THEN {Fields[k].kind : k \in EndingHere("type")}
                                        ELSE Kinds \cup {"unknown"}

HandleType ==
    /\ Returned("type")
    /\ \E k \in TypesRead \ {"unknown"} :
          /\ kind' = k
          /\ IF k = "TAG" THEN Begin("size", SizeWidth) ELSE Begin("time", TimeWidth)
    /\ UNCHANGED <<avail, streamVars, status, replies, consumed, cut>>

UnknownType ==
    /\ Returned("type")
    /\ "unknown" \in TypesRead
    /\ status' = "exited"
    /\ UNCHANGED <<avail, streamVars, replies, callVars, to_read, tmp, buf, consumed, cut>>

\* tagSize is what the client sent if it is in place, and the length of the
\* text that is read next in any case.
InPlace == \A a \in 0..(want - 1) : buf[a] = a + 1
SizesRead == IF InPlace /\ EndingHere("size") # {}
             THEN {Fields[k + 1].width : k \in EndingHere("size")}
             ELSE Sizes

HandleSize ==
    /\ Returned("size")
    /\ \E n \in SizesRead : Begin("text", n)
    /\ cut' = (cut \/ ~InPlace)
    /\ UNCHANGED <<avail, streamVars, status, replies, kind, consumed>>

\* A size for which calloc has no memory: the read into NULL fails.
HandleSizeTooBig ==
    /\ Returned("size")
    /\ ~InPlace \/ EndingHere("size") = {}
    /\ status' = "exited" /\ cut' = TRUE
    /\ UNCHANGED <<avail, streamVars, replies, callVars, to_read, tmp, buf, consumed>>

HandleText ==
    /\ Returned("text")
    /\ Begin("time", TimeWidth)
    /\ UNCHANGED <<avail, streamVars, status, replies, kind, consumed, cut>>

\* The end of handleTag: the tag is recorded and the next type is read.
HandleTagTime ==
    /\ Returned("time")
    /\ Begin("type", 1)
    /\ UNCHANGED <<avail, streamVars, status, replies, kind, consumed, cut>>

\* A bare read(): whatever is there, nothing at the end of the stream or after
\* a reset, and on to the handler; a start is answered, which kills a server whose
\* client is gone (SIGPIPE) or does not, and an end leaves the loop.
BareRead ==
    LET n == Smaller(avail, to_read) IN
    /\ status = "reading" /\ Bare
    /\ n > 0 \/ peer # "open"
    /\ avail' = avail - n /\ consumed' = consumed + n
    /\ cut' = (cut \/ n < want)
    /\ \/ kind = "END" /\ status' = "done" /\ UNCHANGED replies
       \/ kind # "END" /\ replies' = replies + 1 /\ UNCHANGED status
       \/ kind # "END" /\ peer # "open" /\ status' = "exited" /\ UNCHANGED replies
    /\ Begin("type", 1)
    /\ UNCHANGED <<streamVars, kind>>

Quiet == status # "reading" /\ UNCHANGED vars

Reader == ReadPart \/ ReadRest \/ ReadReset \/ HandleType \/ UnknownType \/ HandleSize
          \/ HandleSizeTooBig \/ HandleText \/ HandleTagTime \/ BareRead

Next == (\E n \in 1..Total : Arrive(n)) \/ HangUp \/ Reader \/ ReadEof \/ Quiet

Spec == Init /\ [][Next]_vars

\* The server process runs.
FairSpec == Spec /\ WF_vars(Reader)

-----------------------------------------------------------------------------
(* Properties *)

\* The reader stays in step with the stream however that is cut up: each read
\* starts at the first byte of the field it is meant for and asks for as many
\* bytes as the client sent (readData 39-51, handlers 81-141).  Two things alone
\* put it out of step: a size that was not stored in one piece, and a bare read
\* that got too little.
InStep ==
    (status = "reading" /\ ~cut /\ to_read = want /\ tmp = 0) =>
        /\ field <= NFields
        /\ consumed = Offset[field]
        /\ is = Fields[field].is /\ want = Fields[field].width

\* "stores the data in the given buffer" (socketutils.h:49): when readData is
\* done the bytes are in place and nothing was stored behind the buffer.
StoredInBuffer ==
    status = "reading" /\ ~Bare /\ to_read = 0 =>
        \A a \in 0..Reach : buf[a] = IF a < want THEN a + 1 ELSE 0

\* Messages that arrive in full are read to the end of the last one, unless the
\* reader was put out of step or the connection is reset.
MessageRead == (arrived = Total) ~> (status = "done" \/ cut \/ peer = "reset")
=============================================================================
