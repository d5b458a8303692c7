---------------------------- MODULE SerialMeters ----------------------------
(***************************************************************************)
(* The meter front end (mapi/meter.c) and the four meters on a serial line *)
(* behind it: fluke_189.c, protek_506.c, rs_22812.c and the serial half of *)
(* watts_up.c.  meter_read sends a query if the meter has one, waits in    *)
(* select, lets the meter's read collect an answer and its parse turn it   *)
(* into a value; meter_command, which msend.c calls, sends and reads       *)
(* without select.                                                         *)
(*                                                                         *)
(* The device is external.  Its answer to query q is a sequence of parts   *)
(* that arrive one by one: for the Fluke an acknowledgement line and a     *)
(* data line, for the Protek a text and its carriage return.  The Radio    *)
(* Shack sends packets of nine bytes on its own, and the Watts Up, once    *)
(* asked, sends a record every second, here in two parts, the first with   *)
(* its "#" and the second with its ";".  A value is the number of the      *)
(* query, or of the record, it comes from, and 0 is the 0.0 that           *)
(* meter_read assigns first.  An unassigned variable may hold any of these *)
(* from an earlier call, or something else, which is Junk.                 *)
(***************************************************************************)
EXTENDS Integers, Sequences, Rs22812

CONSTANTS
    Types,          \* the meters that behaviours are about
    Displays,       \* what the Radio Shack can show
    Pieces,         \* how many of its bytes can arrive at once
    MaxReads,       \* bound: calls of meter_read and meter_command
    MaxPackets      \* bound: packets or records a meter sends on its own

Packet == 9
Junk == -1

ASSUME SerialAssumption ==
    /\ Types \subseteq {"wattsup", "fluke189", "protek506", "rs22812"}
    /\ Displays \subseteq Display /\ Pieces \subseteq 1..Packet
    /\ MaxReads \in Nat /\ MaxPackets \in Nat

VARIABLES
    type,        \* the meter
    pc,          \* the caller: init, idle, select, read, parse, returned, exited
    mode,        \* meter_read or meter_command
    maxlines,    \* lines fluke_189_read waits for
    query,       \* calls so far
    buf,         \* what the meter's read has collected
    value, amps, rc,     \* mm.value, its unit, the return code
    unassigned,  \* history: what is parsed, or the value, was never assigned
    asked,       \* device: the parts it has still to answer; Watts Up: that it was asked
    out,         \* device: parts on their way
    line,        \* parts the tty holds
    plugged,
    left,        \* history: how many parts of answers were not waited for
    refused,     \* the device refused a command with its one-line answer
    sent,        \* history: the displays, or the kinds of records, sent
    taken,       \* history: Radio Shack bytes, or Watts Up records, read or flushed
    from         \* history: taken when the last read began

callVars == <<type, mode, maxlines, query>>
mmVars == <<value, amps, rc, unassigned>>
devVars == <<asked, out, plugged, refused, sent>>
vars == <<callVars, pc, buf, mmVars, devVars, line, left, taken, from>>

Init ==
    /\ type \in Types
    /\ pc = "init" /\ mode = "read" /\ maxlines = 1 /\ query = 0
    /\ buf = <<>> /\ value = 0 /\ amps = FALSE /\ rc = 0
    /\ asked = <<>> /\ out = <<>> /\ line = <<>> /\ plugged = TRUE
    /\ unassigned = FALSE /\ left = 0 /\ refused = FALSE
    /\ sent = <<>> /\ taken = 0 /\ from = 0

-----------------------------------------------------------------------------
(* meter.c *)

\* VMIN, how many bytes make the line readable: the two meters that do not
\* assign it keep the tty's 1.
fluke_189_init == 1
rs_22812_init == Packet
protek_506_init == 1
watts_up_init == 1

\* The list of meters.
meters == [wattsup   |-> [query |-> TRUE,  vmin |-> watts_up_init],
           fluke189  |-> [query |-> TRUE,  vmin |-> fluke_189_init],
           protek506 |-> [query |-> TRUE,  vmin |-> protek_506_init],
           rs22812   |-> [query |-> FALSE, vmin |-> rs_22812_init]]

meter_lookup(t) == meters[t]

\* meter_init: open may fail; what the tty holds is flushed.
MeterInit ==
    /\ pc = "init"
    /\ \/ pc' = "exited" /\ UNCHANGED <<line, taken>>
       \/ pc' = "idle" /\ line' = <<>> /\ taken' = taken + Len(line)
    /\ UNCHANGED <<callVars, buf, mmVars, devVars, left, from>>

\* The commands of the Fluke by their first two letters.
get_command(cmd) == IF cmd \in {"QM", "ID", "DS", "SF", "RI"} THEN cmd ELSE "none"

\* "only QM and ID are multiline"
Lines(command) == IF command \in {"ID", "QM"} THEN 2 ELSE 1

\* "#R,W,0;" the first time, and "#L,W,3,E,1,1;", which makes the Watts Up send
\* records from then on.
watts_up_query(asks) == IF Len(asks) = 2 /\ asked = <<>> THEN asks ELSE asked

\* meter->query and meter->send: the Fluke gets a command, the Protek a carriage
\* return.  The Radio Shack is not asked.  Of each part that the device has to
\* answer, more says how many follow it.
Ask(parts) ==
    LET asks == [k \in 1..parts |-> [q |-> query + 1, more |-> parts - k]] IN
    asked' = IF ~plugged \/ ~meter_lookup(type).query THEN asked
             ELSE IF type = "wattsup" THEN watts_up_query(asks) ELSE asked \o asks

\* Mutant: QM is taken for a command with one line of answer.
MeterReadOneLine ==
    /\ pc = "idle" /\ query < MaxReads
    /\ query' = query + 1 /\ mode' = "read"
    /\ value' = 0 /\ maxlines' = 1 /\ buf' = <<>>
    /\ Ask(2)
    /\ pc' = "select" /\ unassigned' = FALSE
    /\ UNCHANGED <<type, amps, rc, out, line, plugged, refused, left, sent, taken, from>>

\* Mutant: QM is taken for a command with three lines of answer.
MeterReadThreeLines ==
    /\ pc = "idle" /\ query < MaxReads
    /\ query' = query + 1 /\ mode' = "read"
    /\ value' = 0 /\ maxlines' = 3 /\ buf' = <<>>
    /\ Ask(2)
    /\ pc' = "select" /\ unassigned' = FALSE
    /\ UNCHANGED <<type, amps, rc, out, line, plugged, refused, left, sent, taken, from>>

\* meter_read up to select: the value is cleared and the query sent.
MeterRead ==
    /\ pc = "idle" /\ query < MaxReads
    /\ query' = query + 1 /\ mode' = "read"
    /\ value' = 0 /\ maxlines' = Lines(get_command("QM")) /\ buf' = <<>>
    /\ Ask(2)
    /\ pc' = "select" /\ unassigned' = FALSE
    /\ UNCHANGED <<type, amps, rc, out, line, plugged, refused, left, sent, taken, from>>

\* The string buffer of msend.c; the command has l characters.
sb_create(size) == [size |-> size, used |-> 0]
sb_cat_str(sb, l) == [size |-> IF sb.used + l >= sb.size THEN 2 * sb.size + l ELSE sb.size,
                      used |-> sb.used + l]

\* It writes len bytes and exits unless one was written.
protek_506_send(len) == IF len = 1 THEN "read" ELSE "exited"

\* meter_command of msend.c, which gives the buffer's size for the length.
MeterCommand ==
    /\ pc = "idle" /\ query < MaxReads
    /\ query' = query + 1 /\ mode' = "command" /\ buf' = <<>>
    /\ \E cmd \in {"ID", "DS", "other"} :
          maxlines' = Lines(get_command(cmd)) /\ Ask(Lines(cmd))
    /\ LET slen == sb_cat_str(sb_create(10), 2).size IN
       pc' = IF type = "protek506" THEN protek_506_send(slen) ELSE "read"
    /\ unassigned' = FALSE
    /\ UNCHANGED <<type, value, amps, rc, out, line, plugged, refused, left, sent, taken, from>>

Gone == ~plugged /\ out = <<>>

\* The two meters that answer each query once.
Asked == type \in {"fluke189", "protek506"}

\* The caller goes on with n parts of an answer that has maxlines of them.
Behind(n) == left' = IF Asked /\ n < maxlines THEN left + maxlines - n ELSE left

\* A hang-up is readable, too.
Readable == Gone \/ Len(line) >= meter_lookup(type).vmin

SelectReady ==
    /\ pc = "select" /\ Readable
    /\ pc' = "read"
    /\ UNCHANGED <<callVars, buf, mmVars, devVars, line, left, taken, from>>

\* "timeout reading meter": the answer may still come.
SelectTimeout ==
    /\ pc = "select" /\ ~Readable
    /\ rc' = 1
    /\ Behind(0)
    /\ pc' = "returned"
    /\ UNCHANGED <<callVars, buf, value, amps, unassigned, devVars, line, taken, from>>

\* The meter's read fails and returns -1, in rs_22812_read also an unassigned
\* number: meter_read looks only for 0 and parses a buffer that nobody assigned.
ReadFails ==
    /\ pc = "read"
    /\ pc' = "parse" /\ unassigned' = TRUE /\ buf' = <<>>
    /\ Behind(Len(buf))
    /\ UNCHANGED <<callVars, value, amps, rc, devVars, line, taken, from>>

\* What an unassigned variable or buffer may yield: a measurement of an earlier
\* call, 0, or something else.
Reading(d) == IF d.neg THEN 0 - Shown(d) ELSE Shown(d)
Earlier == IF type = "rs22812" THEN {Reading(sent[k]) : k \in 1..Len(sent)}
           ELSE 1..(IF type = "wattsup" THEN taken ELSE query - 1)

Guess == /\ unassigned' = TRUE
         /\ \/ rc' = -1 /\ UNCHANGED <<value, amps>>
            \/ rc' = 0 /\ value' \in {Junk, 0} \cup Earlier /\ amps' \in BOOLEAN

Return ==
    /\ pc = "returned"
    /\ pc' = "idle"
    /\ UNCHANGED <<callVars, buf, mmVars, devVars, line, left, taken, from>>

-----------------------------------------------------------------------------
(* fluke_189.c *)

\* fluke_189_read: the loop ends when the lines collected are exactly as many
\* as expected, not when they are at least as many.
FlukeRead(n) ==
    /\ pc = "read" /\ type = "fluke189"
    /\ n \in 1..Len(line)
    /\ buf' = buf \o SubSeq(line, 1, n)
    /\ line' = SubSeq(line, n + 1, Len(line))
    /\ pc' = IF Len(buf') = maxlines THEN "parse" ELSE pc
    /\ UNCHANGED <<callVars, mmVars, devVars, left, taken, from>>

\* A hang-up: read returns 0 and the loop ends with what there is.
FlukeEof ==
    /\ pc = "read" /\ type = "fluke189" /\ line = <<>> /\ Gone
    /\ pc' = "parse"
    /\ UNCHANGED <<callVars, buf, mmVars, devVars, line, left, taken, from>>

DataLine(k) == buf[k].part = "data" /\ \A j \in 1..k-1 : buf[j].part # "data"
Acknowledged == IF buf = <<>> THEN FALSE ELSE buf[1].part # "nak"

\* The status is the number in the first line, which without a line was never
\* assigned.  Without status 0 the caller's buffer is not assigned, and
\* fluke_189_parse looks for a number in as many of its bytes as were read: a
\* refusal alone is too short for one.  With status 0 it scans the first data
\* line for "+" and a number: a negative one is reported by a message and rc 0.
\* A unit other than amps or volts is an error.
FlukeParse ==
    /\ pc = "parse" /\ type = "fluke189"
    /\ IF mode = "command"
       THEN /\ rc' \in IF Acknowledged \/ unassigned THEN {0}
                       ELSE IF buf = <<>> THEN {0, 1} ELSE {1}
            /\ UNCHANGED <<value, amps, unassigned>>
       ELSE \/ /\ ~Acknowledged
               /\ \/ rc' = -1 /\ UNCHANGED <<value, amps, unassigned>>
                  \/ Len(buf) = 1 /\ rc' = 0 /\ UNCHANGED <<value, amps, unassigned>>
                  \/ Len(buf) > 1 /\ Guess
            \/ /\ Acknowledged /\ ~\E k \in 1..Len(buf) : DataLine(k)
               /\ rc' = -1 /\ UNCHANGED <<value, amps, unassigned>>
            \/ /\ Acknowledged /\ UNCHANGED unassigned
               /\ \E k \in 1..Len(buf) :
                     /\ DataLine(k)
                     /\ \/ buf[k].kind = "negative" /\ rc' = 0 /\ UNCHANGED <<value, amps>>
                        \/ buf[k].kind = "ohms" /\ rc' = -1 /\ UNCHANGED <<value, amps>>
                        \/ /\ buf[k].kind \in {"amps", "volts"}
                           /\ rc' = 0 /\ value' = buf[k].q /\ amps' = (buf[k].kind = "amps")
    /\ pc' = "returned"
    /\ UNCHANGED <<callVars, buf, devVars, line, left, taken, from>>

-----------------------------------------------------------------------------
(* protek_506.c *)

\* protek_506_read takes one byte at a time and looks for the carriage return
\* in a buffer it never cleared.
ProtekRead ==
    /\ pc = "read" /\ type = "protek506" /\ line # <<>>
    /\ buf' = Append(buf, Head(line))
    /\ line' = Tail(line)
    /\ IF Head(line).part = "cr"
       THEN pc' = "parse" /\ Behind(Len(buf'))
       ELSE UNCHANGED <<pc, left>>
    /\ UNCHANGED <<callVars, mmVars, devVars, taken, from>>

\* A return that the stack held before makes it stop early: behind the text, or
\* within it, and then the text goes on as the one before did and the rest of it
\* stays in the line, to be read as a text that is no number.
ProtekReadEarly ==
    /\ pc = "read" /\ type = "protek506" /\ line # <<>> /\ Head(line).part = "text"
    /\ pc' = "parse"
    /\ \/ /\ buf' = Append(buf, Head(line)) /\ line' = Tail(line)
          /\ Behind(Len(buf')) /\ UNCHANGED unassigned
       \/ /\ line' = <<[Head(line) EXCEPT !.kind = "words"]>> \o Tail(line)
          /\ Behind(Len(buf)) /\ unassigned' = TRUE /\ UNCHANGED buf
    /\ UNCHANGED <<callVars, value, amps, rc, devVars, taken, from>>

\* After a hang-up read returns 0 for ever, in protek_506_read and in
\* watts_up_read.
Spin ==
    /\ pc = "read" /\ type \in {"protek506", "wattsup"} /\ line = <<>> /\ Gone
    /\ UNCHANGED vars

\* protek_506_parse: a text that is no number, or none, leaves value unassigned,
\* and the unit is never assigned.
ProtekParse ==
    /\ pc = "parse" /\ type = "protek506"
    /\ rc' = 0
    /\ IF ~unassigned /\ buf[1].kind = "number"
       THEN value' = buf[1].q /\ UNCHANGED unassigned
       ELSE value' \in {Junk, 0} \cup Earlier /\ unassigned' = TRUE
    /\ pc' = "returned"
    /\ UNCHANGED <<callVars, buf, amps, devVars, line, left, taken, from>>

-----------------------------------------------------------------------------
(* watts_up.c *)

Ended(parts) == \E k \in 1..Len(parts) : parts[k].part = "tail"

\* watts_up_read takes what is there until it finds a semicolon; what came
\* behind it is dropped.  Its buffer was never cleared either.
WattsRead(n) ==
    /\ pc = "read" /\ type = "wattsup"
    /\ n \in 1..Len(line)
    /\ buf' = buf \o SubSeq(line, 1, n)
    /\ line' = SubSeq(line, n + 1, Len(line))
    /\ \/ pc' = "parse"
       \/ ~Ended(buf') /\ UNCHANGED pc
    /\ UNCHANGED <<callVars, mmVars, devVars, left, taken, from>>

\* The text up to the first semicolon is searched for "#": without one nothing
\* is left, and meter_read reports no data; watts_up_parse wants "#d,".  A text
\* that ended early goes on with what the buffer held.
WattsParse ==
    /\ pc = "parse" /\ type = "wattsup"
    /\ \/ /\ mode = "command"
          /\ rc' = 0 /\ UNCHANGED <<value, amps, unassigned, taken, from>>
       \/ /\ mode = "read" /\ ~Ended(buf)
          /\ Guess /\ UNCHANGED <<taken, from>>
       \/ /\ mode = "read" /\ Ended(buf) /\ buf[1].kind # "data"
          /\ rc' = -1 /\ UNCHANGED <<value, amps, unassigned, taken, from>>
       \/ /\ mode = "read" /\ Ended(buf) /\ buf[1].kind = "data"
          /\ rc' = 0 /\ value' = buf[1].q /\ amps' = FALSE /\ UNCHANGED unassigned
          /\ from' = taken /\ taken' = buf[1].q
    /\ pc' = "returned"
    /\ UNCHANGED <<callVars, buf, devVars, line, left>>

-----------------------------------------------------------------------------
(* rs_22812.c *)

\* rs_22812_read takes every byte that is there and decodes the first nine:
\* bytes of the next packet are dropped with them.  With none, rb is 0.
RsRead ==
    /\ pc = "read" /\ type = "rs22812"
    /\ buf' = line /\ line' = <<>>
    /\ from' = taken /\ taken' = taken + Len(line)
    /\ \/ /\ line = <<>>
          /\ rc' = IF mode = "read" THEN -1 ELSE 0
          /\ pc' = "returned"
       \/ line # <<>> /\ pc' = "parse" /\ UNCHANGED rc
    /\ UNCHANGED <<callVars, value, amps, unassigned, devVars, left>>

\* Fewer than nine bytes are decoded with what lies behind the buffer.
RsParse ==
    /\ pc = "parse" /\ type = "rs22812"
    /\ IF mode = "command" THEN rc' = 0 /\ UNCHANGED <<value, amps, unassigned>>
       ELSE IF Len(buf) < Packet THEN Guess
       ELSE /\ UNCHANGED unassigned
            /\ \E r \in {rs_22812_parse(buf)} :
                  IF r.ok THEN rc' = 0 /\ amps' = r.amps
                               /\ value' = (IF r.neg THEN 0 - r.milli ELSE r.milli)
                  ELSE rc' = -1 /\ UNCHANGED <<value, amps>>
    /\ pc' = "returned"
    /\ UNCHANGED <<callVars, buf, devVars, line, left, taken, from>>

-----------------------------------------------------------------------------
(* The device and its line *)

Part(q, part, kind) == [q |-> q, part |-> part, kind |-> kind]

\* The Fluke answers, or refuses with one line; the Protek sends a text.
Answer ==
    /\ plugged /\ asked # <<>>
    /\ LET a == Head(asked) IN
       \/ /\ type = "fluke189"
          /\ \E kind \in {"amps", "volts", "ohms", "negative"} :
                out' = out \o (<<Part(a.q, "ack", "none")>>
                       \o IF a.more = 1 THEN <<Part(a.q, "data", kind)>> ELSE <<>>)
          /\ UNCHANGED refused
       \/ /\ type = "fluke189"
          /\ out' = Append(out, Part(a.q, "nak", "none"))
          /\ refused' = TRUE
       \/ /\ type = "protek506"
          /\ \E kind \in {"number", "words"} :
                out' = out \o <<Part(a.q, "text", kind), Part(a.q, "cr", "none")>>
          /\ UNCHANGED refused
    /\ asked' = SubSeq(asked, asked[1].more + 2, Len(asked))
    /\ UNCHANGED <<callVars, pc, buf, mmVars, line, plugged, left, sent, taken, from>>

\* The Watts Up sends a record: of data, or an answer to a command.
SendRecord(kind) ==
    /\ plugged /\ type = "wattsup" /\ asked # <<>> /\ Len(sent) < MaxPackets
    /\ out' = out \o <<Part(Len(sent) + 1, "head", kind), Part(Len(sent) + 1, "tail", "none")>>
    /\ sent' = Append(sent, kind)
    /\ UNCHANGED <<callVars, pc, buf, mmVars, asked, line, plugged, left, refused, taken, from>>

SendPacket(d) ==
    /\ plugged /\ type = "rs22812" /\ Len(sent) < MaxPackets
    /\ out' = out \o Encode(d)
    /\ sent' = Append(sent, d)
    /\ UNCHANGED <<callVars, pc, buf, mmVars, asked, line, plugged, left, refused, taken, from>>

Arrive ==
    /\ out # <<>>
    /\ \E n \in IF type = "rs22812" THEN Pieces ELSE {1} :
          /\ n <= Len(out)
          /\ line' = line \o SubSeq(out, 1, n)
          /\ out' = SubSeq(out, n + 1, Len(out))
    /\ UNCHANGED <<callVars, pc, buf, mmVars, asked, plugged, refused, left, sent, taken, from>>

Unplug ==
    /\ plugged
    /\ plugged' = FALSE /\ asked' = <<>> /\ out' = <<>>
    /\ UNCHANGED <<callVars, pc, buf, mmVars, line, refused, left, sent, taken, from>>

-----------------------------------------------------------------------------

Caller == MeterInit \/ MeterRead \/ MeterCommand \/ SelectTimeout \/ ReadFails
Collect == SelectReady \/ (\E n \in 1..Len(line) : FlukeRead(n) \/ WattsRead(n)) \/ FlukeEof
           \/ ProtekRead \/ ProtekReadEarly \/ RsRead
Finish == FlukeParse \/ ProtekParse \/ WattsParse \/ RsParse \/ Return
Reply == Answer \/ \E kind \in {"data", "other"} : SendRecord(kind)
Device == Reply \/ (\E d \in Displays : SendPacket(d)) \/ Arrive \/ Unplug

\* A program that has exited, made its calls, or waits for a line that never
\* comes.
Quiet ==
    /\ pc \in {"exited", "idle", "read"} /\ (pc = "read" => line = <<>>)
    /\ UNCHANGED vars

Next == Caller \/ Collect \/ Finish \/ Spin \/ Device \/ Quiet

Spec == Init /\ [][Next]_vars

\* A program that can read does, a device that was asked answers unless it is
\* unplugged, and what it sent arrives.
FairSpec == Spec /\ WF_vars(Collect) /\ WF_vars(Reply) /\ WF_vars(Arrive)

-----------------------------------------------------------------------------
(* Properties *)

\* What earlier calls left behind bounds how late a reading can be: every part
\* of an answer that a timeout, a failed read or an early end did not wait for
\* makes the answers lag by at most one query, so that with nothing left behind
\* a reading of the Fluke or the Protek is the measurement of its own query and
\* an answer to msend's command is never taken for one.  Values that were never
\* assigned are outside this, and with nothing left behind only an answer of the
\* Protek that is no number makes one.  The Watts Up, which sends on its own, is
\* never read backwards: each reading is of a later record.
AnswersOwnQuery ==
    (pc = "returned" /\ rc = 0 /\ mode = "read") =>
        /\ (Asked /\ ~unassigned) => value \in {0} \cup (query - left)..query
        /\ (Asked /\ unassigned /\ left = 0) =>
              type = "protek506" /\ \E k \in 1..Len(buf) : buf[k].kind = "words"
        /\ (type = "wattsup" /\ ~unassigned) => value > from

\* A reading of the Radio Shack that began at the first byte of a packet is
\* the number the display showed, sign included, and amps only when the
\* display showed amps without a multiplier.
ReadsDisplay ==
    (/\ pc = "returned" /\ rc = 0 /\ mode = "read" /\ type = "rs22812"
     /\ Len(buf) >= Packet /\ from % Packet = 0) =>
        LET d == sent[from \div Packet + 1] IN
        /\ value = Reading(d)
        /\ amps <=> d.flags = 4

\* A read that has begun ends: with an answer, or with the end of the line.
\* Excepted are the cases in which the code waits for ever: what was left
\* behind makes more lines than fluke_189_read expects, a refusal makes
\* fewer, protek_506_read and watts_up_read do not notice a hang-up, and a
\* Watts Up that sends no records is waited for.
ReadEnds ==
    (pc = "read") ~> \/ pc # "read"
                     \/ type = "fluke189" /\ (left > 0 \/ refused)
                     \/ type \in {"protek506", "wattsup"} /\ ~plugged
                     \/ type = "wattsup" /\ (asked = <<>> \/ Len(sent) = MaxPackets)
=============================================================================
