------------------------ MODULE SerialMeters_proofs ------------------------
(***************************************************************************)
(* Proofs about the four serial meters, for any number of reads, commands, *)
(* timeouts, failures, records and packets and any sequence of displays: a *)
(* reading of the Fluke or the Protek that was assigned is late by no more *)
(* queries than parts were left behind, the Watts Up is never read         *)
(* backwards, and a reading of the Radio Shack that begins at a packet is  *)
(* what its display showed.                                                *)
(***************************************************************************)
EXTENDS SerialMeters, TLAPS, SequenceTheorems

-----------------------------------------------------------------------------
(* The invariant *)

Parts == [q : Nat,
          part : {"ack", "data", "nak", "text", "cr", "head", "tail"},
          kind : {"none", "amps", "volts", "ohms", "negative", "number", "words",
                  "data", "other"}]
Texts == {p \in Parts : p.part = "cr" \/ (p.part = "text" /\ p.kind \in {"number", "words"})}
Asks == [q : Nat, more : {0, 1}]

SerialTypes ==
    /\ type \in {"wattsup", "fluke189", "protek506", "rs22812"}
    /\ pc \in {"init", "idle", "select", "read", "parse", "returned", "exited"}
    /\ maxlines \in {1, 2} /\ query \in Nat /\ left \in Nat /\ unassigned \in BOOLEAN
    /\ asked \in Seq(Asks)
    /\ type # "rs22812" => /\ buf \in Seq(Parts) /\ line \in Seq(Parts) /\ out \in Seq(Parts)
                           /\ taken \in Nat /\ from \in Nat
    /\ type = "protek506" => buf \in Seq(Texts) /\ line \in Seq(Texts) /\ out \in Seq(Texts)
    /\ type = "wattsup" => sent \in Seq({"data", "other"})

Waiting == pc \in {"select", "read"}
Busy == pc \in {"select", "read", "parse"}

\* A caller that waits has what it read in hand, and its query is the current one.
Held == IF Waiting THEN Len(buf) ELSE 0
Past == IF Waiting THEN query - 1 ELSE query

\* A part of query q at place k of what a meter that answers has still to give:
\* each query after base takes at least one part, so that this one is taken at
\* most lag queries late.
InTime(q, k, base, top, lag) == q <= top /\ (q > base \/ base + k <= q + lag)

\* The parts that were asked for and not yet taken, from the caller's hand to
\* those the device has still to answer, are at most what was left behind and
\* the answer that is waited for; and each of them is in time.
StreamInv ==
    (Asked /\ pc # "exited") =>
        /\ ~plugged \/ pc = "init" => asked = <<>> /\ out = <<>>
        /\ pc = "init" => line = <<>>
        /\ pc = "select" => buf = <<>>
        /\ Waiting => \A k \in 1..Len(buf) : InTime(buf[k].q, k, Past, query, left)
        /\ \A k \in 1..Len(line) : InTime(line[k].q, Held + k, Past, query, left)
        /\ \A k \in 1..Len(out) : InTime(out[k].q, Held + Len(line) + k, Past, query, left)
        /\ \A k \in 1..Len(asked) :
              /\ InTime(asked[k].q, Held + Len(line) + Len(out) + k, Past, query, left)
              /\ asked[k].more = 1 => k < Len(asked) /\ asked[k + 1].q = asked[k].q
              /\ type = "protek506" => asked[k].more = IF k = 1 THEN 1 ELSE 1 - asked[k - 1].more
        /\ Held + Len(line) + Len(out) + Len(asked) <= left + (IF Waiting THEN maxlines ELSE 0)
        /\ pc = "parse" => \A k \in 1..Len(buf) : buf[k].q \in (query - left)..query

\* With nothing left behind, a caller that waits has only its own answer to read:
\* a refusal has nothing before or behind it, and a text is followed by its return.
Single == Len(buf) + Len(line) + Len(out) + Len(asked) = 1
OnlyInv ==
    (Asked /\ Waiting /\ left = 0) =>
        /\ Len(buf) < maxlines
        /\ asked # <<>> => Len(asked) = maxlines /\ asked[1].more = maxlines - 1
        /\ type = "fluke189" =>
              /\ \A k \in 1..Len(buf) : buf[k].part = "nak" => Single
              /\ \A k \in 1..Len(line) : line[k].part = "nak" => Single
              /\ \A k \in 1..Len(out) : out[k].part = "nak" => Single
        /\ type = "protek506" =>
              /\ maxlines = 2
              /\ \A k \in 1..Len(buf) : buf[k].part = "cr" <=> k = 2
              /\ \A k \in 1..Len(line) : line[k].part = "cr" <=> Len(buf) + k = 2
              /\ \A k \in 1..Len(out) : out[k].part = "cr" <=> Len(buf) + Len(line) + k = 2

\* What is parsed, with nothing left behind, was read, is not part of a refusal
\* and more, and of the Protek begins with its text.
ParseInv ==
    (Asked /\ pc = "parse") =>
        /\ (type = "protek506" /\ ~unassigned) => buf # <<>>
        /\ left = 0 =>
              /\ ~unassigned
              /\ (type = "fluke189" /\ Len(buf) > 1) => buf[1].part # "nak"
              /\ type = "protek506" => buf[1].part = "text"

\* The place of a part in the stream of the Watts Up's records.
Pos(p) == IF p.part = "head" THEN 2 * p.q - 1 ELSE 2 * p.q

Record(p) == p.part \in {"head", "tail"} /\ (p.kind = "data" => p.part = "head")

\* The parts of s are in order, after the record read last.
InOrder(s) ==
    /\ \A k \in 1..Len(s) : Record(s[k]) /\ Pos(s[k]) > 2 * taken /\ Pos(s[k]) <= 2 * Len(sent)
    /\ \A j, k \in 1..Len(s) : j < k => Pos(s[j]) < Pos(s[k])

Before(s, t) == \A j \in 1..Len(s), k \in 1..Len(t) : Pos(s[j]) < Pos(t[k])

RecordInv ==
    type = "wattsup" =>
        /\ pc = "init" => asked = <<>> /\ line = <<>> /\ out = <<>>
        /\ taken <= Len(sent)
        /\ InOrder(line) /\ InOrder(out) /\ Before(line, out)
        /\ Busy => InOrder(buf) /\ Before(buf, line) /\ Before(buf, out)

\* The value is cleared before a query and assigned after it.
ValueInv ==
    /\ Waiting => ~unassigned
    /\ mode = "read" =>
        /\ Busy => value = 0
        /\ (pc = "returned" /\ rc = 0) =>
            /\ (Asked /\ ~unassigned) => value \in {0} \cup (query - left)..query
            /\ (Asked /\ unassigned /\ left = 0) =>
                  type = "protek506" /\ \E k \in 1..Len(buf) : buf[k].kind = "words"
            /\ (type = "wattsup" /\ ~unassigned) => value > from

OwnInv == SerialTypes /\ StreamInv /\ OnlyInv /\ ParseInv /\ RecordInv /\ ValueInv


\* The byte at place k of the packets that show the displays s.
ByteOf(s, k) == Encode(s[(k - 1) \div Packet + 1])[((k - 1) % Packet) + 1]

\* What the line, the wire and the buffer hold is what was sent, byte for byte.
FrameInv ==
    type = "rs22812" =>
        /\ asked = <<>> /\ sent \in Seq(Displays)
        /\ buf \in Seq(Nat) /\ line \in Seq(Nat) /\ out \in Seq(Nat)
        /\ taken \in Nat /\ from \in Nat
        /\ taken + Len(line) + Len(out) <= Packet * Len(sent)
        /\ plugged => taken + Len(line) + Len(out) = Packet * Len(sent)
        /\ \A j \in 1..Len(line) : line[j] = ByteOf(sent, taken + j)
        /\ \A j \in 1..Len(out) : out[j] = ByteOf(sent, taken + Len(line) + j)
        /\ from <= taken
        /\ pc \in {"select", "read"} => buf = <<>>
        /\ pc \in {"parse", "returned"} =>
              /\ from + Len(buf) <= Packet * Len(sent)
              /\ \A j \in 1..Len(buf) : buf[j] = ByteOf(sent, from + j)

-----------------------------------------------------------------------------
(* Sequences *)

\* What taking the first n elements of t to the end of s gives.
LEMMA Moved ==
    ASSUME NEW S, NEW s \in Seq(S), NEW t \in Seq(S), NEW n \in Nat, n <= Len(t)
    PROVE  /\ s \o SubSeq(t, 1, n) \in Seq(S) /\ SubSeq(t, n + 1, Len(t)) \in Seq(S)
           /\ Len(s) \in Nat /\ Len(t) \in Nat
           /\ Len(s \o SubSeq(t, 1, n)) = Len(s) + n
           /\ Len(SubSeq(t, n + 1, Len(t))) = Len(t) - n
           /\ \A k \in 1..Len(s) : (s \o SubSeq(t, 1, n))[k] = s[k]
           /\ \A k \in 1..n : (s \o SubSeq(t, 1, n))[Len(s) + k] = t[k]
           /\ \A k \in 1..(Len(t) - n) : SubSeq(t, n + 1, Len(t))[k] = t[n + k]
<1>1. Len(s) \in Nat /\ Len(t) \in Nat
    BY LenProperties
<1>2. /\ SubSeq(t, 1, n) \in Seq(S)
      /\ Len(SubSeq(t, 1, n)) = n
      /\ \A k \in 1..n : SubSeq(t, 1, n)[k] = t[k]
  <2>1. \A k \in 1..n : t[k] \in S
      BY <1>1, ElementOfSeq
  <2>2. 1 \in Int /\ n \in Int
      OBVIOUS
  <2>3. /\ SubSeq(t, 1, n) \in Seq(S)
        /\ Len(SubSeq(t, 1, n)) = IF 1 <= n THEN n - 1 + 1 ELSE 0
        /\ \A k \in 1..n-1+1 : SubSeq(t, 1, n)[k] = t[1 + k - 1]
      BY <2>1, <2>2, SubSeqProperties, Z3
  <2> QED
      BY <2>3
<1>3. /\ SubSeq(t, n + 1, Len(t)) \in Seq(S)
      /\ Len(SubSeq(t, n + 1, Len(t))) = Len(t) - n
      /\ \A k \in 1..(Len(t) - n) : SubSeq(t, n + 1, Len(t))[k] = t[n + k]
  <2>1. n + 1 \in Int
      OBVIOUS
  <2>2. \A k \in n + 1..Len(t) : t[k] \in S
      BY <1>1, ElementOfSeq
  <2>3. /\ SubSeq(t, n + 1, Len(t)) \in Seq(S)
        /\ Len(SubSeq(t, n + 1, Len(t))) = IF n + 1 <= Len(t) THEN Len(t) - (n + 1) + 1 ELSE 0
        /\ \A k \in 1..(Len(t) - (n + 1) + 1) :
              SubSeq(t, n + 1, Len(t))[k] = t[(n + 1) + k - 1]
      BY <1>1, <2>1, <2>2, SubSeqProperties, Z3
  <2>4. \A k \in 1..(Len(t) - n) : t[(n + 1) + k - 1] = t[n + k]
      BY <1>1
  <2> QED
      BY <1>1, <2>3, <2>4
<1> DEFINE head == SubSeq(t, 1, n)
<1> HIDE DEF head
<1>4. head \in Seq(S) /\ Len(head) = n /\ \A k \in 1..n : head[k] = t[k]
    BY <1>2 DEF head
<1>5. /\ s \o head \in Seq(S) /\ Len(s \o head) = Len(s) + Len(head)
      /\ \A k \in 1..Len(s) + Len(head) :
            (s \o head)[k] = IF k <= Len(s) THEN s[k] ELSE head[k - Len(s)]
    BY <1>4, ConcatProperties
<1>6. \A k \in 1..n : Len(s) + k \in 1..Len(s) + Len(head) /\ ~(Len(s) + k <= Len(s))
                      /\ (Len(s) + k) - Len(s) = k
    BY <1>1, <1>4
<1>7. \A k \in 1..Len(s) : k \in 1..Len(s) + Len(head) /\ k <= Len(s)
    BY <1>1, <1>4
<1>8. /\ s \o head \in Seq(S) /\ Len(s \o head) = Len(s) + n
      /\ \A k \in 1..Len(s) : (s \o head)[k] = s[k]
      /\ \A k \in 1..n : (s \o head)[Len(s) + k] = t[k]
    BY <1>4, <1>5, <1>6, <1>7
<1> QED
    BY <1>1, <1>3, <1>8 DEF head

LEMMA MetersAre ==
    /\ meter_lookup("rs22812").query = FALSE /\ meter_lookup("wattsup").query = TRUE
    /\ meter_lookup("fluke189").query = TRUE /\ meter_lookup("protek506").query = TRUE
    /\ meter_lookup("rs22812").vmin = Packet
BY DEF meter_lookup, meters, rs_22812_init

-----------------------------------------------------------------------------
(* The meters that are asked: the invariant step by step *)

LEMMA PartNumber == ASSUME NEW s \in Seq(Parts) PROVE \A k \in 1..Len(s) : s[k] \in Parts /\ s[k].q \in Nat
<1>1. \A k \in 1..Len(s) : s[k] \in Parts
    BY ElementOfSeq
<1>2. \A p \in Parts : p.q \in Nat
    BY DEF Parts
<1> QED
    BY <1>1, <1>2

LEMMA AskNumber ==
    ASSUME NEW s \in Seq(Asks) PROVE \A k \in 1..Len(s) : s[k].q \in Nat /\ s[k].more \in {0, 1}
<1>1. \A k \in 1..Len(s) : s[k] \in Asks
    BY ElementOfSeq
<1>2. \A p \in Asks : p.q \in Nat /\ p.more \in {0, 1}
    BY DEF Asks
<1> QED
    BY <1>1, <1>2

\* What a query leaves for the device.
LEMMA AskIs ==
    ASSUME SerialTypes, NEW parts \in {1, 2}, Ask(parts)
    PROVE  /\ asked' \in Seq(Asks)
           /\ \/ asked' = asked
              \/ type = "wattsup"
              \/ /\ Asked /\ plugged
                 /\ Len(asked') = Len(asked) + parts
                 /\ \A k \in 1..Len(asked) : asked'[k] = asked[k]
                 /\ \A k \in 1..parts : /\ asked'[Len(asked) + k].q = query + 1
                                        /\ asked'[Len(asked) + k].more = parts - k
<1> DEFINE asks == [k \in 1..parts |-> [q |-> query + 1, more |-> parts - k]]
<1>1. asked \in Seq(Asks) /\ query \in Nat
    BY DEF SerialTypes
<1>2. \A k \in 1..parts : asks[k] \in Asks
    BY <1>1 DEF Asks
<1>3. /\ \A k \in 1..parts : asks[k].q = query + 1 /\ asks[k].more = parts - k
      /\ asks = [k \in 1..parts |-> asks[k]]
    OBVIOUS
<1>4. \/ asked' = asked
      \/ type = "wattsup" /\ (asked' = asked \/ asked' = asks)
      \/ plugged /\ type # "rs22812" /\ type # "wattsup" /\ asked' = asked \o asks
    BY MetersAre DEF Ask, watts_up_query
<1> HIDE DEF asks
<1>5. asks \in Seq(Asks) /\ Len(asks) = parts
  <2>1. asks \in [1..parts -> Asks] /\ parts \in Nat
      BY <1>2, <1>3
  <2> QED
      BY <2>1, SeqDef, LenProperties
<1>6. /\ asked \o asks \in Seq(Asks) /\ Len(asked \o asks) = Len(asked) + Len(asks)
      /\ Len(asked) \in Nat
      /\ \A k \in 1..Len(asked) + Len(asks) :
            (asked \o asks)[k] = IF k <= Len(asked) THEN asked[k] ELSE asks[k - Len(asked)]
    BY <1>1, <1>5, ConcatProperties, LenProperties
<1>7. ASSUME plugged, type # "rs22812", type # "wattsup", asked' = asked \o asks
      PROVE  /\ Asked /\ Len(asked') = Len(asked) + parts
             /\ \A k \in 1..Len(asked) : asked'[k] = asked[k]
             /\ \A k \in 1..parts : /\ asked'[Len(asked) + k].q = query + 1
                                    /\ asked'[Len(asked) + k].more = parts - k
  <2>1. Asked
      BY <1>7 DEF SerialTypes, Asked
  <2>2. \A k \in 1..Len(asked) : asked'[k] = asked[k]
      BY <1>5, <1>6, <1>7
  <2>3. \A k \in 1..parts : asked'[Len(asked) + k] = asks[k]
    <3> TAKE k \in 1..parts
    <3>1. /\ Len(asked) + k \in 1..Len(asked) + Len(asks) /\ ~(Len(asked) + k <= Len(asked))
          /\ (Len(asked) + k) - Len(asked) = k
        BY <1>5, <1>6
    <3> QED
        BY <1>6, <1>7, <3>1
  <2> QED
      BY <1>3, <1>5, <1>6, <1>7, <2>1, <2>2, <2>3
<1> QED
    BY <1>1, <1>4, <1>5, <1>6, <1>7

\* A query, of meter_read or of msend, when the line is as the caller left it.
LEMMA QueryStep ==
    ASSUME OwnInv, pc = "idle", query' = query + 1, mode' \in {"read", "command"},
           mode' = "read" => value' = 0, unassigned' = FALSE,
           NEW parts \in {1, 2}, maxlines' = parts, buf' = <<>>, Ask(parts),
           pc' \in {"select", "read", "exited"},
           type = "protek506" => pc' = "exited" \/ parts = 2,
           UNCHANGED <<type, out, line, plugged, left, sent, taken, from>>
    PROVE  OwnInv'
<1>1. /\ asked' \in Seq(Asks)
      /\ \/ asked' = asked
         \/ type = "wattsup"
         \/ /\ Asked /\ plugged
            /\ Len(asked') = Len(asked) + parts
            /\ \A k \in 1..Len(asked) : asked'[k] = asked[k]
            /\ \A k \in 1..parts : /\ asked'[Len(asked) + k].q = query + 1
                                   /\ asked'[Len(asked) + k].more = parts - k
    BY AskIs DEF OwnInv
<1>2. buf' \in Seq(Parts) /\ buf' \in Seq(Texts) /\ Len(buf') = 0
    BY EmptySeq
<1>3. SerialTypes'
  <2>1. unassigned' \in BOOLEAN
      OBVIOUS
  <2>2. maxlines' \in {1, 2} /\ query' \in Nat
      BY DEF OwnInv, SerialTypes
  <2> QED
      BY <1>1, <1>2, <2>1, <2>2 DEF OwnInv, SerialTypes
<1>4. RecordInv' /\ ValueInv' /\ ParseInv'
  <2>1. RecordInv'
      BY <1>2 DEF OwnInv, RecordInv, InOrder, Before
  <2>2. ValueInv' /\ ParseInv'
      BY DEF ValueInv, ParseInv, Busy, Waiting
  <2> QED
      BY <2>1, <2>2
<1>5. CASE ~Asked \/ pc' = "exited"
  <2>1. StreamInv' /\ OnlyInv'
      BY <1>5 DEF StreamInv, OnlyInv, Asked, Waiting
  <2> QED
      BY <1>3, <1>4, <2>1 DEF OwnInv
<1>6. CASE Asked /\ pc' # "exited"
  <2> DEFINE n == Len(line) + Len(out)
  <2>1. /\ query \in Nat /\ left \in Nat /\ asked \in Seq(Asks)
        /\ Len(line) \in Nat /\ Len(out) \in Nat /\ Len(asked) \in Nat /\ Len(asked') \in Nat
        /\ line \in Seq(Parts) /\ out \in Seq(Parts)
    <3>1. /\ query \in Nat /\ left \in Nat /\ asked \in Seq(Asks)
          /\ line \in Seq(Parts) /\ out \in Seq(Parts)
        BY <1>6 DEF OwnInv, SerialTypes, Asked
    <3> QED
        BY <1>1, <3>1, LenProperties
  <2>2. Waiting' /\ Held' = 0 /\ Past' = query /\ Held = 0 /\ Past = query /\ ~Waiting
      BY <1>2, <1>6, <2>1 DEF Held, Past, Waiting
  <2>3. /\ ~plugged => asked = <<>> /\ out = <<>>
        /\ \A k \in 1..Len(line) : InTime(line[k].q, k, query, query, left)
        /\ \A k \in 1..Len(out) : InTime(out[k].q, Len(line) + k, query, query, left)
        /\ \A k \in 1..Len(asked) :
              /\ InTime(asked[k].q, n + k, query, query, left)
              /\ asked[k].more = 1 => k < Len(asked) /\ asked[k + 1].q = asked[k].q
              /\ type = "protek506" => asked[k].more = IF k = 1 THEN 1 ELSE 1 - asked[k - 1].more
        /\ n + Len(asked) <= left
    <3>1. pc # "exited" /\ pc # "parse"
        OBVIOUS
    <3>2. StreamInv
        BY DEF OwnInv
    <3> QED
        BY <1>6, <2>1, <2>2, <3>1, <3>2 DEF StreamInv
  <2>4. \A q, k \in Int : InTime(q, k, query, query, left) => InTime(q, k, query, query + 1, left)
      BY <2>1 DEF InTime
  <2>5. CASE asked' = asked
    <3>1. \A k \in 1..Len(line) : line[k].q \in Int
        BY <2>1, PartNumber, SMTT(30)
    <3>2. \A k \in 1..Len(out) : out[k].q \in Int
        BY <2>1, PartNumber, SMTT(30)
    <3>3. \A k \in 1..Len(asked) : asked[k].q \in Int
        BY <2>1, AskNumber
    <3>4. /\ \A k \in 1..Len(line) : InTime(line[k].q, k, query, query + 1, left)
          /\ \A k \in 1..Len(out) : InTime(out[k].q, Len(line) + k, query, query + 1, left)
          /\ \A k \in 1..Len(asked) : InTime(asked[k].q, n + k, query, query + 1, left)
      <4>1. \A k \in 1..Len(line) : k \in Int /\ InTime(line[k].q, k, query, query, left)
          BY <2>1, <2>3
      <4>2. \A k \in 1..Len(out) : /\ Len(line) + k \in Int
                                   /\ InTime(out[k].q, Len(line) + k, query, query, left)
          BY <2>1, <2>3
      <4>3. \A k \in 1..Len(asked) : n + k \in Int /\ InTime(asked[k].q, n + k, query, query, left)
        <5>1. \A k \in 1..Len(asked) : n + k \in Int
            BY <2>1
        <5> QED
            BY <2>3, <5>1
      <4> QED
          BY <2>4, <3>1, <3>2, <3>3, <4>1, <4>2, <4>3, Zenon
    <3>5. n + Len(asked) <= left + parts
        BY <2>1, <2>3
    <3>6. StreamInv'
      <4>1. /\ type' = type /\ line' = line /\ out' = out /\ left' = left /\ plugged' = plugged
            /\ query' = query + 1 /\ maxlines' = parts /\ buf' = <<>>
            /\ pc' # "init" /\ pc' # "parse"
          OBVIOUS
      <4> QED
          BY <1>2, <2>1, <2>2, <2>3, <2>5, <3>4, <3>5, <4>1 DEF StreamInv
    <3>7. ASSUME left = 0 PROVE Len(line) = 0 /\ Len(out) = 0 /\ asked = <<>>
        BY <2>1, <2>3, <3>7, EmptySeq
    <3>8. OnlyInv'
        BY <1>2, <1>6, <2>5, <3>7 DEF OnlyInv, Asked
    <3> QED
        BY <1>3, <1>4, <3>6, <3>8 DEF OwnInv
  <2>6. CASE /\ Asked /\ plugged
             /\ Len(asked') = Len(asked) + parts
             /\ \A k \in 1..Len(asked) : asked'[k] = asked[k]
             /\ \A k \in 1..parts : /\ asked'[Len(asked) + k].q = query + 1
                                    /\ asked'[Len(asked) + k].more = parts - k
    <3>1. \A k \in 1..Len(line) : line[k].q \in Int
        BY <2>1, PartNumber
    <3>2. \A k \in 1..Len(out) : out[k].q \in Int
        BY <2>1, PartNumber
    <3>3. \A k \in 1..Len(asked) : asked[k].q \in Int /\ asked[k].more \in {0, 1}
        BY <2>1, AskNumber
    <3>4. /\ \A k \in 1..Len(line) : InTime(line[k].q, k, query, query + 1, left)
          /\ \A k \in 1..Len(out) : InTime(out[k].q, Len(line) + k, query, query + 1, left)
          /\ \A k \in 1..Len(asked) : InTime(asked[k].q, n + k, query, query + 1, left)
      <4>1. \A k \in 1..Len(line) : k \in Int /\ InTime(line[k].q, k, query, query, left)
          BY <2>1, <2>3
      <4>2. \A k \in 1..Len(out) : /\ Len(line) + k \in Int
                                   /\ InTime(out[k].q, Len(line) + k, query, query, left)
          BY <2>1, <2>3
      <4>3. \A k \in 1..Len(asked) : n + k \in Int /\ InTime(asked[k].q, n + k, query, query, left)
        <5>1. \A k \in 1..Len(asked) : n + k \in Int
            BY <2>1
        <5> QED
            BY <2>3, <5>1
      <4> QED
          BY <2>4, <3>1, <3>2, <3>3, <4>1, <4>2, <4>3, Zenon
    <3>5. n + Len(asked') <= left + parts
        BY <2>1, <2>3, <2>6
    <3>6. \A k \in 1..Len(asked') : \/ k \in 1..Len(asked)
                                    \/ k - Len(asked) \in 1..parts /\ Len(asked) + (k - Len(asked)) = k
        BY <2>1, <2>6
    <3>7. ASSUME NEW k \in 1..Len(asked')
          PROVE  /\ InTime(asked'[k].q, n + k, query, query + 1, left)
                 /\ asked'[k].more = 1 => k < Len(asked') /\ asked'[k + 1].q = asked'[k].q
      <4>1. CASE k \in 1..Len(asked)
        <5>1. asked'[k] = asked[k] /\ Len(asked) < Len(asked')
            BY <2>1, <2>6, <4>1
        <5>2. asked[k].more = 1 => k < Len(asked) /\ asked[k + 1].q = asked[k].q
            BY <2>3, <4>1
        <5>3. InTime(asked[k].q, n + k, query, query + 1, left)
            BY <3>4, <4>1
        <5>4. Len(asked) \in Nat /\ Len(asked') \in Nat
            BY <2>1
        <5>5. ASSUME asked'[k].more = 1 PROVE k < Len(asked') /\ asked'[k + 1].q = asked'[k].q
          <6>1. k < Len(asked) /\ asked[k + 1].q = asked[k].q
              BY <5>1, <5>2, <5>5
          <6>2. k + 1 \in 1..Len(asked) /\ k < Len(asked')
              BY <4>1, <5>1, <5>4, <6>1
          <6> QED
              BY <2>6, <5>1, <6>1, <6>2
        <5> QED
            BY <5>1, <5>3, <5>5
      <4>2. CASE k - Len(asked) \in 1..parts /\ Len(asked) + (k - Len(asked)) = k
        <5>1. asked'[k].q = query + 1 /\ asked'[k].more = parts - (k - Len(asked))
            BY <2>6, <4>2
        <5>2. InTime(query + 1, n + k, query, query + 1, left)
            BY <2>1 DEF InTime
        <5>3. ASSUME asked'[k].more = 1 PROVE k < Len(asked') /\ asked'[k + 1].q = asked'[k].q
          <6>1. k = Len(asked) + 1 /\ parts = 2
              BY <2>1, <2>6, <4>2, <5>1, <5>3
          <6>2. k < Len(asked') /\ k + 1 = Len(asked) + 2 /\ 2 \in 1..parts
              BY <2>1, <2>6, <6>1
          <6>3. asked'[Len(asked) + 2].q = query + 1
              BY <2>6, <6>2
          <6> QED
              BY <5>1, <6>2, <6>3
        <5> QED
            BY <5>1, <5>2, <5>3
      <4> QED
          BY <3>6, <4>1, <4>2
    <3>8. ASSUME type = "protek506", NEW k \in 1..Len(asked')
          PROVE  asked'[k].more = IF k = 1 THEN 1 ELSE 1 - asked'[k - 1].more
      <4>0. parts = 2 /\ 1 \in 1..parts /\ 2 \in 1..parts
          BY <1>6, <3>8
      <4>1. CASE k \in 1..Len(asked)
        <5>1. k # 1 => k - 1 \in 1..Len(asked)
            BY <2>1, <4>1
        <5>2. asked'[k] = asked[k] /\ (k # 1 => asked'[k - 1] = asked[k - 1])
            BY <2>6, <4>1, <5>1
        <5> QED
            BY <2>3, <3>8, <4>1, <5>2
      <4>2. CASE k = Len(asked) + 1
        <5>1. asked'[k].more = 1
            BY <2>6, <4>0, <4>2
        <5>2. ASSUME k # 1 PROVE asked'[k - 1].more = 0
          <6>1. k - 1 = Len(asked) /\ Len(asked) \in 1..Len(asked)
              BY <2>1, <4>2, <5>2
          <6>2. asked[Len(asked)].more # 1
              BY <2>1, <2>3, <6>1
          <6> QED
              BY <2>6, <3>3, <6>1, <6>2
        <5> QED
            BY <5>1, <5>2
      <4>3. CASE k = Len(asked) + 2
        <5>1. asked'[k].more = 0
            BY <2>6, <4>0, <4>3
        <5>2. k - 1 = Len(asked) + 1 /\ k # 1
            BY <2>1, <4>3
        <5>3. asked'[k - 1].more = 1
            BY <2>6, <4>0, <5>2
        <5> QED
            BY <5>1, <5>2, <5>3
      <4> QED
          BY <2>1, <2>6, <4>0, <4>1, <4>2, <4>3
    <3>9. StreamInv'
      <4>1. /\ type' = type /\ line' = line /\ out' = out /\ left' = left /\ plugged' = plugged
            /\ query' = query + 1 /\ maxlines' = parts /\ buf' = <<>>
            /\ pc' # "init" /\ pc' # "parse"
          OBVIOUS
      <4> QED
          BY <1>2, <2>1, <2>2, <2>6, <3>4, <3>5, <3>7, <3>8, <4>1 DEF StreamInv
    <3>10. OnlyInv'
      <4> SUFFICES ASSUME left = 0 PROVE OnlyInv'
          BY DEF OnlyInv
      <4>1. Len(line) = 0 /\ Len(out) = 0 /\ Len(asked) = 0
          BY <2>1, <2>3
      <4>2. Len(asked') = parts /\ 1 \in 1..parts
          BY <2>1, <2>6, <4>1
      <4>3. asked'[1].more = parts - 1
        <5>1. Len(asked) + 1 = 1
            BY <4>1
        <5> QED
            BY <2>6, <4>2, <5>1
      <4> QED
          BY <1>2, <1>6, <4>1, <4>2, <4>3 DEF OnlyInv, Asked
    <3> QED
        BY <1>3, <1>4, <3>9, <3>10 DEF OwnInv
  <2> QED
      BY <1>1, <1>6, <2>5, <2>6 DEF Asked
<1> QED
    BY <1>5, <1>6

LEMMA MeterReadStep == OwnInv /\ MeterRead => OwnInv'
<1> SUFFICES ASSUME OwnInv, MeterRead PROVE OwnInv'
    OBVIOUS
<1>1. 2 \in {1, 2} /\ Ask(2) /\ maxlines' = 2
    BY DEF MeterRead, Lines, get_command
<1>2. /\ pc = "idle" /\ query' = query + 1 /\ mode' \in {"read", "command"}
      /\ mode' = "read" => value' = 0
      /\ unassigned' = FALSE
      /\ buf' = <<>> /\ pc' \in {"select", "read", "exited"}
      /\ UNCHANGED <<type, out, line, plugged, left, sent, taken, from>>
    BY DEF MeterRead
<1> QED
    BY <1>1, <1>2, QueryStep

LEMMA MeterCommandStep == OwnInv /\ MeterCommand => OwnInv'
<1> SUFFICES ASSUME OwnInv, MeterCommand PROVE OwnInv'
    OBVIOUS
<1>1. PICK parts \in {1, 2} : maxlines' = parts /\ Ask(parts)
    BY DEF MeterCommand, Lines, get_command
<1>2. sb_cat_str(sb_create(10), 2).size = 10
    BY DEF sb_cat_str, sb_create
<1>3. /\ pc = "idle" /\ query' = query + 1 /\ mode' = "command" /\ unassigned' = FALSE
      /\ buf' = <<>> /\ pc' \in {"select", "read", "exited"}
      /\ type = "protek506" => pc' = "exited"
      /\ UNCHANGED <<type, out, line, plugged, left, sent, taken, from>>
    BY <1>2 DEF MeterCommand, protek_506_send
<1> QED
    BY <1>1, <1>3, QueryStep

\* Of b parts in hand, l in the line, o on the wire and a still to come, at most n,
\* m are taken from the line, which makes c in hand and leaves r in the line.
Placed(b, l, o, a, n, m, c, r) ==
    /\ \A k \in 1..r : /\ m + k \in 1..l /\ b + (m + k) = c + k
                     /\ k \in Nat \ {0} /\ c + k <= n
    /\ \A k \in 1..o : /\ b + l + k = c + (r + k)
                     /\ r + k \in Nat \ {0} /\ c + (r + k) <= n
    /\ \A k \in 1..a : /\ b + l + o + k = c + (r + o + k)
                     /\ r + o + k \in Nat \ {0} /\ c + (r + o + k) <= n
    /\ c + (r + o + a) <= n

LEMMA Places ==
    ASSUME NEW b \in Nat, NEW l \in Nat, NEW o \in Nat, NEW a \in Nat, NEW n \in Nat,
           NEW m \in Nat, NEW c \in Nat, NEW r \in Nat,
           c = b + m, r = l - m, b + l + o + a <= n
    PROVE  Placed(b, l, o, a, n, m, c, r)
BY DEF Placed

\* A part that is in time while its query y is waited for is in time afterwards, a
\* place nearer for each of the c parts taken.
LEMMA LaterInTime ==
    ASSUME NEW y \in Nat, NEW lag \in Nat, NEW later \in Nat, NEW n \in Nat,
           NEW c \in Nat, NEW j \in Nat \ {0}, NEW q \in Nat,
           lag < n, later >= lag, later + c >= n, c + j <= n, InTime(q, c + j, y - 1, y, lag)
    PROVE  InTime(q, j, y, y, later)
<1>1. q <= y /\ (q > y - 1 \/ y - 1 + (c + j) <= q + lag)
    BY DEF InTime
<1>2. y + j <= q + later
  <2>1. CASE q > y - 1
      BY <1>1, <2>1
  <2>2. CASE y - 1 + (c + j) <= q + lag /\ c = 0
      BY <2>2
  <2>3. CASE y - 1 + (c + j) <= q + lag /\ c >= 1
      BY <2>3
  <2> QED
      BY <1>1, <2>1, <2>2, <2>3
<1> QED
    BY <1>1, <1>2 DEF InTime

\* A caller that stops waiting, with c parts in hand, the last m of them from the
\* line: the rest of what was asked for is late by one query more, or was left
\* behind.
LEMMA WaitEnds ==
    ASSUME OwnInv, Asked, Waiting, pc' \in {"parse", "returned"},
           UNCHANGED <<type, maxlines, query, asked, out, plugged>>,
           NEW m \in Nat, m <= Len(line), line' \in Seq(Parts), Len(line') = Len(line) - m,
           \A k \in 1..Len(line') : line'[k].q = line[m + k].q,
           NEW c \in Nat, c = Len(buf) + m, left' \in Nat, left' >= left,
           left' + c >= left + maxlines,
           pc' = "parse" => \A k \in 1..Len(buf') : buf'[k].q \in (query - left')..query
    PROVE  StreamInv' /\ OnlyInv'
<1>1. /\ query \in Nat /\ left \in Nat /\ maxlines \in Nat \ {0}
      /\ Len(buf) \in Nat /\ Len(line) \in Nat /\ Len(out) \in Nat /\ Len(asked) \in Nat
      /\ Len(line') \in Nat
      /\ line \in Seq(Parts) /\ out \in Seq(Parts) /\ asked \in Seq(Asks)
  <2>1. /\ query \in Nat /\ left \in Nat /\ maxlines \in {1, 2}
        /\ buf \in Seq(Parts) /\ line \in Seq(Parts) /\ out \in Seq(Parts) /\ asked \in Seq(Asks)
      BY DEF OwnInv, SerialTypes, Asked
  <2> QED
      BY <2>1, LenProperties
<1>2. Held = Len(buf) /\ Past = query - 1 /\ Held' = 0 /\ Past' = query /\ ~Waiting'
    BY DEF Held, Past, Waiting
<1>3. /\ ~plugged => asked = <<>> /\ out = <<>>
      /\ \A k \in 1..Len(line) : InTime(line[k].q, Len(buf) + k, query - 1, query, left)
      /\ \A k \in 1..Len(out) : InTime(out[k].q, Len(buf) + Len(line) + k, query - 1, query, left)
      /\ \A k \in 1..Len(asked) :
            /\ InTime(asked[k].q, Len(buf) + Len(line) + Len(out) + k, query - 1, query, left)
            /\ asked[k].more = 1 => k < Len(asked) /\ asked[k + 1].q = asked[k].q
            /\ type = "protek506" => asked[k].more = IF k = 1 THEN 1 ELSE 1 - asked[k - 1].more
      /\ Len(buf) + Len(line) + Len(out) + Len(asked) <= left + maxlines
  <2>1. StreamInv /\ pc # "exited"
      BY DEF OwnInv, Waiting
  <2> QED
      BY <1>2, <2>1 DEF StreamInv
<1>4. /\ Len(buf) + Len(line) + Len(out) + Len(asked) <= left + maxlines
      /\ left + maxlines \in Nat /\ left < left + maxlines
    BY <1>1, <1>3
<1>a. /\ \A k \in 1..Len(line') :
            /\ m + k \in 1..Len(line) /\ Len(buf) + (m + k) = c + k
            /\ k \in Nat \ {0} /\ c + k <= left + maxlines
      /\ \A k \in 1..Len(out) :
            /\ Len(buf) + Len(line) + k = c + (Len(line') + k)
            /\ Len(line') + k \in Nat \ {0} /\ c + (Len(line') + k) <= left + maxlines
      /\ \A k \in 1..Len(asked) :
            /\ Len(buf) + Len(line) + Len(out) + k = c + (Len(line') + Len(out) + k)
            /\ Len(line') + Len(out) + k \in Nat \ {0}
            /\ c + (Len(line') + Len(out) + k) <= left + maxlines
      /\ c + (Len(line') + Len(out) + Len(asked)) <= left + maxlines
  <2>1. Placed(Len(buf), Len(line), Len(out), Len(asked), left + maxlines, m, c, Len(line'))
      BY <1>1, <1>4, Places
  <2> QED
      BY <2>1 DEF Placed
<1>b. ASSUME NEW j \in Nat \ {0}, c + j <= left + maxlines,
             NEW q \in Nat, InTime(q, c + j, query - 1, query, left)
      PROVE  InTime(q, j, query, query, left')
    BY <1>1, <1>4, <1>b, LaterInTime
<1>5. ASSUME NEW k \in 1..Len(line') PROVE InTime(line'[k].q, k, query, query, left')
  <2>1. m + k \in 1..Len(line) /\ line'[k].q = line[m + k].q
      BY <1>a
  <2>2. line[m + k].q \in Nat
      BY <1>1, <2>1, PartNumber
  <2>3. InTime(line[m + k].q, Len(buf) + (m + k), query - 1, query, left)
      BY <1>3, <2>1
  <2>4. Len(buf) + (m + k) = c + k /\ k \in Nat \ {0} /\ c + k <= left + maxlines
      BY <1>a
  <2> QED
      BY <1>b, <2>1, <2>2, <2>3, <2>4
<1>6. ASSUME NEW k \in 1..Len(out)
      PROVE  InTime(out[k].q, Len(line') + k, query, query, left')
  <2>2. out[k].q \in Nat
      BY <1>1, PartNumber
  <2>3. InTime(out[k].q, Len(buf) + Len(line) + k, query - 1, query, left)
      BY <1>3
  <2> QED
      BY <1>a, <1>b, <2>2, <2>3
<1>7. ASSUME NEW k \in 1..Len(asked)
      PROVE  InTime(asked[k].q, Len(line') + Len(out) + k, query, query, left')
  <2>2. asked[k].q \in Nat
      BY <1>1, AskNumber
  <2>3. InTime(asked[k].q, Len(buf) + Len(line) + Len(out) + k, query - 1, query, left)
      BY <1>3
  <2> QED
      BY <1>a, <1>b, <2>2, <2>3
<1>8. Len(line') + Len(out) + Len(asked) <= left'
  <2>1. Len(line') + Len(out) + Len(asked) \in Nat /\ left + maxlines \in Nat
      BY <1>1
  <2> QED
      BY <1>a, <2>1
<1>9. StreamInv'
  <2>1. /\ pc' # "init" /\ pc' # "select" /\ Held' + Len(line') = Len(line')
        /\ \A k \in 1..Len(line') : Held' + k = k
      BY <1>1, <1>2, SMTT(30)
  <2> QED
      BY <1>2, <1>3, <1>5, <1>6, <1>7, <1>8, <2>1 DEF StreamInv
<1>10. OnlyInv'
    BY <1>2 DEF OnlyInv
<1> QED
    BY <1>9, <1>10

\* What the first m parts of the line do in the caller's hand.
Takes(m) ==
    /\ m \in 1..Len(line) /\ buf' \in Seq(Parts) /\ line' \in Seq(Parts)
    /\ Len(buf') = Len(buf) + m /\ Len(line') = Len(line) - m
    /\ \A k \in 1..Len(buf) : buf'[k] = buf[k]
    /\ \A k \in 1..m : buf'[Len(buf) + k] = line[k]
    /\ \A k \in 1..Len(line') : line'[k] = line[m + k]

\* Every part in the caller's hand is in time.
LEMMA HeldInTime ==
    ASSUME OwnInv, Asked, Waiting, NEW m, Takes(m), query' = query, left' \in Nat, left' >= left
    PROVE  /\ \A k \in 1..Len(buf') : InTime(buf'[k].q, k, query - 1, query, left)
           /\ \A k \in 1..Len(buf') : buf'[k].q \in (query - left')..query
<1>1. /\ query \in Nat /\ left \in Nat /\ Len(buf) \in Nat /\ Len(line) \in Nat /\ Len(buf') \in Nat
      /\ buf \in Seq(Parts) /\ line \in Seq(Parts)
  <2>1. query \in Nat /\ left \in Nat /\ buf \in Seq(Parts) /\ line \in Seq(Parts)
      BY DEF OwnInv, SerialTypes, Asked
  <2> QED
      BY <2>1, LenProperties DEF Takes
<1>2. /\ \A k \in 1..Len(buf) : InTime(buf[k].q, k, query - 1, query, left)
      /\ \A k \in 1..Len(line) : InTime(line[k].q, Len(buf) + k, query - 1, query, left)
  <2>1. StreamInv /\ pc # "exited" /\ Held = Len(buf) /\ Past = query - 1
      BY DEF OwnInv, Waiting, Held, Past
  <2> QED
      BY <2>1 DEF StreamInv
<1>3. ASSUME NEW k \in 1..Len(buf') PROVE InTime(buf'[k].q, k, query - 1, query, left)
  <2>1. CASE k \in 1..Len(buf)
      BY <1>2, <2>1 DEF Takes
  <2>2. CASE k \notin 1..Len(buf)
    <3>1. /\ k - Len(buf) \in 1..m /\ k - Len(buf) \in 1..Len(line) /\ Len(buf) + (k - Len(buf)) = k
        BY <1>1, <2>2 DEF Takes
    <3>2. buf'[k] = line[k - Len(buf)]
        BY <3>1 DEF Takes
    <3>3. InTime(line[k - Len(buf)].q, Len(buf) + (k - Len(buf)), query - 1, query, left)
        BY <1>2, <3>1
    <3> QED
        BY <3>1, <3>2, <3>3
  <2> QED
      BY <2>1, <2>2
<1>4. \A k \in 1..Len(buf') : buf'[k].q \in Nat
    BY PartNumber DEF Takes
<1>5. ASSUME NEW k \in 1..Len(buf') PROVE buf'[k].q \in (query - left')..query
  <2>1. InTime(buf'[k].q, k, query - 1, query, left) /\ buf'[k].q \in Nat /\ k \in Nat /\ k >= 1
      BY <1>3, <1>4
  <2> QED
      BY <1>1, <2>1 DEF InTime
<1> QED
    BY <1>3, <1>5

\* A caller that goes on waiting.
LEMMA WaitGoesOn ==
    ASSUME OwnInv, Asked, pc = "read", pc' = "read",
           UNCHANGED <<type, maxlines, query, asked, out, plugged, left>>,
           NEW m, Takes(m)
    PROVE  StreamInv'
<1>1. /\ query \in Nat /\ left \in Nat /\ maxlines \in {1, 2}
      /\ Len(buf) \in Nat /\ Len(line) \in Nat /\ Len(out) \in Nat /\ Len(asked) \in Nat
      /\ Len(line') \in Nat /\ m \in Nat
  <2>1. /\ query \in Nat /\ left \in Nat /\ maxlines \in {1, 2}
        /\ buf \in Seq(Parts) /\ line \in Seq(Parts) /\ out \in Seq(Parts) /\ asked \in Seq(Asks)
      BY DEF OwnInv, SerialTypes, Asked
  <2> QED
      BY <2>1, LenProperties DEF Takes
<1>2. /\ Held = Len(buf) /\ Past = query - 1 /\ Held' = Len(buf') /\ Past' = query - 1
      /\ Waiting' /\ Waiting
    BY DEF Held, Past, Waiting
<1>3. /\ ~plugged => asked = <<>> /\ out = <<>>
      /\ \A k \in 1..Len(line) : InTime(line[k].q, Len(buf) + k, query - 1, query, left)
      /\ \A k \in 1..Len(out) : InTime(out[k].q, Len(buf) + Len(line) + k, query - 1, query, left)
      /\ \A k \in 1..Len(asked) :
            /\ InTime(asked[k].q, Len(buf) + Len(line) + Len(out) + k, query - 1, query, left)
            /\ asked[k].more = 1 => k < Len(asked) /\ asked[k + 1].q = asked[k].q
            /\ type = "protek506" => asked[k].more = IF k = 1 THEN 1 ELSE 1 - asked[k - 1].more
      /\ Len(buf) + Len(line) + Len(out) + Len(asked) <= left + maxlines
  <2>1. StreamInv /\ pc # "exited"
      BY DEF OwnInv
  <2> QED
      BY <1>2, <2>1 DEF StreamInv
<1>4. Len(buf') + Len(line') = Len(buf) + Len(line) /\ Len(buf') = Len(buf) + m
    BY <1>1 DEF Takes
<1>5. \A k \in 1..Len(buf') : InTime(buf'[k].q, k, query - 1, query, left)
  <2>1. left' \in Nat /\ left' >= left /\ query' = query
      BY <1>1
  <2> QED
      BY <1>2, <2>1, HeldInTime
<1>6. ASSUME NEW k \in 1..Len(line')
      PROVE  InTime(line'[k].q, Len(buf') + k, query - 1, query, left)
  <2>0. line'[k] = line[m + k] /\ Len(line') = Len(line) - m
      BY DEF Takes
  <2>1. m + k \in 1..Len(line) /\ line'[k] = line[m + k] /\ Len(buf) + (m + k) = Len(buf') + k
      BY <1>1, <1>4, <2>0
  <2>2. InTime(line[m + k].q, Len(buf) + (m + k), query - 1, query, left)
      BY <1>3, <2>1
  <2> QED
      BY <2>1, <2>2
<1> QED
    BY <1>2, <1>3, <1>4, <1>5, <1>6 DEF StreamInv

LEMMA BehindIs ==
    ASSUME SerialTypes, NEW n \in Nat, Behind(n)
    PROVE  /\ left' \in Nat /\ left' >= left
           /\ Asked => left' + n >= left + maxlines /\ (left' = 0 => left = 0 /\ n >= maxlines)
<1>1. left \in Nat /\ maxlines \in Nat
    BY DEF SerialTypes
<1>2. CASE Asked /\ n < maxlines
  <2>1. left' = left + maxlines - n
      BY <1>2 DEF Behind
  <2> QED
      BY <1>1, <1>2, <2>1
<1>3. CASE ~(Asked /\ n < maxlines)
  <2>1. left' = left
      BY <1>3 DEF Behind
  <2> QED
      BY <1>1, <1>3, <2>1
<1> QED
    BY <1>2, <1>3

\* What a caller that waits has in hand is in time.
LEMMA HandInTime ==
    ASSUME OwnInv, Asked, Waiting
    PROVE  \A k \in 1..Len(buf) : buf[k].q \in (query - left)..query
<1>1. query \in Nat /\ left \in Nat /\ buf \in Seq(Parts)
    BY DEF OwnInv, SerialTypes, Asked
<1>2. \A k \in 1..Len(buf) : InTime(buf[k].q, k, query - 1, query, left)
  <2>1. StreamInv /\ pc # "exited" /\ Past = query - 1
      BY DEF OwnInv, Waiting, Past
  <2> QED
      BY <2>1 DEF StreamInv
<1> SUFFICES ASSUME NEW k \in 1..Len(buf) PROVE buf[k].q \in (query - left)..query
    OBVIOUS
<1>3. InTime(buf[k].q, k, query - 1, query, left) /\ buf[k].q \in Nat /\ k \in Nat /\ k >= 1
    BY <1>1, <1>2, PartNumber
<1> QED
    BY <1>1, <1>3 DEF InTime

\* A timeout, or a read that fails: the whole answer, or the rest of it, is left
\* behind.
LEMMA GivenUp ==
    ASSUME OwnInv, Waiting, Behind(Len(buf)), pc' \in {"parse", "returned"},
           UNCHANGED <<type, mode, maxlines, query, asked, out, plugged>>,
           Asked => /\ line' \in Seq(Parts) /\ Len(line') = Len(line)
                    /\ \A k \in 1..Len(line') : line'[k].q = line[k].q,
           pc' = "parse" => buf' = <<>> \/ buf' = buf
    PROVE  StreamInv' /\ OnlyInv' /\ left' \in Nat /\ (Asked => left' > 0)
<1>1. CASE type = "rs22812" \/ type = "wattsup"
  <2>1. ~Asked /\ ~Asked' /\ left' = left /\ left \in Nat
      BY <1>1 DEF Asked, Behind, OwnInv, SerialTypes
  <2> QED
      BY <2>1 DEF StreamInv, OnlyInv
<1>2. CASE Asked
  <2>1. /\ Len(buf) \in Nat /\ Len(line) \in Nat /\ line \in Seq(Parts) /\ maxlines \in {1, 2}
        /\ left \in Nat
    <3>1. buf \in Seq(Parts) /\ line \in Seq(Parts) /\ maxlines \in {1, 2} /\ left \in Nat
        BY <1>2 DEF OwnInv, SerialTypes, Asked
    <3> QED
        BY <3>1, LenProperties
  <2>2. /\ left' \in Nat /\ left' >= left /\ left' + Len(buf) >= left + maxlines
        /\ left' = 0 => left = 0 /\ Len(buf) >= maxlines
      BY <1>2, <2>1, BehindIs DEF OwnInv
  <2>3. left' # 0
    <3>1. left = 0 => Len(buf) < maxlines
        BY <1>2 DEF OwnInv, OnlyInv
    <3> QED
        BY <2>1, <2>2, <3>1
  <2>4. 0 \in Nat /\ 0 <= Len(line) /\ Len(line') = Len(line) - 0 /\ line' \in Seq(Parts)
        /\ \A k \in 1..Len(line') : line'[k].q = line[0 + k].q
        /\ Len(buf) = Len(buf) + 0
    <3>1. \A k \in 1..Len(line') : 0 + k = k
        BY <1>2, <2>1
    <3> QED
        BY <1>2, <2>1, <3>1
  <2>5. pc' = "parse" => \A k \in 1..Len(buf') : buf'[k].q \in (query - left')..query
    <3> SUFFICES ASSUME pc' = "parse", NEW k \in 1..Len(buf')
                 PROVE  buf'[k].q \in (query - left')..query
        OBVIOUS
    <3>1. buf' = buf
      <4>1. Len(<<>>) = 0
          OBVIOUS
      <4> QED
          BY <4>1
    <3>2. \A j \in 1..Len(buf) : buf[j].q \in (query - left)..query
        BY <1>2, HandInTime
    <3>3. query \in Nat /\ left \in Nat
        BY DEF OwnInv, SerialTypes
    <3> QED
        BY <2>2, <3>1, <3>2, <3>3
  <2>6. StreamInv' /\ OnlyInv'
    <3>1. /\ OwnInv /\ Waiting /\ pc' \in {"parse", "returned"}
          /\ UNCHANGED <<type, maxlines, query, asked, out, plugged>>
        OBVIOUS
    <3>2. ASSUME NEW m \in Nat, m = 0
          PROVE  /\ m <= Len(line) /\ Len(line') = Len(line) - m
                 /\ \A k \in 1..Len(line') : line'[k].q = line[m + k].q
                 /\ Len(buf) = Len(buf) + m
        BY <2>4, <3>2
    <3>3. \E m \in Nat : /\ m <= Len(line) /\ Len(line') = Len(line) - m
                         /\ \A k \in 1..Len(line') : line'[k].q = line[m + k].q
                         /\ Len(buf) = Len(buf) + m
        BY <3>2
    <3> QED
        BY ONLY <1>2, <2>1, <2>2, <2>4, <2>5, <3>1, <3>3, WaitEnds
  <2> QED
      BY <2>2, <2>3, <2>6
<1> QED
    BY <1>1, <1>2 DEF OwnInv, SerialTypes, Asked

LEMMA SelectTimeoutStep == OwnInv /\ SelectTimeout => OwnInv'
<1> SUFFICES ASSUME OwnInv, SelectTimeout PROVE OwnInv'
    OBVIOUS
<1>1. /\ pc = "select" /\ pc' = "returned" /\ rc' = 1 /\ Behind(0)
      /\ UNCHANGED <<type, mode, maxlines, query, buf, value, unassigned, asked, out, plugged,
                     sent, line, taken, from>>
    BY DEF SelectTimeout, callVars, devVars
<1>2. Behind(Len(buf))
  <2>1. CASE Asked
    <3>1. buf = <<>>
        BY <1>1, <2>1 DEF OwnInv, StreamInv
    <3>2. Len(buf) = 0
        BY <3>1, EmptySeq
    <3> QED
        BY <1>1, <3>2
  <2>2. CASE ~Asked
      BY <1>1, <2>2 DEF Behind
  <2> QED
      BY <2>1, <2>2
<1>3. StreamInv' /\ OnlyInv' /\ left' \in Nat
  <2>1. Waiting /\ pc' \in {"parse", "returned"} /\ pc' # "parse"
      BY <1>1 DEF Waiting
  <2>2. Asked => /\ line' \in Seq(Parts) /\ Len(line') = Len(line)
                 /\ \A k \in 1..Len(line') : line'[k].q = line[k].q
      BY <1>1 DEF OwnInv, SerialTypes, Asked
  <2> QED
      BY <1>1, <1>2, <2>1, <2>2, GivenUp
<1>4. SerialTypes'
    BY <1>1, <1>3 DEF OwnInv, SerialTypes
<1>5. RecordInv' /\ ParseInv' /\ ValueInv'
  <2>1. RecordInv'
      BY <1>1 DEF OwnInv, RecordInv, InOrder, Before, Busy
  <2>2. ParseInv' /\ ValueInv'
      BY <1>1 DEF ParseInv, ValueInv, Busy, Waiting
  <2> QED
      BY <2>1, <2>2
<1> QED
    BY <1>3, <1>4, <1>5 DEF OwnInv

LEMMA ReadFailsStep == OwnInv /\ ReadFails => OwnInv'
<1> SUFFICES ASSUME OwnInv, ReadFails PROVE OwnInv'
    OBVIOUS
<1>1. /\ pc = "read" /\ pc' = "parse" /\ unassigned' = TRUE /\ buf' = <<>> /\ Behind(Len(buf))
      /\ UNCHANGED <<type, mode, maxlines, query, value, rc, asked, out, plugged, sent, line,
                     taken, from>>
    BY DEF ReadFails, callVars, devVars
<1>2. StreamInv' /\ OnlyInv' /\ left' \in Nat /\ (Asked => left' > 0)
  <2>1. Waiting /\ pc' \in {"parse", "returned"}
      BY <1>1 DEF Waiting
  <2>2. Asked => /\ line' \in Seq(Parts) /\ Len(line') = Len(line)
                 /\ \A k \in 1..Len(line') : line'[k].q = line[k].q
      BY <1>1 DEF OwnInv, SerialTypes, Asked
  <2> QED
      BY <1>1, <2>1, <2>2, GivenUp
<1>3. SerialTypes'
  <2>1. buf' \in Seq(Parts) /\ buf' \in Seq(Texts) /\ unassigned' \in BOOLEAN
      BY <1>1, EmptySeq
  <2> QED
      BY <1>1, <1>2, <2>1 DEF OwnInv, SerialTypes
<1>4. ParseInv'
  <2>1. Asked' => left' # 0
      BY <1>1, <1>2 DEF Asked
  <2> QED
      BY <1>1, <2>1 DEF ParseInv
<1>5. RecordInv'
  <2>1. Len(buf') = 0
      BY <1>1, EmptySeq
  <2> QED
      BY <1>1, <2>1 DEF OwnInv, RecordInv, InOrder, Before, Busy
<1>6. ValueInv'
    BY <1>1 DEF OwnInv, ValueInv, Busy, Waiting
<1> QED
    BY <1>2, <1>3, <1>4, <1>5, <1>6 DEF OwnInv

\* The steps of the caller that move no part.
LEMMA CallerStep ==
    OwnInv /\ (MeterInit \/ SelectReady \/ Return \/ Spin \/ Quiet \/ UNCHANGED vars) => OwnInv'
<1> SUFFICES ASSUME OwnInv,
                    MeterInit \/ SelectReady \/ Return \/ Spin \/ Quiet \/ UNCHANGED vars
             PROVE OwnInv'
    OBVIOUS
<1>1. CASE UNCHANGED vars \/ Spin \/ Quiet
  <2>1. UNCHANGED vars
      BY <1>1 DEF Spin, Quiet
  <2>2. SerialTypes' /\ RecordInv' /\ ValueInv' /\ ParseInv'
      BY <2>1 DEF vars, callVars, mmVars, devVars, OwnInv, SerialTypes, RecordInv, ValueInv,
         ParseInv, InOrder, Before, Waiting, Busy, Asked
  <2>3. StreamInv' /\ OnlyInv'
      BY <2>1 DEF vars, callVars, mmVars, devVars, OwnInv, StreamInv, OnlyInv, Single,
         Held, Past, Waiting, Asked
  <2> QED
      BY <2>2, <2>3 DEF OwnInv
<1>2. CASE MeterInit
  <2>1. /\ pc = "init" /\ pc' \in {"idle", "exited"}
        /\ UNCHANGED <<type, mode, maxlines, query, buf, value, rc, unassigned, asked, out,
                       plugged, sent, left, from>>
        /\ \/ line' = line /\ taken' = taken
           \/ line' = <<>> /\ taken' = taken + Len(line)
      BY <1>2 DEF MeterInit, callVars, mmVars, devVars
  <2>2. type # "rs22812" => line \in Seq(Parts) /\ taken \in Nat
      BY DEF OwnInv, SerialTypes
  <2>3. type # "rs22812" => line' \in Seq(Parts) /\ Len(line) \in Nat /\ taken' \in Nat
    <3>1. type # "rs22812" => Len(line) \in Nat
        BY <2>2, LenProperties
    <3>2. type # "rs22812" => <<>> \in Seq(Parts) /\ taken + Len(line) \in Nat
        BY <2>2, <3>1
    <3> QED
        BY <2>1, <2>2, <3>1, <3>2
  <2>4. type = "wattsup" \/ Asked => line = <<>>
      BY <2>1 DEF OwnInv, StreamInv, RecordInv
  <2>5. type = "wattsup" \/ Asked => line' = <<>> /\ taken' = taken /\ taken \in Nat
    <3>1. Len(<<>>) = 0
        OBVIOUS
    <3> QED
        BY <2>1, <2>2, <2>4, <3>1 DEF Asked
  <2>6. SerialTypes'
    <3>1. type = "protek506" => line' \in Seq(Texts)
        BY <2>5, EmptySeq DEF Asked
    <3> QED
        BY <2>1, <2>3, <3>1 DEF OwnInv, SerialTypes
  <2>7. StreamInv'
    <3> SUFFICES ASSUME Asked PROVE StreamInv'
        BY <2>1 DEF StreamInv, Asked
    <3>1. asked = <<>> /\ out = <<>> /\ line' = <<>> /\ left \in Nat
        BY <2>1, <2>5 DEF OwnInv, StreamInv, SerialTypes
    <3>2. Len(<<>>) = 0
        OBVIOUS
    <3> QED
        BY <2>1, <3>1, <3>2 DEF StreamInv, Waiting, Held
  <2>8. OnlyInv' /\ ParseInv' /\ ValueInv'
      BY <2>1 DEF OnlyInv, ParseInv, ValueInv, Waiting, Busy
  <2>9. RecordInv'
      BY <2>1, <2>4, <2>5 DEF OwnInv, RecordInv, InOrder, Before, Busy
  <2> QED
      BY <2>6, <2>7, <2>8, <2>9 DEF OwnInv
<1>3. CASE SelectReady
  <2>1. /\ UNCHANGED <<type, mode, maxlines, query, buf, value, rc, unassigned, asked, out,
                       plugged, sent, line, left, taken, from>>
        /\ pc = "select" /\ pc' = "read"
      BY <1>3 DEF SelectReady, callVars, mmVars, devVars
  <2>2. SerialTypes' /\ RecordInv' /\ ValueInv' /\ ParseInv'
      BY <2>1 DEF OwnInv, SerialTypes, RecordInv, ValueInv, ParseInv, InOrder, Before,
         Waiting, Busy
  <2>3. StreamInv' /\ OnlyInv'
      BY <2>1 DEF OwnInv, StreamInv, OnlyInv, Single, Held, Past, Waiting, Asked
  <2> QED
      BY <2>2, <2>3 DEF OwnInv
<1>4. CASE Return
  <2>1. /\ UNCHANGED <<type, mode, maxlines, query, buf, value, rc, unassigned, asked, out,
                       plugged, sent, line, left, taken, from>>
        /\ pc = "returned" /\ pc' = "idle"
      BY <1>4 DEF Return, callVars, mmVars, devVars
  <2>2. SerialTypes' /\ RecordInv' /\ ValueInv' /\ ParseInv'
      BY <2>1 DEF OwnInv, SerialTypes, RecordInv, ValueInv, ParseInv, InOrder, Before,
         Waiting, Busy
  <2>3. StreamInv' /\ OnlyInv'
      BY <2>1 DEF OwnInv, StreamInv, OnlyInv, Single, Held, Past, Waiting, Asked
  <2> QED
      BY <2>2, <2>3 DEF OwnInv
<1> QED
    BY <1>1, <1>2, <1>3, <1>4

\* fluke_189_read takes lines of the answer until it has as many as it waits for.
LEMMA FlukeReadStep == ASSUME OwnInv, NEW n \in 1..Len(line), FlukeRead(n) PROVE OwnInv'
<1>1. /\ pc = "read" /\ type = "fluke189" /\ Asked /\ Waiting
      /\ buf' = buf \o SubSeq(line, 1, n) /\ line' = SubSeq(line, n + 1, Len(line))
      /\ pc' = IF Len(buf') = maxlines THEN "parse" ELSE pc
      /\ UNCHANGED <<type, mode, maxlines, query, value, rc, unassigned, asked, out, plugged,
                     left, sent, taken, from>>
    BY DEF FlukeRead, callVars, mmVars, devVars, Asked, Waiting
<1>2. /\ buf \in Seq(Parts) /\ line \in Seq(Parts) /\ out \in Seq(Parts)
      /\ Len(out) \in Nat /\ Len(line) \in Nat /\ asked \in Seq(Asks) /\ maxlines \in {1, 2}
      /\ Len(asked) \in Nat /\ query \in Nat /\ left \in Nat
    BY <1>1, LenProperties DEF OwnInv, SerialTypes
<1>3. n \in Nat /\ n >= 1 /\ n <= Len(line)
    BY <1>2
<1>4. Takes(n) /\ Len(buf) \in Nat /\ Len(line') = Len(line) - n
  <2>1. buf \in Seq(Parts) /\ line \in Seq(Parts)
      BY <1>2
  <2>2. \A m \in Nat : m <= Len(line) =>
           /\ buf \o SubSeq(line, 1, m) \in Seq(Parts) /\ SubSeq(line, m + 1, Len(line)) \in Seq(Parts)
           /\ Len(buf) \in Nat /\ Len(buf \o SubSeq(line, 1, m)) = Len(buf) + m
           /\ Len(SubSeq(line, m + 1, Len(line))) = Len(line) - m
           /\ \A k \in 1..Len(buf) : (buf \o SubSeq(line, 1, m))[k] = buf[k]
           /\ \A k \in 1..m : (buf \o SubSeq(line, 1, m))[Len(buf) + k] = line[k]
           /\ \A k \in 1..(Len(line) - m) : SubSeq(line, m + 1, Len(line))[k] = line[m + k]
    <3> TAKE m \in Nat
    <3> HAVE m <= Len(line)
    <3> QED
        BY ONLY <2>1, m \in Nat, m <= Len(line), Moved
  <2>3. /\ buf' \in Seq(Parts) /\ line' \in Seq(Parts) /\ Len(buf) \in Nat
        /\ Len(buf') = Len(buf) + n /\ Len(line') = Len(line) - n
        /\ \A k \in 1..Len(buf) : buf'[k] = buf[k]
        /\ \A k \in 1..n : buf'[Len(buf) + k] = line[k]
        /\ \A k \in 1..(Len(line) - n) : line'[k] = line[n + k]
      BY <1>1, <1>3, <2>2, Zenon
  <2> QED
      BY <1>3, <2>3 DEF Takes
<1>5. SerialTypes' /\ RecordInv' /\ ValueInv'
  <2>1. SerialTypes'
      BY <1>1, <1>4 DEF OwnInv, SerialTypes, Takes
  <2>2. RecordInv' /\ ValueInv'
      BY <1>1 DEF OwnInv, RecordInv, ValueInv, Waiting, Busy
  <2> QED
      BY <2>1, <2>2
<1>6. left = 0 => \A k \in 1..Len(buf') : buf'[k].part = "nak" => Single
  <2> SUFFICES ASSUME left = 0, NEW k \in 1..Len(buf'), buf'[k].part = "nak" PROVE Single
      OBVIOUS
  <2>1. /\ \A j \in 1..Len(buf) : buf[j].part = "nak" => Single
        /\ \A j \in 1..Len(line) : line[j].part = "nak" => Single
      BY <1>1 DEF OwnInv, OnlyInv
  <2>2. CASE k \in 1..Len(buf)
      BY <1>4, <2>1, <2>2 DEF Takes
  <2>3. CASE k \notin 1..Len(buf)
    <3>1. k - Len(buf) \in 1..n /\ k - Len(buf) \in 1..Len(line) /\ Len(buf) + (k - Len(buf)) = k
        BY <1>2, <1>3, <1>4, <2>3 DEF Takes
    <3>2. buf'[k] = line[k - Len(buf)]
        BY <1>4, <3>1 DEF Takes
    <3> QED
        BY <2>1, <3>1, <3>2
  <2> QED
      BY <2>2, <2>3
<1>7. CASE Len(buf') = maxlines
  <2>1. pc' = "parse" /\ Len(buf') = Len(buf) + n
      BY <1>1, <1>4, <1>7 DEF Takes
  <2>2. StreamInv' /\ OnlyInv'
    <3>1. left' \in Nat /\ left' >= left /\ query' = query
        BY <1>1, <1>2
    <3>2. \A k \in 1..Len(buf') : buf'[k].q \in (query - left')..query
        BY <1>1, <1>4, <3>1, HeldInTime
    <3>3. line' \in Seq(Parts) /\ \A k \in 1..Len(line') : line'[k].q = line[n + k].q
        BY <1>4 DEF Takes
    <3>4. left' + Len(buf') >= left + maxlines /\ Len(buf') \in Nat
      <4>1. left' = left /\ left \in Nat /\ Len(buf') = maxlines /\ maxlines \in Nat
          BY <1>1, <1>2, <1>7
      <4>2. \A a, b \in Nat : a + b >= a + b
          OBVIOUS
      <4> QED
          BY <4>1, <4>2
    <3> QED
        BY <1>1, <1>3, <1>4, <2>1, <3>1, <3>2, <3>3, <3>4, WaitEnds
  <2>3. ParseInv'
    <3> SUFFICES ASSUME left = 0 PROVE ~unassigned /\ (Len(buf') > 1 => buf'[1].part # "nak")
        BY <1>1 DEF ParseInv
    <3>1. ~unassigned
        BY <1>1 DEF OwnInv, ValueInv
    <3>2. ASSUME Len(buf') > 1, buf'[1].part = "nak" PROVE FALSE
      <4>1. 1 \in 1..Len(buf')
          BY <1>2, <1>7, <3>2
      <4>2. Len(buf) + Len(line) + Len(out) + Len(asked) = 1
          BY <1>6, <3>2, <4>1 DEF Single
      <4> QED
          BY <1>2, <1>3, <1>4, <2>1, <3>2, <4>2
    <3> QED
        BY <3>1, <3>2
  <2> QED
      BY <1>5, <2>2, <2>3 DEF OwnInv
<1>8. CASE Len(buf') # maxlines
  <2>1. pc' = "read" /\ Waiting'
      BY <1>1, <1>8 DEF Waiting
  <2>2. StreamInv'
      BY <1>1, <1>4, <2>1, WaitGoesOn
  <2>3. ParseInv'
      BY <2>1 DEF ParseInv
  <2>4. OnlyInv'
    <3> SUFFICES ASSUME left = 0 PROVE OnlyInv'
        BY <1>1 DEF OnlyInv
    <3>1. Len(buf') + Len(line') = Len(buf) + Len(line) /\ Len(buf') \in Nat /\ Len(line') \in Nat
      <4>1. buf' \in Seq(Parts) /\ line' \in Seq(Parts) /\ Len(buf') = Len(buf) + n
          BY <1>4 DEF Takes
      <4> QED
          BY <1>2, <1>3, <1>4, <4>1, LenProperties
    <3>2. Len(buf) + Len(line) + Len(out) + Len(asked) <= maxlines
      <4>1. StreamInv /\ Held = Len(buf)
          BY <1>1 DEF OwnInv, Held
      <4> QED
          BY <1>1, <1>2, <1>4, <4>1 DEF StreamInv
    <3>3. Len(buf') < maxlines
        BY <1>2, <1>8, <3>1, <3>2
    <3>4. Single' <=> Single
        BY <1>1, <1>2, <1>4, <3>1 DEF Single
    <3>5. \A k \in 1..Len(line') : line'[k].part = "nak" => Single
      <4>1. \A k \in 1..Len(line') : n + k \in 1..Len(line) /\ line'[k] = line[n + k]
          BY <1>2, <1>3, <1>4 DEF Takes
      <4> QED
          BY <1>1, <4>1 DEF OwnInv, OnlyInv
    <3>6. /\ \A k \in 1..Len(out) : out[k].part = "nak" => Single
          /\ asked # <<>> => Len(asked) = maxlines /\ asked[1].more = maxlines - 1
        BY <1>1 DEF OwnInv, OnlyInv
    <3> QED
        BY <1>1, <1>6, <3>3, <3>4, <3>5, <3>6 DEF OnlyInv
  <2> QED
      BY <1>5, <2>2, <2>3, <2>4 DEF OwnInv
<1> QED
    BY <1>7, <1>8

\* The end of the line: everything that was sent has been read.
LEMMA FlukeEofStep == OwnInv /\ FlukeEof => OwnInv'
<1> SUFFICES ASSUME OwnInv, FlukeEof PROVE OwnInv'
    OBVIOUS
<1>1. /\ type = "fluke189" /\ Asked /\ Waiting /\ pc = "read" /\ pc' = "parse"
      /\ line = <<>> /\ out = <<>> /\ ~plugged
      /\ UNCHANGED <<type, mode, maxlines, query, value, rc, unassigned, buf, asked, out, plugged,
                     left, sent, line, taken, from>>
    BY DEF FlukeEof, Gone, callVars, mmVars, devVars, Asked, Waiting
<1>2. asked = <<>>
    BY <1>1 DEF OwnInv, StreamInv
<1>3. SerialTypes' /\ RecordInv' /\ ValueInv'
    BY <1>1 DEF OwnInv, SerialTypes, RecordInv, ValueInv, Waiting, Busy
<1>4. \A k \in 1..Len(buf) : buf[k].q \in (query - left)..query
    BY <1>1, HandInTime
<1>5. StreamInv' /\ OnlyInv'
  <2>1. Len(<<>>) = 0 /\ left \in Nat
      BY DEF OwnInv, SerialTypes
  <2> QED
      BY <1>1, <1>2, <1>4, <2>1 DEF StreamInv, OnlyInv, Held, Waiting
<1>6. ParseInv'
  <2> SUFFICES ASSUME left = 0 PROVE ~unassigned /\ (Len(buf) > 1 => buf[1].part # "nak")
      BY <1>1 DEF ParseInv
  <2>1. ~unassigned
      BY <1>1 DEF OwnInv, ValueInv
  <2>2. ASSUME Len(buf) > 1, buf[1].part = "nak" PROVE FALSE
    <3>1. buf \in Seq(Parts) /\ Len(buf) \in Nat
        BY <1>1, LenProperties DEF OwnInv, SerialTypes
    <3>2. 1 \in 1..Len(buf)
        BY <2>2, <3>1
    <3>3. Len(buf) + Len(line) + Len(out) + Len(asked) = 1
        BY <1>1, <2>2, <3>2 DEF OwnInv, OnlyInv, Single
    <3>4. Len(<<>>) = 0
        OBVIOUS
    <3>5. Len(line) = 0 /\ Len(out) = 0 /\ Len(asked) = 0
        BY <1>1, <1>2, <3>4
    <3>6. Len(buf) + 0 + 0 + 0 = 1
        BY <3>3, <3>5
    <3> QED
        BY <2>2, <3>1, <3>6
  <2> QED
      BY <2>1, <2>2
<1> QED
    BY <1>3, <1>5, <1>6 DEF OwnInv

\* The end of a call that a parse makes.
LEMMA ParseEnds ==
    ASSUME OwnInv, pc = "parse", pc' = "returned",
           UNCHANGED <<type, mode, maxlines, query, buf, asked, out, plugged, left, line>>
    PROVE  StreamInv' /\ OnlyInv' /\ ParseInv'
BY DEF OwnInv, StreamInv, OnlyInv, ParseInv, Held, Past, Waiting, Asked

\* What the Fluke's answer becomes.
LEMMA FlukeParseStep == OwnInv /\ FlukeParse => OwnInv'
<1> SUFFICES ASSUME OwnInv, FlukeParse PROVE OwnInv'
    OBVIOUS
<1>1. /\ pc = "parse" /\ pc' = "returned" /\ type = "fluke189" /\ Asked
      /\ UNCHANGED <<type, mode, maxlines, query, buf, asked, out, plugged, left, sent,
                     line, taken, from>>
    BY DEF FlukeParse, callVars, devVars, Asked
<1>2. StreamInv' /\ OnlyInv' /\ ParseInv'
    BY <1>1, ParseEnds
<1>3. unassigned' \in BOOLEAN
    BY DEF FlukeParse, Guess, OwnInv, SerialTypes
<1>4. SerialTypes' /\ RecordInv'
    BY <1>1, <1>3 DEF OwnInv, SerialTypes, RecordInv
<1>5. ASSUME mode = "read", rc' = 0
      PROVE  /\ ~unassigned' => value' \in {0} \cup (query - left)..query
             /\ unassigned' => left # 0
  <2>1. value = 0 /\ \A k \in 1..Len(buf) : buf[k].q \in (query - left)..query
    <3>1. value = 0
        BY <1>1, <1>5 DEF OwnInv, ValueInv, Busy
    <3>2. \A k \in 1..Len(buf) : buf[k].q \in (query - left)..query
        BY <1>1 DEF OwnInv, StreamInv
    <3> QED
        BY <3>1, <3>2
  <2>2. \/ value' = value /\ unassigned' = unassigned
        \/ ~Acknowledged /\ Len(buf) > 1 /\ unassigned' = TRUE
        \/ unassigned' = unassigned /\ \E k \in 1..Len(buf) : value' = buf[k].q
      BY <1>5 DEF FlukeParse, Guess
  <2>3. ASSUME unassigned', left = 0 PROVE FALSE
    <3>1. ~unassigned /\ (Len(buf) > 1 => buf[1].part # "nak")
        BY <1>1, <2>3 DEF OwnInv, ParseInv
    <3>2. ~Acknowledged /\ Len(buf) > 1
        BY <2>2, <2>3, <3>1
    <3>3. buf # <<>>
      <4>1. ~(Len(<<>>) > 1)
          OBVIOUS
      <4> QED
          BY <3>2, <4>1
    <3> QED
        BY <3>1, <3>2, <3>3 DEF Acknowledged
  <2> QED
      BY <2>1, <2>2, <2>3
<1>6. ValueInv'
    BY <1>1, <1>5 DEF ValueInv, Waiting, Busy, Asked
<1> QED
    BY <1>2, <1>4, <1>6 DEF OwnInv


\* protek_506_read takes the first byte of the line.
LEMMA ProtekTakes ==
    ASSUME OwnInv, type = "protek506", line # <<>>,
           buf' = Append(buf, Head(line)), line' = Tail(line)
    PROVE  /\ Takes(1) /\ buf' \in Seq(Texts) /\ line' \in Seq(Texts)
           /\ Head(line) = line[1] /\ buf' # <<>>
<1>1. /\ buf \in Seq(Texts) /\ line \in Seq(Texts) /\ buf \in Seq(Parts) /\ line \in Seq(Parts)
    BY DEF OwnInv, SerialTypes
<1>2. Len(buf) \in Nat /\ Len(line) \in Nat /\ Len(line) >= 1
    BY <1>1, EmptySeq, LenProperties
<1>3. /\ Head(line) \in Texts /\ line' \in Seq(Texts) /\ Len(line') = Len(line) - 1
      /\ \A k \in 1..Len(line') : line'[k] = line[k + 1]
      /\ Head(line) = line[1]
    BY <1>1, HeadTailProperties
<1>4. Head(line) \in Parts /\ line' \in Seq(Parts)
    BY <1>1, HeadTailProperties
<1>5. /\ buf' \in Seq(Texts) /\ buf' # <<>> /\ Len(buf') = Len(buf) + 1
      /\ \A k \in 1..Len(buf) : buf'[k] = buf[k]
      /\ buf'[Len(buf) + 1] = Head(line)
    BY <1>1, <1>3, AppendProperties
<1>6. buf' \in Seq(Parts)
    BY <1>1, <1>4, AppendProperties
<1>7. \A k \in 1..1 : buf'[Len(buf) + k] = line[k]
  <2> TAKE k \in 1..1
  <2>1. k = 1
      OBVIOUS
  <2> QED
      BY <1>3, <1>5, <2>1
<1>8. \A k \in 1..Len(line') : line'[k] = line[1 + k]
  <2>1. \A k \in 1..Len(line') : k + 1 = 1 + k
      BY <1>2, <1>3
  <2> QED
      BY <1>3, <2>1
<1>9. 1 \in 1..Len(line)
    BY <1>2
<1> QED
    BY <1>3, <1>4, <1>5, <1>6, <1>7, <1>8, <1>9 DEF Takes

\* It finds a return: with nothing left behind, its own and behind its own text.
LEMMA ProtekEnds ==
    ASSUME OwnInv, pc = "read", type = "protek506", Takes(1),
           buf' \in Seq(Texts), line' \in Seq(Texts), buf' # <<>>, pc' = "parse",
           Behind(Len(buf')),
           UNCHANGED <<type, mode, maxlines, query, value, rc, unassigned, asked, out, plugged,
                       sent, taken, from>>
    PROVE  OwnInv'
<1>1. Asked /\ Waiting
    BY DEF Asked, Waiting
<1>2. /\ buf \in Seq(Parts) /\ Len(buf) \in Nat /\ Len(line) \in Nat /\ query \in Nat /\ left \in Nat
      /\ Len(buf') \in Nat /\ maxlines \in {1, 2} /\ Len(buf') = Len(buf) + 1
  <2>1. buf \in Seq(Parts) /\ line \in Seq(Parts) /\ query \in Nat /\ left \in Nat /\ maxlines \in {1, 2}
      BY DEF OwnInv, SerialTypes
  <2> QED
      BY <2>1, LenProperties DEF Takes
<1>3. /\ left' \in Nat /\ left' >= left /\ left' + Len(buf') >= left + maxlines
      /\ left' = 0 => left = 0 /\ Len(buf') >= maxlines
    BY <1>1, <1>2, BehindIs DEF OwnInv
<1>4. \A k \in 1..Len(buf') : buf'[k].q \in (query - left')..query
  <2>1. query' = query
      OBVIOUS
  <2> QED
      BY <1>1, <1>3, <2>1, HeldInTime
<1>5. StreamInv' /\ OnlyInv'
  <2>1. /\ line' \in Seq(Parts) /\ Len(line') = Len(line) - 1 /\ 1 \in Nat /\ 1 <= Len(line)
        /\ \A k \in 1..Len(line') : line'[k].q = line[1 + k].q
      BY <1>2 DEF Takes
  <2>2. /\ pc' \in {"parse", "returned"} /\ UNCHANGED <<type, maxlines, query, asked, out, plugged>>
        /\ OwnInv
      OBVIOUS
  <2>3. \E m \in Nat : /\ m <= Len(line) /\ Len(line') = Len(line) - m
                       /\ \A k \in 1..Len(line') : line'[k].q = line[m + k].q
                       /\ Len(buf') = Len(buf) + m
      BY <1>2, <2>1
  <2> QED
      BY ONLY <1>1, <1>2, <1>3, <1>4, <2>1, <2>2, <2>3, WaitEnds
<1>6. ~unassigned
    BY <1>1 DEF OwnInv, ValueInv
<1>7. ASSUME left' = 0 PROVE buf'[1].part = "text"
  <2>1. left = 0 /\ Len(buf') >= maxlines
      BY <1>3, <1>7
  <2>2. maxlines = 2 /\ \A k \in 1..Len(buf) : buf[k].part = "cr" <=> k = 2
      BY <1>1, <2>1 DEF OwnInv, OnlyInv
  <2>3. 1 \in 1..Len(buf) /\ 1 \in 1..Len(buf')
      BY <1>2, <2>1, <2>2
  <2>4. buf'[1] = buf[1] /\ buf[1].part # "cr"
    <3>1. 1 # 2
        OBVIOUS
    <3> QED
        BY <2>2, <2>3, <3>1 DEF Takes
  <2>5. buf'[1] \in Texts
      BY <2>3, ElementOfSeq
  <2> QED
      BY <2>4, <2>5 DEF Texts
<1>8. ParseInv'
    BY <1>6, <1>7 DEF ParseInv
<1>9. SerialTypes' /\ RecordInv'
    BY <1>3 DEF OwnInv, SerialTypes, RecordInv, Takes
<1>10. ValueInv'
    BY DEF OwnInv, ValueInv, Busy, Waiting
<1> QED
    BY <1>5, <1>8, <1>9, <1>10 DEF OwnInv

LEMMA ProtekReadStep == OwnInv /\ ProtekRead => OwnInv'
<1> SUFFICES ASSUME OwnInv, ProtekRead PROVE OwnInv'
    OBVIOUS
<1>1. /\ pc = "read" /\ type = "protek506" /\ line # <<>> /\ Asked /\ Waiting
      /\ buf' = Append(buf, Head(line)) /\ line' = Tail(line)
      /\ IF Head(line).part = "cr" THEN pc' = "parse" /\ Behind(Len(buf'))
         ELSE pc' = pc /\ left' = left
      /\ UNCHANGED <<type, mode, maxlines, query, value, rc, unassigned, asked, out, plugged,
                     sent, taken, from>>
    BY DEF ProtekRead, callVars, mmVars, devVars, Asked, Waiting
<1>2. /\ Takes(1) /\ buf' \in Seq(Texts) /\ line' \in Seq(Texts)
      /\ Head(line) = line[1] /\ buf' # <<>>
    BY <1>1, ProtekTakes
<1>3. CASE Head(line).part = "cr"
    BY <1>1, <1>2, <1>3, ProtekEnds
<1>4. CASE Head(line).part # "cr"
  <2>1. pc' = "read" /\ left' = left /\ Waiting'
      BY <1>1, <1>4 DEF Waiting
  <2>2. StreamInv'
      BY <1>1, <1>2, <2>1, WaitGoesOn
  <2>3. SerialTypes' /\ RecordInv' /\ ParseInv' /\ ValueInv'
      BY <1>1, <1>2, <2>1 DEF OwnInv, SerialTypes, RecordInv, ParseInv, ValueInv, Takes,
         Waiting, Busy
  <2>4. ASSUME left = 0 PROVE OnlyInv'
    <3>1. /\ Len(buf) < maxlines /\ maxlines = 2
          /\ asked # <<>> => Len(asked) = maxlines /\ asked[1].more = maxlines - 1
          /\ \A k \in 1..Len(buf) : buf[k].part = "cr" <=> k = 2
          /\ \A k \in 1..Len(line) : line[k].part = "cr" <=> Len(buf) + k = 2
          /\ \A k \in 1..Len(out) : out[k].part = "cr" <=> Len(buf) + Len(line) + k = 2
        BY <1>1, <2>4 DEF OwnInv, OnlyInv
    <3>2. /\ Len(buf) \in Nat /\ Len(line) \in Nat /\ 1 \in 1..Len(line) /\ Len(line') \in Nat
          /\ Len(buf') = Len(buf) + 1 /\ Len(line') = Len(line) - 1
      <4>1. buf \in Seq(Parts) /\ line \in Seq(Parts)
          BY <1>1 DEF OwnInv, SerialTypes
      <4> QED
          BY <1>2, <4>1, LenProperties DEF Takes
    <3>3. line[1].part # "cr"
        BY <1>2, <1>4
    <3>4. Len(buf) # 1
        BY <3>1, <3>2, <3>3
    <3>5. Len(buf) = 0 /\ Len(buf') = 1
      <4>0. Len(buf) < 2 /\ Len(buf) \in Nat /\ Len(buf) # 1
          BY <3>1, <3>2, <3>4
      <4>1. Len(buf) = 0
          BY <4>0
      <4>2. Len(buf') = 0 + 1
          BY <3>2, <4>1
      <4> QED
          BY <4>1, <4>2
    <3>6. \A k \in 1..Len(buf') : buf'[k].part = "cr" <=> k = 2
      <4> TAKE k \in 1..Len(buf')
      <4>1. k = 1
          BY <3>5
      <4>2. 1 \in 1..1 /\ buf'[Len(buf) + 1] = line[1]
          BY <1>2 DEF Takes
      <4>3. Len(buf) + 1 = 1
          BY <3>5
      <4> QED
          BY <3>3, <4>1, <4>2, <4>3
    <3>7. \A k \in 1..Len(line') : line'[k].part = "cr" <=> Len(buf') + k = 2
      <4> TAKE k \in 1..Len(line')
      <4>1. 1 + k \in 1..Len(line) /\ Len(buf) + (1 + k) = Len(buf') + k
          BY <3>2
      <4>2. line'[k] = line[1 + k]
          BY <1>2 DEF Takes
      <4> QED
          BY <3>1, <4>1, <4>2
    <3>8. \A k \in 1..Len(out) : out[k].part = "cr" <=> Len(buf') + Len(line') + k = 2
      <4>1. Len(buf') + Len(line') = Len(buf) + Len(line)
          BY <3>2
      <4> QED
          BY <3>1, <4>1
    <3>9. Len(buf') < maxlines
        BY <3>1, <3>5
    <3>10. /\ type' = "protek506" /\ maxlines' = maxlines /\ asked' = asked /\ out' = out
        BY <1>1
    <3> QED
        BY <3>1, <3>6, <3>7, <3>8, <3>9, <3>10 DEF OnlyInv
  <2>5. left # 0 => OnlyInv'
      BY <2>1 DEF OnlyInv
  <2> QED
      BY <2>2, <2>3, <2>4, <2>5 DEF OwnInv
<1> QED
    BY <1>3, <1>4

LEMMA ProtekReadEarlyStep == OwnInv /\ ProtekReadEarly => OwnInv'
<1> SUFFICES ASSUME OwnInv, ProtekReadEarly PROVE OwnInv'
    OBVIOUS
<1> DEFINE rest == [Head(line) EXCEPT !.kind = "words"]
<1>1. /\ pc = "read" /\ type = "protek506" /\ line # <<>> /\ Asked /\ Waiting /\ pc' = "parse"
      /\ Head(line).part = "text"
      /\ UNCHANGED <<type, mode, maxlines, query, value, rc, asked, out, plugged, sent, taken, from>>
    BY DEF ProtekReadEarly, callVars, devVars, Asked, Waiting
<1>2. \/ /\ buf' = Append(buf, Head(line)) /\ line' = Tail(line)
         /\ Behind(Len(buf')) /\ unassigned' = unassigned
      \/ /\ line' = <<rest>> \o Tail(line)
         /\ Behind(Len(buf)) /\ unassigned' = TRUE /\ buf' = buf
    BY DEF ProtekReadEarly
<1>3. CASE /\ buf' = Append(buf, Head(line)) /\ line' = Tail(line)
           /\ Behind(Len(buf')) /\ unassigned' = unassigned
  <2>1. /\ Takes(1) /\ buf' \in Seq(Texts) /\ line' \in Seq(Texts) /\ buf' # <<>>
      BY <1>1, <1>3, ProtekTakes
  <2> QED
      BY <1>1, <1>3, <2>1, ProtekEnds
<1>4. CASE /\ line' = <<rest>> \o Tail(line)
           /\ Behind(Len(buf)) /\ unassigned' = TRUE /\ buf' = buf
  <2>1. line \in Seq(Texts) /\ Len(line) \in Nat
      BY <1>1, LenProperties DEF OwnInv, SerialTypes
  <2>2. /\ Head(line) \in Texts /\ Head(line) = line[1] /\ Tail(line) \in Seq(Texts)
        /\ Len(Tail(line)) = Len(line) - 1 /\ \A k \in 1..Len(line) - 1 : Tail(line)[k] = line[k + 1]
      BY <1>1, <2>1, HeadTailProperties
  <2>3. rest \in Texts /\ rest.q = line[1].q
      BY <1>1, <2>2 DEF Texts, Parts
  <2> HIDE DEF rest
  <2>4. <<rest>> \in Seq(Texts) /\ Len(<<rest>>) = 1 /\ <<rest>>[1] = rest
      BY <2>3
  <2>5. /\ line' \in Seq(Texts) /\ Len(line') = 1 + Len(Tail(line))
        /\ \A k \in 1..1 + Len(Tail(line)) :
              line'[k] = IF k <= 1 THEN <<rest>>[k] ELSE Tail(line)[k - 1]
      BY <1>4, <2>2, <2>4, ConcatProperties
  <2>6. Len(line) >= 1 /\ Len(line') = Len(line)
      BY <1>1, <2>1, <2>2, <2>5, EmptySeq
  <2>7. \A k \in 1..Len(line') : line'[k].q = line[k].q
    <3> TAKE k \in 1..Len(line')
    <3>1. CASE k = 1
        BY <2>3, <2>4, <2>5, <2>6, <3>1
    <3>2. CASE k # 1
      <4>1. k - 1 \in 1..Len(line) - 1 /\ (k - 1) + 1 = k /\ ~(k <= 1) /\ k \in 1..1 + Len(Tail(line))
          BY <2>1, <2>2, <2>6, <3>2
      <4>2. Tail(line)[k - 1] = line[k]
          BY <2>2, <4>1
      <4>3. line'[k] = Tail(line)[k - 1]
          BY <2>5, <4>1
      <4> QED
          BY <4>2, <4>3
    <3> QED
        BY <3>1, <3>2
  <2>8. line' \in Seq(Parts)
    <3>1. Texts \subseteq Parts
        BY DEF Texts
    <3>2. \A k \in 1..Len(line') : line'[k] \in Parts
        BY <2>5, <3>1, ElementOfSeq
    <3>3. line' = [k \in 1..Len(line') |-> line'[k]] /\ Len(line') \in Nat
        BY <2>5, LenProperties
    <3> QED
        BY <3>2, <3>3, SeqDef
  <2>9. StreamInv' /\ OnlyInv' /\ left' \in Nat /\ left' > 0
    <3>1. pc' \in {"parse", "returned"}
        BY <1>1
    <3> QED
        BY <1>1, <1>4, <2>6, <2>7, <2>8, <3>1, GivenUp
  <2>10. SerialTypes'
    <3>1. unassigned' \in BOOLEAN
        BY <1>4
    <3> QED
        BY <1>1, <1>4, <2>5, <2>8, <2>9, <3>1 DEF OwnInv, SerialTypes
  <2>11. ParseInv'
    <3>1. left' # 0 /\ unassigned'
        BY <1>4, <2>9
    <3> QED
        BY <3>1 DEF ParseInv
  <2>12. RecordInv' /\ ValueInv'
      BY <1>1 DEF OwnInv, RecordInv, ValueInv, Waiting, Busy
  <2> QED
      BY <2>9, <2>10, <2>11, <2>12 DEF OwnInv
<1> QED
    BY <1>2, <1>3, <1>4

LEMMA ProtekParseStep == OwnInv /\ ProtekParse => OwnInv'
<1> SUFFICES ASSUME OwnInv, ProtekParse PROVE OwnInv'
    OBVIOUS
<1>1. /\ pc = "parse" /\ type = "protek506" /\ Asked /\ pc' = "returned"
      /\ UNCHANGED <<type, mode, maxlines, query, buf, asked, out, plugged, left, sent,
                     line, taken, from>>
    BY DEF ProtekParse, callVars, devVars, Asked
<1>2. \/ ~unassigned /\ buf[1].kind = "number" /\ value' = buf[1].q /\ unassigned' = unassigned
      \/ ~(~unassigned /\ buf[1].kind = "number") /\ unassigned' = TRUE
    BY DEF ProtekParse
<1>3. buf \in Seq(Texts) /\ unassigned' \in BOOLEAN
    BY <1>1, <1>2 DEF OwnInv, SerialTypes
<1>4. ASSUME ~unassigned PROVE 1 \in 1..Len(buf)
  <2>1. buf # <<>>
      BY <1>1, <1>4 DEF OwnInv, ParseInv
  <2> QED
      BY <1>3, <2>1, EmptySeq, LenProperties
<1>5. StreamInv' /\ OnlyInv' /\ ParseInv'
    BY <1>1, ParseEnds
<1>6. ~unassigned' => value' \in (query - left)..query
  <2> SUFFICES ASSUME ~unassigned' PROVE value' \in (query - left)..query
      OBVIOUS
  <2>1. ~unassigned /\ value' = buf[1].q
      BY <1>2
  <2>2. \A k \in 1..Len(buf) : buf[k].q \in (query - left)..query
      BY <1>1 DEF OwnInv, StreamInv
  <2> QED
      BY <1>4, <2>1, <2>2
<1>7. ASSUME unassigned', left = 0 PROVE \E k \in 1..Len(buf) : buf[k].kind = "words"
  <2>1. ~unassigned /\ buf[1].part = "text"
      BY <1>1, <1>7 DEF OwnInv, ParseInv
  <2>2. buf[1].kind # "number"
      BY <1>2, <1>7, <2>1
  <2>3. buf[1] \in Texts
      BY <1>3, <1>4, <2>1, ElementOfSeq
  <2>4. buf[1].kind = "words"
      BY <2>1, <2>2, <2>3 DEF Texts
  <2> QED
      BY <1>4, <2>1, <2>4
<1>8. ValueInv'
    BY <1>1, <1>6, <1>7 DEF ValueInv, Waiting, Busy, Asked
<1>9. SerialTypes' /\ RecordInv'
    BY <1>1, <1>3 DEF OwnInv, SerialTypes, RecordInv
<1> QED
    BY <1>5, <1>8, <1>9 DEF OwnInv

-----------------------------------------------------------------------------
(* The Watts Up: records are read in order *)

\* What moves from the front of t to the end of s keeps the order.
LEMMA OrderMoved ==
    ASSUME SerialTypes, NEW s \in Seq(Parts), NEW t \in Seq(Parts), NEW n \in Nat, n <= Len(t),
           InOrder(s), InOrder(t), Before(s, t)
    PROVE  LET s2 == s \o SubSeq(t, 1, n)
               t2 == SubSeq(t, n + 1, Len(t))
           IN  /\ InOrder(s2) /\ InOrder(t2) /\ Before(s2, t2)
               /\ \A u \in Seq(Parts) : Before(s, u) /\ Before(t, u) => Before(s2, u) /\ Before(t2, u)
               /\ \A u \in Seq(Parts) : Before(u, s) /\ Before(u, t) => Before(u, s2) /\ Before(u, t2)
<1> DEFINE s2 == s \o SubSeq(t, 1, n)
           t2 == SubSeq(t, n + 1, Len(t))
<1>1. /\ s2 \in Seq(Parts) /\ t2 \in Seq(Parts) /\ Len(s) \in Nat /\ Len(t) \in Nat
      /\ Len(s2) = Len(s) + n /\ Len(t2) = Len(t) - n
      /\ \A k \in 1..Len(s) : s2[k] = s[k]
      /\ \A k \in 1..n : s2[Len(s) + k] = t[k]
      /\ \A k \in 1..(Len(t) - n) : t2[k] = t[n + k]
    BY Moved
<1> HIDE DEF s2, t2
<1>2. \A k \in 1..Len(s2) : \/ k \in 1..Len(s) /\ s2[k] = s[k]
                            \/ /\ k - Len(s) \in 1..n /\ k - Len(s) \in 1..Len(t)
                               /\ k > Len(s) /\ s2[k] = t[k - Len(s)]
  <2> SUFFICES ASSUME NEW k \in 1..Len(s2), k \notin 1..Len(s)
               PROVE  /\ k - Len(s) \in 1..n /\ k - Len(s) \in 1..Len(t)
                      /\ k > Len(s) /\ s2[k] = t[k - Len(s)]
      BY <1>1
  <2>1. k - Len(s) \in 1..n /\ k - Len(s) \in 1..Len(t) /\ k > Len(s)
        /\ Len(s) + (k - Len(s)) = k
      BY <1>1
  <2> QED
      BY <1>1, <2>1
<1>3. \A k \in 1..Len(t2) : n + k \in 1..Len(t) /\ t2[k] = t[n + k]
    BY <1>1
<1>4. \A p \in Parts : Pos(p) \in Int
    BY DEF Pos, Parts
<1>5. /\ \A k \in 1..Len(s) : Pos(s[k]) \in Int
      /\ \A k \in 1..Len(t) : Pos(t[k]) \in Int
    BY <1>4, ElementOfSeq
<1>6. InOrder(s2)
  <2>1. \A k \in 1..Len(s2) : /\ Record(s2[k])
                              /\ Pos(s2[k]) > 2 * taken /\ Pos(s2[k]) <= 2 * Len(sent)
      BY <1>2 DEF InOrder
  <2>2. ASSUME NEW j \in 1..Len(s2), NEW k \in 1..Len(s2), j < k
        PROVE  Pos(s2[j]) < Pos(s2[k])
    <3>1. CASE k \in 1..Len(s)
      <4>1. j \in 1..Len(s) /\ s2[j] = s[j] /\ s2[k] = s[k]
          BY <1>1, <2>2, <3>1
      <4> QED
          BY <2>2, <3>1, <4>1 DEF InOrder
    <3>2. CASE k \notin 1..Len(s) /\ j \in 1..Len(s)
      <4>1. s2[j] = s[j] /\ k - Len(s) \in 1..Len(t) /\ s2[k] = t[k - Len(s)]
          BY <1>1, <1>2, <3>2
      <4> QED
          BY <3>2, <4>1 DEF Before
    <3>3. CASE k \notin 1..Len(s) /\ j \notin 1..Len(s)
      <4>1. /\ j - Len(s) \in 1..Len(t) /\ s2[j] = t[j - Len(s)]
            /\ k - Len(s) \in 1..Len(t) /\ s2[k] = t[k - Len(s)]
            /\ j - Len(s) < k - Len(s)
          BY <1>1, <1>2, <2>2, <3>3
      <4> QED
          BY <4>1 DEF InOrder
    <3> QED
        BY <3>1, <3>2, <3>3
  <2> QED
      BY <2>1, <2>2 DEF InOrder
<1>7. InOrder(t2)
  <2>1. \A j, k \in 1..Len(t2) : j < k => n + j < n + k
      OBVIOUS
  <2> QED
      BY <1>3, <2>1 DEF InOrder
<1>8. Before(s2, t2)
  <2> SUFFICES ASSUME NEW j \in 1..Len(s2), NEW k \in 1..Len(t2)
               PROVE  Pos(s2[j]) < Pos(t2[k])
      BY DEF Before
  <2>1. n + k \in 1..Len(t) /\ t2[k] = t[n + k]
      BY <1>3
  <2>2. CASE j \in 1..Len(s)
      BY <1>1, <2>1, <2>2 DEF Before
  <2>3. CASE j \notin 1..Len(s)
    <3>1. j - Len(s) \in 1..Len(t) /\ j - Len(s) < n + k /\ s2[j] = t[j - Len(s)]
        BY <1>1, <1>2, <2>3
    <3> QED
        BY <2>1, <3>1 DEF InOrder
  <2> QED
      BY <2>2, <2>3
<1>9. ASSUME NEW u \in Seq(Parts), Before(s, u), Before(t, u)
      PROVE  Before(s2, u) /\ Before(t2, u)
    BY <1>2, <1>3, <1>9 DEF Before
<1>10. ASSUME NEW u \in Seq(Parts), Before(u, s), Before(u, t)
       PROVE  Before(u, s2) /\ Before(u, t2)
    BY <1>2, <1>3, <1>10 DEF Before
<1> QED
    BY <1>6, <1>7, <1>8, <1>9, <1>10 DEF s2, t2

\* watts_up_read takes what is there; the order is kept.
LEMMA WattsReadStep == ASSUME OwnInv, NEW n \in 1..Len(line), WattsRead(n) PROVE OwnInv'
<1>1. /\ pc = "read" /\ type = "wattsup"
      /\ buf' = buf \o SubSeq(line, 1, n) /\ line' = SubSeq(line, n + 1, Len(line))
      /\ pc' \in {"read", "parse"}
      /\ UNCHANGED <<type, mode, maxlines, query, value, rc, unassigned, asked, out, plugged,
                     left, sent, taken, from>>
    BY DEF WattsRead, callVars, mmVars, devVars
<1>2. /\ buf \in Seq(Parts) /\ line \in Seq(Parts) /\ out \in Seq(Parts) /\ SerialTypes
      /\ InOrder(buf) /\ InOrder(line) /\ InOrder(out)
      /\ Before(buf, line) /\ Before(buf, out) /\ Before(line, out) /\ taken <= Len(sent)
    BY <1>1 DEF OwnInv, SerialTypes, RecordInv, Busy
<1>3. n \in Nat /\ n <= Len(line)
    BY <1>2, LenProperties
<1>4. /\ buf \o SubSeq(line, 1, n) \in Seq(Parts)
      /\ SubSeq(line, n + 1, Len(line)) \in Seq(Parts)
    BY <1>2, <1>3, Moved
<1>5. /\ InOrder(buf \o SubSeq(line, 1, n)) /\ InOrder(SubSeq(line, n + 1, Len(line)))
      /\ Before(buf \o SubSeq(line, 1, n), SubSeq(line, n + 1, Len(line)))
      /\ Before(buf \o SubSeq(line, 1, n), out) /\ Before(SubSeq(line, n + 1, Len(line)), out)
    BY <1>2, <1>3, OrderMoved
<1>6. SerialTypes'
    BY <1>1, <1>4 DEF OwnInv, SerialTypes
<1>7. RecordInv'
    BY <1>1, <1>2, <1>5 DEF RecordInv, InOrder, Before
<1>8. StreamInv' /\ OnlyInv' /\ ParseInv'
    BY <1>1 DEF StreamInv, OnlyInv, ParseInv, Asked
<1>9. ValueInv'
    BY <1>1 DEF OwnInv, ValueInv, Busy, Waiting
<1> QED
    BY <1>6, <1>7, <1>8, <1>9 DEF OwnInv

\* A record that is taken is later than the one before, and all of what follows
\* on the line is later still: its tail has been read.
LEMMA WattsParseStep == OwnInv /\ WattsParse => OwnInv'
<1> SUFFICES ASSUME OwnInv, WattsParse PROVE OwnInv'
    OBVIOUS
<1>1. /\ pc = "parse" /\ pc' = "returned" /\ type = "wattsup"
      /\ UNCHANGED <<type, mode, maxlines, query, buf, asked, out, plugged, left, sent, line>>
    BY DEF WattsParse, callVars, devVars
<1>2. /\ buf \in Seq(Parts) /\ line \in Seq(Parts) /\ out \in Seq(Parts)
      /\ taken \in Nat /\ from \in Nat /\ sent \in Seq({"data", "other"})
      /\ InOrder(buf) /\ InOrder(line) /\ InOrder(out)
      /\ Before(buf, line) /\ Before(buf, out) /\ Before(line, out) /\ taken <= Len(sent)
    BY <1>1 DEF OwnInv, SerialTypes, RecordInv, Busy
<1>3. StreamInv' /\ OnlyInv' /\ ParseInv'
    BY <1>1 DEF StreamInv, OnlyInv, ParseInv, Asked
<1>4. unassigned' \in BOOLEAN
    BY DEF WattsParse, Guess, OwnInv, SerialTypes
<1>5. CASE /\ taken' = taken /\ from' = from
           /\ mode = "read" => rc' = -1 \/ unassigned'
  <2>1. SerialTypes' /\ RecordInv'
      BY <1>1, <1>4, <1>5 DEF OwnInv, SerialTypes, RecordInv, Busy, InOrder, Before
  <2>2. ValueInv'
      BY <1>1, <1>5 DEF ValueInv, Asked, Busy, Waiting
  <2> QED
      BY <1>3, <2>1, <2>2 DEF OwnInv
<1>6. CASE /\ Ended(buf) /\ buf[1].kind = "data" /\ value' = buf[1].q
           /\ from' = taken /\ taken' = buf[1].q
  <2>1. PICK t \in 1..Len(buf) : buf[t].part = "tail"
      BY <1>6 DEF Ended
  <2>2. Len(buf) \in Nat /\ 1 \in 1..Len(buf) /\ t \in 1..Len(buf)
      BY <1>2, <2>1, LenProperties
  <2>3. buf[1] \in Parts /\ buf[t] \in Parts
      BY <1>2, <2>2, ElementOfSeq
  <2>4. buf[1].part = "head" /\ Pos(buf[1]) = 2 * buf[1].q - 1 /\ buf[1].q \in Nat
      BY <1>2, <1>6, <2>2, <2>3 DEF InOrder, Record, Pos, Parts
  <2>5. Pos(buf[t]) = 2 * buf[t].q /\ buf[t].q \in Nat
      BY <2>1, <2>3 DEF Pos, Parts
  <2>6. 1 < t /\ Pos(buf[1]) < Pos(buf[t])
    <3>1. t # 1
        BY <2>1, <2>4
    <3>2. 1 < t
        BY <2>2, <3>1
    <3> QED
        BY <1>2, <2>2, <3>2 DEF InOrder
  <2>7. 2 * buf[1].q <= Pos(buf[t])
      BY <2>4, <2>5, <2>6
  <2>8. /\ Pos(buf[1]) > 2 * taken /\ Pos(buf[1]) <= 2 * Len(sent) /\ Len(sent) \in Nat
    <3>1. Len(sent) \in Nat
        BY <1>2, LenProperties
    <3> QED
        BY <1>2, <2>2, <3>1 DEF InOrder
  <2>9. buf[1].q > taken /\ buf[1].q <= Len(sent)
      BY <1>2, <2>4, <2>8
  <2>10. ASSUME NEW s \in Seq(Parts), InOrder(s), Before(buf, s)
         PROVE  \A k \in 1..Len(s) : Pos(s[k]) > 2 * buf[1].q
    <3> SUFFICES ASSUME NEW k \in 1..Len(s) PROVE Pos(s[k]) > 2 * buf[1].q
        OBVIOUS
    <3>1. Pos(buf[t]) < Pos(s[k])
        BY <2>1, <2>10 DEF Before
    <3>2. Pos(s[k]) \in Int
      <4>1. s[k] \in Parts
          BY <2>10, ElementOfSeq
      <4> QED
          BY <4>1 DEF Pos, Parts
    <3> QED
        BY <2>4, <2>5, <2>7, <3>1, <3>2
  <2>11. /\ \A k \in 1..Len(line) : Pos(line[k]) > 2 * taken'
         /\ \A k \in 1..Len(out) : Pos(out[k]) > 2 * taken'
      BY <1>2, <1>6, <2>10
  <2>12. RecordInv'
      BY <1>1, <1>2, <1>6, <2>9, <2>11 DEF RecordInv, InOrder, Before, Busy
  <2>13. SerialTypes'
      BY <1>1, <1>2, <1>4, <1>6, <2>4 DEF OwnInv, SerialTypes
  <2>14. ValueInv'
      BY <1>1, <1>6, <2>9 DEF ValueInv, Asked, Busy, Waiting
  <2> QED
      BY <1>3, <2>12, <2>13, <2>14 DEF OwnInv
<1>7. \/ mode = "command" /\ taken' = taken /\ from' = from
      \/ rc' = -1 /\ taken' = taken /\ from' = from
      \/ unassigned' /\ taken' = taken /\ from' = from
      \/ /\ Ended(buf) /\ buf[1].kind = "data" /\ value' = buf[1].q
         /\ from' = taken /\ taken' = buf[1].q
    BY DEF WattsParse, Guess
<1> QED
    BY <1>5, <1>6, <1>7

-----------------------------------------------------------------------------
(* The device *)

LEMMA PairAdded ==
    ASSUME NEW S, NEW s \in Seq(S), NEW a \in S, NEW b \in S
    PROVE  /\ s \o <<a, b>> \in Seq(S) /\ Len(s) \in Nat /\ Len(s \o <<a, b>>) = Len(s) + 2
           /\ \A k \in 1..Len(s) : (s \o <<a, b>>)[k] = s[k]
           /\ (s \o <<a, b>>)[Len(s) + 1] = a /\ (s \o <<a, b>>)[Len(s) + 2] = b
<1> DEFINE pair == <<a, b>>
<1>1. pair \in Seq(S) /\ Len(pair) = 2 /\ pair[1] = a /\ pair[2] = b
    OBVIOUS
<1>2. Len(s) \in Nat
    BY LenProperties
<1> HIDE DEF pair
<1>3. /\ s \o pair \in Seq(S) /\ Len(s \o pair) = Len(s) + Len(pair)
      /\ \A k \in 1..Len(s) + Len(pair) :
            (s \o pair)[k] = IF k <= Len(s) THEN s[k] ELSE pair[k - Len(s)]
    BY <1>1, ConcatProperties
<1>4. /\ Len(s) + 1 \in 1..Len(s) + Len(pair) /\ ~(Len(s) + 1 <= Len(s))
      /\ Len(s) + 2 \in 1..Len(s) + Len(pair) /\ ~(Len(s) + 2 <= Len(s))
      /\ (Len(s) + 1) - Len(s) = 1 /\ (Len(s) + 2) - Len(s) = 2
    BY <1>1, <1>2
<1>5. \A k \in 1..Len(s) : k \in 1..Len(s) + Len(pair) /\ k <= Len(s)
    BY <1>1, <1>2
<1>6. /\ (s \o pair)[Len(s) + 1] = a /\ (s \o pair)[Len(s) + 2] = b
    BY <1>1, <1>3, <1>4
<1>7. \A k \in 1..Len(s) : (s \o pair)[k] = s[k]
    BY <1>3, <1>5
<1> QED
    BY <1>1, <1>2, <1>3, <1>6, <1>7 DEF pair

\* A record goes behind all others.
LEMMA SendRecordStep ==
    ASSUME OwnInv, NEW kind \in {"data", "other"}, SendRecord(kind) PROVE OwnInv'
<1> DEFINE head == Part(Len(sent) + 1, "head", kind)
           tail == Part(Len(sent) + 1, "tail", "none")
<1>1. /\ type = "wattsup" /\ asked # <<>>
      /\ out' = out \o <<head, tail>> /\ sent' = Append(sent, kind)
      /\ UNCHANGED <<type, pc, mode, maxlines, query, buf, value, rc, unassigned, asked, line,
                     plugged, left, taken, from>>
    BY DEF SendRecord, callVars, mmVars
<1>2. /\ buf \in Seq(Parts) /\ line \in Seq(Parts) /\ out \in Seq(Parts)
      /\ taken \in Nat /\ sent \in Seq({"data", "other"}) /\ Len(sent) \in Nat
    BY <1>1, LenProperties DEF OwnInv, SerialTypes
<1>3. sent' \in Seq({"data", "other"}) /\ Len(sent') = Len(sent) + 1
    BY <1>1, <1>2, AppendProperties
<1>4. /\ head \in Parts /\ tail \in Parts /\ Record(head) /\ Record(tail)
      /\ Pos(head) = 2 * Len(sent) + 1 /\ Pos(tail) = 2 * Len(sent) + 2
    BY <1>2 DEF Part, Parts, Record, Pos
<1> HIDE DEF head, tail
<1>5. /\ out' \in Seq(Parts) /\ Len(out) \in Nat /\ Len(out') = Len(out) + 2
      /\ \A k \in 1..Len(out) : out'[k] = out[k]
      /\ out'[Len(out) + 1] = head /\ out'[Len(out) + 2] = tail
  <2>1. /\ out \o <<head, tail>> \in Seq(Parts) /\ Len(out) \in Nat
        /\ Len(out \o <<head, tail>>) = Len(out) + 2
        /\ \A k \in 1..Len(out) : (out \o <<head, tail>>)[k] = out[k]
        /\ (out \o <<head, tail>>)[Len(out) + 1] = head
        /\ (out \o <<head, tail>>)[Len(out) + 2] = tail
      BY <1>2, <1>4, PairAdded
  <2> QED
      BY <1>1, <2>1
<1>6. SerialTypes'
    BY <1>1, <1>3, <1>5 DEF OwnInv, SerialTypes
<1>7. \A k \in 1..Len(out') : \/ k \in 1..Len(out) /\ out'[k] = out[k]
                              \/ k = Len(out) + 1 /\ out'[k] = head
                              \/ k = Len(out) + 2 /\ out'[k] = tail
    BY <1>5
<1>8. /\ taken <= Len(sent) /\ InOrder(line) /\ InOrder(out) /\ Before(line, out)
      /\ pc = "init" => asked = <<>>
      /\ Busy => InOrder(buf) /\ Before(buf, line) /\ Before(buf, out)
    BY <1>1 DEF OwnInv, RecordInv
<1>9. \A p \in Parts : Pos(p) \in Int
    BY DEF Pos, Parts
<1>10. ASSUME NEW s \in Seq(Parts), InOrder(s)
       PROVE  \A k \in 1..Len(s) : /\ Pos(s[k]) \in Int /\ Pos(s[k]) <= 2 * Len(sent)
                                   /\ Pos(s[k]) < Pos(head) /\ Pos(s[k]) < Pos(tail)
                                   /\ Pos(s[k]) <= 2 * Len(sent')
  <2>1. \A k \in 1..Len(s) : Pos(s[k]) \in Int
      BY <1>9, ElementOfSeq
  <2>2. \A k \in 1..Len(s) : Pos(s[k]) <= 2 * Len(sent)
      BY <1>10 DEF InOrder
  <2> QED
      BY <1>2, <1>3, <1>4, <2>1, <2>2
<1>11. InOrder(out)' /\ (taken' <= Len(sent'))
  <2>1. \A k \in 1..Len(out') : /\ Record(out'[k]) /\ Pos(out'[k]) > 2 * taken
                                /\ Pos(out'[k]) <= 2 * Len(sent')
    <3>1. \A k \in 1..Len(out) : /\ Record(out[k]) /\ Pos(out[k]) > 2 * taken
                                 /\ Pos(out[k]) <= 2 * Len(sent')
        BY <1>2, <1>8, <1>10 DEF InOrder
    <3>2. /\ Pos(head) > 2 * taken /\ Pos(head) <= 2 * Len(sent')
          /\ Pos(tail) > 2 * taken /\ Pos(tail) <= 2 * Len(sent')
        BY <1>2, <1>3, <1>4, <1>8
    <3> QED
        BY <1>4, <1>7, <3>1, <3>2
  <2>2. ASSUME NEW j \in 1..Len(out'), NEW k \in 1..Len(out'), j < k
        PROVE  Pos(out'[j]) < Pos(out'[k])
    <3>1. CASE k \in 1..Len(out)
      <4>1. j \in 1..Len(out) /\ out'[j] = out[j] /\ out'[k] = out[k]
          BY <1>5, <2>2, <3>1
      <4> QED
          BY <1>8, <2>2, <3>1, <4>1 DEF InOrder
    <3>2. CASE j \in 1..Len(out) /\ k \notin 1..Len(out)
        BY <1>2, <1>7, <1>8, <1>10, <3>2, <1>5
    <3>3. CASE j \notin 1..Len(out)
      <4>1. j = Len(out) + 1 /\ k = Len(out) + 2
          BY <1>5, <2>2, <3>3
      <4> QED
          BY <1>2, <1>4, <1>5, <4>1
    <3> QED
        BY <1>5, <2>2, <3>1, <3>2, <3>3
  <2>3. taken <= Len(sent')
      BY <1>2, <1>3, <1>8
  <2> QED
      BY <1>1, <2>1, <2>2, <2>3 DEF InOrder
<1>12. ASSUME NEW s \in Seq(Parts), InOrder(s), Before(s, out)
       PROVE  Before(s, out')
    BY <1>7, <1>10, <1>12 DEF Before
<1>13. ASSUME NEW s \in Seq(Parts), InOrder(s)
       PROVE  /\ \A k \in 1..Len(s) : Record(s[k]) /\ Pos(s[k]) > 2 * taken
                                      /\ Pos(s[k]) <= 2 * Len(sent')
              /\ \A j, k \in 1..Len(s) : j < k => Pos(s[j]) < Pos(s[k])
  <2>1. \A k \in 1..Len(s) : Pos(s[k]) <= 2 * Len(sent')
      BY <1>10, <1>13
  <2> QED
      BY <1>13, <2>1 DEF InOrder
<1>14. Before(line, out') /\ InOrder(line)'
  <2>1. Before(line, out')
      BY <1>2, <1>8, <1>12
  <2>2. /\ \A k \in 1..Len(line) : Record(line[k]) /\ Pos(line[k]) > 2 * taken
                                   /\ Pos(line[k]) <= 2 * Len(sent')
        /\ \A j, k \in 1..Len(line) : j < k => Pos(line[j]) < Pos(line[k])
      BY <1>2, <1>8, <1>13
  <2>3. line' = line /\ taken' = taken
      BY <1>1
  <2> QED
      BY <2>1, <2>2, <2>3 DEF InOrder
<1>15. Busy => Before(buf, out') /\ InOrder(buf)'
  <2> SUFFICES ASSUME Busy PROVE Before(buf, out') /\ InOrder(buf)'
      OBVIOUS
  <2>1. Before(buf, out')
      BY <1>2, <1>8, <1>12
  <2>2. /\ \A k \in 1..Len(buf) : Record(buf[k]) /\ Pos(buf[k]) > 2 * taken
                                  /\ Pos(buf[k]) <= 2 * Len(sent')
        /\ \A j, k \in 1..Len(buf) : j < k => Pos(buf[j]) < Pos(buf[k])
      BY <1>2, <1>8, <1>13
  <2>3. buf' = buf /\ taken' = taken
      BY <1>1
  <2> QED
      BY <2>1, <2>2, <2>3 DEF InOrder
<1>16. RecordInv'
  <2>1. /\ pc' = pc /\ line' = line /\ buf' = buf
      BY <1>1
  <2>2. pc # "init"
      BY <1>1, <1>8
  <2> QED
      BY <1>8, <1>11, <1>14, <1>15, <2>1, <2>2 DEF RecordInv, Busy, Before
<1>17. StreamInv' /\ OnlyInv' /\ ParseInv'
    BY <1>1 DEF StreamInv, OnlyInv, ParseInv, Asked
<1>18. ValueInv'
    BY <1>1 DEF OwnInv, ValueInv, Busy, Waiting, Asked
<1> QED
    BY <1>6, <1>16, <1>17, <1>18 DEF OwnInv

LEMMA TwoLines == ASSUME NEW x, NEW y PROVE <<x>> \o <<y>> = <<x, y>>
<1> DEFINE s == <<x>>
           t == <<y>>
           u == <<x, y>>
<1>1. /\ s \in Seq({x, y}) /\ t \in Seq({x, y}) /\ u \in Seq({x, y})
      /\ Len(s) = 1 /\ Len(t) = 1 /\ Len(u) = 2
      /\ s[1] = x /\ t[1] = y /\ u[1] = x /\ u[2] = y
    OBVIOUS
<1> HIDE DEF s, t, u
<1>2. /\ s \o t \in Seq({x, y}) /\ Len(s \o t) = Len(s) + Len(t)
      /\ \A k \in 1..Len(s) + Len(t) :
            (s \o t)[k] = IF k <= Len(s) THEN s[k] ELSE t[k - Len(s)]
    BY <1>1, ConcatProperties
<1>3. Len(s \o t) = Len(u) /\ \A k \in 1..Len(s \o t) : (s \o t)[k] = u[k]
    BY <1>1, <1>2
<1>4. s \o t = u
    BY <1>1, <1>2, <1>3, SeqEqual
<1> QED
    BY <1>4 DEF s, t, u

\* What the device's answer adds: parts of the query that was asked first, as many
\* as were asked for or, when the Fluke refuses, one.
LEMMA Answered ==
    ASSUME OwnInv, Answer
    PROVE  /\ Asked /\ out' \in Seq(Parts)
           /\ type = "protek506" => out' \in Seq(Texts)
           /\ \E m \in {1, 2} :
                 /\ Len(out') = Len(out) + m
                 /\ \A k \in 1..Len(out) : out'[k] = out[k]
                 /\ \A k \in 1..m : out'[Len(out) + k].q = asked[1].q
                 /\ type = "fluke189" =>
                       /\ m <= asked[1].more + 1
                       /\ m = 2 => \A k \in 1..2 : out'[Len(out) + k].part # "nak"
                 /\ type = "protek506" =>
                       /\ m = 2
                       /\ out'[Len(out) + 1].part = "text" /\ out'[Len(out) + 2].part = "cr"
<1> DEFINE a == Head(asked)
<1>1. Asked /\ asked # <<>>
    BY DEF Answer, Asked
<1>2. /\ out \in Seq(Parts) /\ asked \in Seq(Asks) /\ Len(out) \in Nat
      /\ type = "protek506" => out \in Seq(Texts)
    BY <1>1, LenProperties DEF OwnInv, SerialTypes, Asked
<1>3. a = asked[1] /\ a.q \in Nat /\ a.more \in {0, 1}
  <2>1. a \in Asks /\ a = asked[1]
      BY <1>1, <1>2, HeadTailProperties
  <2> HIDE DEF a
  <2> QED
      BY <2>1 DEF Asks
<1> HIDE DEF a
<1> DEFINE ack == Part(a.q, "ack", "none")
           nak == Part(a.q, "nak", "none")
           cr == Part(a.q, "cr", "none")
           data(kind) == Part(a.q, "data", kind)
           text(kind) == Part(a.q, "text", kind)
<1>4. /\ \A p \in {ack, nak} : p \in Parts /\ p.q = a.q
      /\ ack.part # "nak"
      /\ \A kind \in {"amps", "volts", "ohms", "negative"} :
            data(kind) \in Parts /\ data(kind).q = a.q /\ data(kind).part # "nak"
      /\ \A kind \in {"number", "words"} :
            /\ text(kind) \in Parts /\ text(kind) \in Texts
            /\ text(kind).q = a.q /\ text(kind).part = "text"
      /\ cr \in Parts /\ cr \in Texts /\ cr.q = a.q /\ cr.part = "cr"
    BY <1>3, SMTT(30) DEF Part, Parts, Texts
<1>5. \/ /\ type = "fluke189" /\ a.more = 1
         /\ \E p, d \in Parts : /\ p.q = a.q /\ d.q = a.q /\ p.part # "nak" /\ d.part # "nak"
                                /\ out' = out \o <<p, d>>
      \/ type = "fluke189" /\ \E p \in Parts : p.q = a.q /\ out' = Append(out, p)
      \/ /\ type = "protek506"
         /\ \E p, d \in Parts : /\ p \in Texts /\ d \in Texts /\ p.q = a.q /\ d.q = a.q
                                /\ p.part = "text" /\ d.part = "cr" /\ out' = out \o <<p, d>>
  <2>1. CASE type = "fluke189" /\ \E kind \in {"amps", "volts", "ohms", "negative"} :
               out' = out \o (<<ack>> \o IF a.more = 1 THEN <<data(kind)>> ELSE <<>>)
    <3>1. PICK kind \in {"amps", "volts", "ohms", "negative"} :
               out' = out \o (<<ack>> \o IF a.more = 1 THEN <<data(kind)>> ELSE <<>>)
        BY <2>1
    <3>2. /\ data(kind) \in Parts /\ data(kind).q = a.q /\ data(kind).part # "nak"
          /\ ack \in Parts /\ ack.q = a.q /\ ack.part # "nak"
        BY <1>4
    <3> HIDE DEF ack, data
    <3>3. CASE a.more = 1
      <4>1. <<ack>> \o <<data(kind)>> = <<ack, data(kind)>>
          BY TwoLines
      <4> QED
          BY <2>1, <3>1, <3>2, <3>3, <4>1
    <3>4. CASE a.more # 1
      <4>1. ack \in Parts /\ <<ack>> \in Seq(Parts)
          BY <3>2
      <4>2. <<ack>> \o <<>> = <<ack>>
          BY <4>1, ConcatEmptySeq
      <4>3. out \o <<ack>> = Append(out, ack)
          BY <1>2, <4>1, AppendIsConcat
      <4> QED
          BY <2>1, <3>1, <3>2, <3>4, <4>2, <4>3
    <3> QED
        BY <3>3, <3>4
  <2>2. CASE type = "fluke189" /\ out' = Append(out, nak)
      BY <1>4, <2>2
  <2>3. CASE type = "protek506" /\ \E kind \in {"number", "words"} :
               out' = out \o <<text(kind), cr>>
    <3>1. PICK kind \in {"number", "words"} : out' = out \o <<text(kind), cr>>
        BY <2>3
    <3>2. /\ text(kind) \in Parts /\ text(kind) \in Texts /\ text(kind).q = a.q
          /\ text(kind).part = "text" /\ cr \in Parts /\ cr \in Texts /\ cr.q = a.q /\ cr.part = "cr"
        BY <1>4
    <3> HIDE DEF text, cr
    <3> QED
        BY <2>3, <3>1, <3>2
  <2> QED
      BY <2>1, <2>2, <2>3 DEF Answer, a
<1> HIDE DEF ack, nak, cr, data, text
<1>6. CASE /\ type = "fluke189" /\ a.more = 1
           /\ \E p, d \in Parts : /\ p.q = a.q /\ d.q = a.q /\ p.part # "nak" /\ d.part # "nak"
                                  /\ out' = out \o <<p, d>>
  <2>1. PICK p \in Parts, d \in Parts : /\ p.q = a.q /\ d.q = a.q /\ p.part # "nak" /\ d.part # "nak"
                                        /\ out' = out \o <<p, d>>
      BY <1>6
  <2>2. /\ out' \in Seq(Parts) /\ Len(out') = Len(out) + 2
        /\ \A k \in 1..Len(out) : out'[k] = out[k]
        /\ out'[Len(out) + 1] = p /\ out'[Len(out) + 2] = d
      BY <1>2, <2>1, PairAdded
  <2>3. \A k \in 1..2 : out'[Len(out) + k].q = asked[1].q /\ out'[Len(out) + k].part # "nak"
    <3> TAKE k \in 1..2
    <3>1. k = 1 \/ k = 2
        OBVIOUS
    <3> QED
        BY <1>3, <2>1, <2>2, <3>1
  <2>4. type # "protek506" /\ 2 <= asked[1].more + 1
      BY <1>3, <1>6
  <2> QED
      BY <1>1, <2>2, <2>3, <2>4
<1>7. CASE type = "fluke189" /\ \E p \in Parts : p.q = a.q /\ out' = Append(out, p)
  <2>1. PICK p \in Parts : p.q = a.q /\ out' = Append(out, p)
      BY <1>7
  <2>2. /\ out' \in Seq(Parts) /\ Len(out') = Len(out) + 1
        /\ \A k \in 1..Len(out) : out'[k] = out[k]
        /\ out'[Len(out) + 1] = p
      BY <1>2, <2>1, AppendProperties
  <2>3. \A k \in 1..1 : out'[Len(out) + k].q = asked[1].q
    <3> TAKE k \in 1..1
    <3>1. k = 1
        OBVIOUS
    <3> QED
        BY <1>3, <2>1, <2>2, <3>1
  <2>4. type # "protek506" /\ 1 <= asked[1].more + 1
      BY <1>3, <1>7
  <2> QED
      BY <1>1, <2>2, <2>3, <2>4
<1>8. CASE /\ type = "protek506"
           /\ \E p, d \in Parts : /\ p \in Texts /\ d \in Texts /\ p.q = a.q /\ d.q = a.q
                                  /\ p.part = "text" /\ d.part = "cr" /\ out' = out \o <<p, d>>
  <2>1. PICK p \in Parts, d \in Parts :
              /\ p \in Texts /\ d \in Texts /\ p.q = a.q /\ d.q = a.q
              /\ p.part = "text" /\ d.part = "cr" /\ out' = out \o <<p, d>>
      BY <1>8
  <2>2. /\ out' \in Seq(Parts) /\ Len(out') = Len(out) + 2
        /\ \A k \in 1..Len(out) : out'[k] = out[k]
        /\ out'[Len(out) + 1] = p /\ out'[Len(out) + 2] = d
      BY <1>2, <2>1, PairAdded
  <2>3. out' \in Seq(Texts)
      BY <1>2, <1>8, <2>1, PairAdded
  <2>4. \A k \in 1..2 : out'[Len(out) + k].q = asked[1].q
    <3> TAKE k \in 1..2
    <3>1. k = 1 \/ k = 2
        OBVIOUS
    <3> QED
        BY <1>3, <2>1, <2>2, <3>1
  <2> QED
      BY <1>1, <1>8, <2>1, <2>2, <2>3, <2>4
<1> QED
    BY <1>5, <1>6, <1>7, <1>8

\* The device answers: every part is where the part it was asked for was, or
\* further ahead.
LEMMA AnswerStep == OwnInv /\ Answer => OwnInv'
<1> SUFFICES ASSUME OwnInv, Answer PROVE OwnInv'
    OBVIOUS
<1> DEFINE r == asked[1].more + 1
           n == Held + Len(line)
<1>1. /\ plugged /\ asked # <<>> /\ asked' = SubSeq(asked, asked[1].more + 2, Len(asked))
      /\ UNCHANGED <<type, pc, mode, maxlines, query, buf, value, rc, unassigned, line, plugged,
                     left, sent, taken, from>>
    BY DEF Answer, callVars, mmVars
<1>2. /\ Asked /\ out' \in Seq(Parts)
      /\ type = "protek506" => out' \in Seq(Texts)
    BY Answered
<1>3. PICK m \in {1, 2} :
         /\ Len(out') = Len(out) + m
         /\ \A k \in 1..Len(out) : out'[k] = out[k]
         /\ \A k \in 1..m : out'[Len(out) + k].q = asked[1].q
         /\ type = "fluke189" => /\ m <= asked[1].more + 1
                                 /\ m = 2 => \A k \in 1..2 : out'[Len(out) + k].part # "nak"
         /\ type = "protek506" => /\ m = 2
                                  /\ out'[Len(out) + 1].part = "text" /\ out'[Len(out) + 2].part = "cr"
    BY Answered
<1>4. /\ buf \in Seq(Parts) /\ line \in Seq(Parts) /\ out \in Seq(Parts) /\ asked \in Seq(Asks)
      /\ Len(buf) \in Nat /\ Len(line) \in Nat /\ Len(out) \in Nat /\ maxlines \in {1, 2}
      /\ Len(asked) \in Nat /\ Len(asked) >= 1 /\ query \in Nat /\ left \in Nat
  <2>1. /\ buf \in Seq(Parts) /\ line \in Seq(Parts) /\ out \in Seq(Parts) /\ asked \in Seq(Asks)
        /\ query \in Nat /\ left \in Nat /\ maxlines \in {1, 2}
      BY <1>2 DEF OwnInv, SerialTypes, Asked
  <2> QED
      BY <1>1, <2>1, EmptySeq, LenProperties
<1>5. 1 \in 1..Len(asked) /\ r \in {1, 2} /\ asked[1].more \in {0, 1}
  <2>1. 1 \in 1..Len(asked) /\ asked[1].more \in {0, 1}
      BY <1>4, AskNumber
  <2> QED
      BY <2>1
<1> HIDE DEF r
<1>6. asked' = SubSeq(asked, r + 1, Len(asked))
    BY <1>1, <1>5, SMTT(30) DEF r
<1>7. asked' \in Seq(Asks) /\ Len(asked') \in Nat
  <2>1. r + 1 \in Int /\ Len(asked) \in Int
      BY <1>4, <1>5
  <2>2. \A k \in r + 1..Len(asked) : asked[k] \in Asks
      BY <1>4, <1>5, ElementOfSeq
  <2>3. SubSeq(asked, r + 1, Len(asked)) \in Seq(Asks)
      BY <2>1, <2>2, SubSeqProperties
  <2> QED
      BY <1>6, <2>3, LenProperties
<1>8. SerialTypes'
    BY <1>1, <1>2, <1>7 DEF OwnInv, SerialTypes, Asked
<1>9. RecordInv' /\ ValueInv' /\ ParseInv'
  <2>1. ~(type' = "wattsup")
      BY <1>1, <1>2 DEF Asked
  <2> QED
      BY <1>1, <2>1 DEF OwnInv, RecordInv, ValueInv, ParseInv, Asked, Busy, Waiting
<1>10. CASE pc = "exited"
  <2>1. StreamInv' /\ OnlyInv'
      BY <1>1, <1>10 DEF StreamInv, OnlyInv, Waiting
  <2> QED
      BY <1>8, <1>9, <2>1 DEF OwnInv
<1>11. CASE pc # "exited"
  <2>1. /\ pc # "init" /\ (pc = "select" => buf = <<>>)
        /\ Waiting => \A k \in 1..Len(buf) : InTime(buf[k].q, k, Past, query, left)
        /\ \A k \in 1..Len(line) : InTime(line[k].q, Held + k, Past, query, left)
        /\ \A k \in 1..Len(out) : InTime(out[k].q, n + k, Past, query, left)
        /\ \A k \in 1..Len(asked) :
              /\ InTime(asked[k].q, n + Len(out) + k, Past, query, left)
              /\ asked[k].more = 1 => k < Len(asked) /\ asked[k + 1].q = asked[k].q
              /\ type = "protek506" => asked[k].more = IF k = 1 THEN 1 ELSE 1 - asked[k - 1].more
        /\ n + Len(out) + Len(asked) <= left + (IF Waiting THEN maxlines ELSE 0)
        /\ pc = "parse" => \A k \in 1..Len(buf) : buf[k].q \in (query - left)..query
      BY <1>1, <1>2, <1>11 DEF OwnInv, StreamInv
  <2>2. Held \in Nat /\ Past \in Int /\ n \in Nat
      BY <1>4 DEF Held, Past
  <2>3. UNCHANGED <<Held, Past, Waiting, n>>
      BY <1>1 DEF Held, Past, Waiting
  <2> HIDE DEF n
  <2>4. m <= r /\ r <= Len(asked) /\ m \in Nat /\ r \in Nat /\ m >= 1
    <3>1. r <= Len(asked)
        BY <1>4, <1>5, <2>1 DEF r
    <3>2. type = "protek506" => asked[1].more = 1
        BY <1>5, <2>1
    <3>3. type = "fluke189" \/ type = "protek506"
        BY <1>2 DEF Asked
    <3>4. m <= r
      <4>1. CASE type = "fluke189"
          BY <1>3, <4>1 DEF r
      <4>2. CASE type = "protek506"
        <5>1. r = 2
            BY <3>2, <4>2 DEF r
        <5> QED
            BY <1>3, <5>1
      <4> QED
          BY <3>3, <4>1, <4>2
    <3> QED
        BY <1>3, <1>5, <3>1, <3>4
  <2>5. /\ Len(asked') = Len(asked) - r
        /\ \A k \in 1..Len(asked') : asked'[k] = asked[r + k]
    <3>1. asked \in Seq(Asks) /\ r \in Nat /\ r <= Len(asked)
        BY <1>4, <2>4
    <3>2. /\ Len(SubSeq(asked, r + 1, Len(asked))) = Len(asked) - r
          /\ \A k \in 1..(Len(asked) - r) : SubSeq(asked, r + 1, Len(asked))[k] = asked[r + k]
        BY ONLY <3>1, Moved
    <3> QED
        BY <1>6, <3>2
  <2>6. \A k \in 1..m : asked[k].q = asked[1].q /\ k \in 1..Len(asked)
    <3> TAKE k \in 1..m
    <3>1. k \in 1..Len(asked) /\ (k = 1 \/ k = 2)
        BY <1>3, <1>4, <2>4
    <3>2. ASSUME k = 2 PROVE asked[2].q = asked[1].q
      <4>1. r = 2
          BY <1>5, <2>4, <3>2
      <4>2. asked[1].more = 1
          BY <1>5, <4>1 DEF r
      <4>3. asked[1 + 1].q = asked[1].q
          BY <1>5, <2>1, <4>2
      <4> QED
          BY <4>3
    <3> QED
        BY <3>1, <3>2
  <2>7. \A q, i, j \in Int : j <= i /\ InTime(q, i, Past, query, left) => InTime(q, j, Past, query, left)
      BY <1>4, <2>2 DEF InTime
  <2>8. ASSUME NEW k \in 1..Len(out') PROVE InTime(out'[k].q, n + k, Past, query, left)
    <3>1. CASE k \in 1..Len(out)
        BY <1>3, <2>1, <3>1
    <3>2. CASE k \notin 1..Len(out)
      <4>1. k - Len(out) \in 1..m /\ Len(out) + (k - Len(out)) = k /\ n + Len(out) + (k - Len(out)) = n + k
          BY <1>3, <1>4, <2>2, <3>2
      <4>2. out'[k].q = asked[k - Len(out)].q /\ k - Len(out) \in 1..Len(asked)
        <5>1. out'[Len(out) + (k - Len(out))].q = asked[1].q
            BY <1>3, <4>1
        <5>2. asked[k - Len(out)].q = asked[1].q /\ k - Len(out) \in 1..Len(asked)
            BY <2>6, <4>1
        <5> QED
            BY <4>1, <5>1, <5>2
      <4>3. InTime(asked[k - Len(out)].q, n + Len(out) + (k - Len(out)), Past, query, left)
          BY <2>1, <4>2
      <4> QED
          BY <4>1, <4>2, <4>3
    <3> QED
        BY <3>1, <3>2
  <2>9. ASSUME NEW k \in 1..Len(asked')
        PROVE  /\ InTime(asked'[k].q, n + Len(out') + k, Past, query, left)
               /\ asked'[k].more = 1 => k < Len(asked') /\ asked'[k + 1].q = asked'[k].q
               /\ type = "protek506" => asked'[k].more = IF k = 1 THEN 1 ELSE 1 - asked'[k - 1].more
    <3>1. /\ r + k \in 1..Len(asked) /\ asked'[k] = asked[r + k] /\ k \in Nat /\ k >= 1
          /\ r + k # 1
        BY <1>4, <2>4, <2>5
    <3>2. InTime(asked[r + k].q, n + Len(out') + k, Past, query, left)
      <4>1. InTime(asked[r + k].q, n + Len(out) + (r + k), Past, query, left)
          BY <2>1, <3>1
      <4>2. /\ n + Len(out) + (r + k) \in Int /\ n + Len(out') + k \in Int
            /\ n + Len(out') + k <= n + Len(out) + (r + k)
        <5>1. Len(out') = Len(out) + m
            BY <1>3
        <5>2. /\ n + Len(out) + (r + k) \in Int /\ n + (Len(out) + m) + k \in Int
              /\ n + (Len(out) + m) + k <= n + Len(out) + (r + k)
            BY <1>4, <2>2, <2>4, <3>1
        <5> QED
            BY <5>1, <5>2
      <4>3. asked[r + k].q \in Int
          BY <1>4, <3>1, AskNumber
      <4> QED
          BY <2>7, <4>1, <4>2, <4>3
    <3>3. ASSUME asked'[k].more = 1 PROVE k < Len(asked') /\ asked'[k + 1].q = asked'[k].q
      <4>1. r + k < Len(asked) /\ asked[(r + k) + 1].q = asked[r + k].q
          BY <2>1, <3>1, <3>3
      <4>2. k < Len(asked') /\ k + 1 \in 1..Len(asked') /\ r + (k + 1) = (r + k) + 1
          BY <1>4, <2>4, <2>5, <3>1, <4>1
      <4>3. asked'[k + 1] = asked[r + (k + 1)]
          BY <2>5, <4>2
      <4> QED
          BY <3>1, <4>1, <4>2, <4>3
    <3>4. ASSUME type = "protek506"
          PROVE  asked'[k].more = IF k = 1 THEN 1 ELSE 1 - asked'[k - 1].more
      <4>1. asked[r + k].more = 1 - asked[(r + k) - 1].more
          BY <2>1, <3>1, <3>4
      <4>2. CASE k = 1
        <5>1. asked[1].more = 1
            BY <1>5, <2>1, <3>4
        <5>2. r = 2 /\ 2 \in 1..Len(asked) /\ (r + k) - 1 = 2
            BY <1>4, <2>4, <4>2, <5>1 DEF r
        <5>3. asked[2].more = IF 2 = 1 THEN 1 ELSE 1 - asked[2 - 1].more
            BY <2>1, <3>4, <5>2
        <5>4. asked[2].more = 0
            BY <5>1, <5>3
        <5> QED
            BY <3>1, <4>1, <4>2, <5>2, <5>4
      <4>3. CASE k # 1
        <5>1. k - 1 \in 1..Len(asked') /\ r + (k - 1) = (r + k) - 1
            BY <1>7, <2>4, <4>3
        <5>2. asked'[k - 1] = asked[r + (k - 1)]
            BY <2>5, <5>1
        <5> QED
            BY <3>1, <4>1, <4>3, <5>1, <5>2
      <4> QED
          BY <4>2, <4>3
    <3> QED
        BY <3>1, <3>2, <3>3, <3>4
  <2>10. n + Len(out') + Len(asked') <= left + (IF Waiting THEN maxlines ELSE 0)
    <3>1. Len(out') = Len(out) + m /\ Len(asked') = Len(asked) - r
        BY <1>3, <2>5
    <3>2. n + (Len(out) + m) + (Len(asked) - r) <= n + Len(out) + Len(asked)
        BY <1>4, <2>2, <2>4
    <3>3. n + (Len(out) + m) + (Len(asked) - r) \in Int /\ n + Len(out) + Len(asked) \in Int
          /\ left + (IF Waiting THEN maxlines ELSE 0) \in Int
        BY <1>4, <2>2, <2>4
    <3> QED
        BY <2>1, <3>1, <3>2, <3>3
  <2>11. StreamInv'
      BY <1>1, <2>1, <2>3, <2>8, <2>9, <2>10 DEF StreamInv, n
  <2>12. OnlyInv'
    <3> SUFFICES ASSUME Waiting, left = 0 PROVE OnlyInv'
        BY <1>1 DEF OnlyInv, Waiting
    <3>1. Len(asked) = maxlines /\ asked[1].more = maxlines - 1 /\ (type = "protek506" => maxlines = 2)
        BY <1>1, <1>2 DEF OwnInv, OnlyInv
    <3>2. n = Len(buf) + Len(line)
        BY DEF n, Held
    <3>3. Len(buf) + Len(line) + Len(out) + Len(asked) <= 0 + maxlines
        BY <2>1, <3>2
    <3>4. Len(buf) = 0 /\ Len(line) = 0 /\ Len(out) = 0
        BY <1>4, <3>1, <3>3
    <3>5. r = maxlines
        BY <1>4, <3>1 DEF r
    <3>6. Len(asked') = 0 /\ asked' = <<>>
      <4>1. Len(asked') = 0
          BY <1>4, <2>5, <3>1, <3>5
      <4> QED
          BY <1>7, <4>1, EmptySeq
    <3>7. Len(out') = m
        BY <1>3, <3>4
    <3>8. \A k \in 1..m : Len(out) + k = k
        BY <1>3, <3>4
    <3>9. type = "fluke189" => \A k \in 1..Len(out') : out'[k].part = "nak" => Single'
      <4> SUFFICES ASSUME type = "fluke189", NEW k \in 1..m, out'[k].part = "nak" PROVE Single'
          BY <3>7
      <4>1. m # 2
          BY <1>3, <3>8
      <4>2. Len(out') = 1
          BY <1>3, <3>7, <4>1
      <4>3. Len(buf') = 0 /\ Len(line') = 0
          BY <1>1, <3>4
      <4>4. 0 + 0 + 1 + 0 = 1
          OBVIOUS
      <4> QED
          BY <3>6, <4>2, <4>3, <4>4 DEF Single
    <3>10. type = "protek506" =>
              \A k \in 1..Len(out') : out'[k].part = "cr" <=> Len(buf) + Len(line) + k = 2
      <4> SUFFICES ASSUME type = "protek506", NEW k \in 1..m
                   PROVE  out'[k].part = "cr" <=> Len(buf) + Len(line) + k = 2
          BY <3>7
      <4>1. m = 2 /\ out'[1].part = "text" /\ out'[2].part = "cr"
        <5>1. 0 + 1 = 1 /\ 0 + 2 = 2
            OBVIOUS
        <5> QED
            BY <1>3, <3>4, <5>1
      <4>2. Len(buf) + Len(line) + k = k /\ (k = 1 \/ k = 2)
          BY <3>4, <4>1
      <4> QED
          BY <4>1, <4>2
    <3>11. /\ type' = type /\ maxlines' = maxlines /\ buf' = buf /\ line' = line
           /\ Len(buf) < maxlines
        BY <1>1, <1>4, <3>4
    <3> QED
        BY <3>1, <3>4, <3>6, <3>9, <3>10, <3>11 DEF OnlyInv
  <2> QED
      BY <1>8, <1>9, <2>11, <2>12 DEF OwnInv
<1> QED
    BY <1>10, <1>11

\* What arrives was sent before: the parts keep their query and their place.
LEMMA ArriveStep == OwnInv /\ Arrive => OwnInv'
<1> SUFFICES ASSUME OwnInv, Arrive PROVE OwnInv'
    OBVIOUS
<1>1. /\ out # <<>>
      /\ UNCHANGED <<type, pc, mode, maxlines, query, buf, value, rc, unassigned, asked, plugged,
                     left, sent, taken, from>>
    BY DEF Arrive, callVars, mmVars
<1>2. CASE type = "rs22812"
  <2>1. ~Asked /\ ~Asked' /\ type' # "wattsup"
      BY <1>1, <1>2 DEF Asked
  <2>2. SerialTypes' /\ RecordInv'
      BY <1>1, <1>2 DEF OwnInv, SerialTypes, RecordInv
  <2>3. StreamInv' /\ OnlyInv' /\ ParseInv'
      BY <2>1 DEF StreamInv, OnlyInv, ParseInv
  <2>4. ValueInv'
      BY <1>1 DEF OwnInv, ValueInv, Asked, Busy, Waiting
  <2> QED
      BY <2>2, <2>3, <2>4 DEF OwnInv
<1>3. CASE type # "rs22812"
  <2>1. line' = line \o SubSeq(out, 1, 1) /\ out' = SubSeq(out, 1 + 1, Len(out))
      BY <1>3 DEF Arrive
  <2>2. /\ buf \in Seq(Parts) /\ line \in Seq(Parts) /\ out \in Seq(Parts)
        /\ Len(buf) \in Nat /\ Len(line) \in Nat /\ Len(out) \in Nat
      BY <1>3, LenProperties DEF OwnInv, SerialTypes
  <2>3. 1 \in Nat /\ 1 <= Len(out)
      BY <1>1, <2>2, EmptySeq
  <2>4. /\ line \o SubSeq(out, 1, 1) \in Seq(Parts) /\ SubSeq(out, 1 + 1, Len(out)) \in Seq(Parts)
        /\ Len(line \o SubSeq(out, 1, 1)) = Len(line) + 1
        /\ Len(SubSeq(out, 1 + 1, Len(out))) = Len(out) - 1
        /\ \A k \in 1..Len(line) : (line \o SubSeq(out, 1, 1))[k] = line[k]
        /\ \A k \in 1..1 : (line \o SubSeq(out, 1, 1))[Len(line) + k] = out[k]
        /\ \A k \in 1..(Len(out) - 1) : SubSeq(out, 1 + 1, Len(out))[k] = out[1 + k]
    <3>1. \A n \in Nat : n <= Len(out) =>
             /\ line \o SubSeq(out, 1, n) \in Seq(Parts) /\ SubSeq(out, n + 1, Len(out)) \in Seq(Parts)
             /\ Len(line \o SubSeq(out, 1, n)) = Len(line) + n
             /\ Len(SubSeq(out, n + 1, Len(out))) = Len(out) - n
             /\ \A k \in 1..Len(line) : (line \o SubSeq(out, 1, n))[k] = line[k]
             /\ \A k \in 1..n : (line \o SubSeq(out, 1, n))[Len(line) + k] = out[k]
             /\ \A k \in 1..(Len(out) - n) : SubSeq(out, n + 1, Len(out))[k] = out[n + k]
        BY <2>2, Moved
    <3> QED
        BY <2>3, <3>1, Zenon
  <2>5. /\ line' \in Seq(Parts) /\ out' \in Seq(Parts)
        /\ Len(line') = Len(line) + 1 /\ Len(out') = Len(out) - 1
        /\ \A k \in 1..Len(line) : line'[k] = line[k]
        /\ line'[Len(line) + 1] = out[1]
        /\ \A k \in 1..(Len(out) - 1) : out'[k] = out[1 + k]
      BY <2>1, <2>4
  <2>6. SerialTypes'
    <3>1. type = "protek506" => line' \in Seq(Texts) /\ out' \in Seq(Texts)
      <4> SUFFICES ASSUME type = "protek506" PROVE line' \in Seq(Texts) /\ out' \in Seq(Texts)
          OBVIOUS
      <4>1. line \in Seq(Texts) /\ out \in Seq(Texts)
          BY DEF OwnInv, SerialTypes
      <4>2. \A n \in Nat : n <= Len(out) =>
               line \o SubSeq(out, 1, n) \in Seq(Texts) /\ SubSeq(out, n + 1, Len(out)) \in Seq(Texts)
          BY <4>1, Moved
      <4> QED
          BY <2>1, <2>3, <4>2, Zenon
    <3> QED
        BY <1>1, <1>3, <2>5, <3>1 DEF OwnInv, SerialTypes
  <2>7. UNCHANGED <<Held, Past, Waiting>> /\ Held \in Nat
      BY <1>1, <2>2 DEF Held, Past, Waiting
  <2>8. \A k \in 1..Len(line') : \/ k \in 1..Len(line) /\ line'[k] = line[k]
                                 \/ k = Len(line) + 1 /\ 1 \in 1..Len(out) /\ line'[k] = out[1]
      BY <2>2, <2>3, <2>5
  <2>9. \A k \in 1..Len(out') : /\ 1 + k \in 1..Len(out) /\ out'[k] = out[1 + k]
                                /\ Len(line') + k = Len(line) + (1 + k)
      BY <2>2, <2>3, <2>5
  <2>10. Len(line') + Len(out') = Len(line) + Len(out) /\ Len(line') \in Nat /\ Len(out') \in Nat
      BY <2>2, <2>3, <2>5
  <2>11. StreamInv'
    <3> SUFFICES ASSUME Asked, pc # "exited" PROVE StreamInv'
        BY <1>1 DEF StreamInv, Asked
    <3>1. /\ plugged /\ pc # "init" /\ (pc = "select" => buf = <<>>)
          /\ Waiting => \A k \in 1..Len(buf) : InTime(buf[k].q, k, Past, query, left)
          /\ \A k \in 1..Len(line) : InTime(line[k].q, Held + k, Past, query, left)
          /\ \A k \in 1..Len(out) : InTime(out[k].q, Held + Len(line) + k, Past, query, left)
          /\ \A k \in 1..Len(asked) :
                /\ InTime(asked[k].q, Held + Len(line) + Len(out) + k, Past, query, left)
                /\ asked[k].more = 1 => k < Len(asked) /\ asked[k + 1].q = asked[k].q
                /\ type = "protek506" => asked[k].more = IF k = 1 THEN 1 ELSE 1 - asked[k - 1].more
          /\ Held + Len(line) + Len(out) + Len(asked) <= left + (IF Waiting THEN maxlines ELSE 0)
          /\ pc = "parse" => \A k \in 1..Len(buf) : buf[k].q \in (query - left)..query
        BY <1>1 DEF OwnInv, StreamInv
    <3>2. ASSUME NEW k \in 1..Len(line') PROVE InTime(line'[k].q, Held + k, Past, query, left)
      <4>1. CASE k \in 1..Len(line) /\ line'[k] = line[k]
          BY <3>1, <4>1
      <4>2. CASE k = Len(line) + 1 /\ 1 \in 1..Len(out) /\ line'[k] = out[1]
        <5>1. Held + Len(line) + 1 = Held + k
            BY <2>2, <2>7, <4>2
        <5>2. InTime(out[1].q, Held + Len(line) + 1, Past, query, left)
            BY <3>1, <4>2
        <5> QED
            BY <4>2, <5>1, <5>2
      <4> QED
          BY <2>8, <4>1, <4>2
    <3>3. ASSUME NEW k \in 1..Len(out')
          PROVE  InTime(out'[k].q, Held + Len(line') + k, Past, query, left)
      <4>1. 1 + k \in 1..Len(out) /\ out'[k] = out[1 + k] /\ Len(line') + k = Len(line) + (1 + k)
          BY <2>9
      <4>2. Held + Len(line) + (1 + k) = Held + Len(line') + k
        <5>1. k \in Nat
            BY <2>10
        <5>2. Held + (Len(line) + (1 + k)) = Held + (Len(line') + k)
            BY <4>1
        <5> QED
            BY <2>2, <2>7, <2>10, <5>1, <5>2
      <4>3. InTime(out[1 + k].q, Held + Len(line) + (1 + k), Past, query, left)
          BY <3>1, <4>1
      <4> QED
          BY <4>1, <4>2, <4>3
    <3>4. Held + Len(line') + Len(out') = Held + Len(line) + Len(out)
      <4>1. Held + (Len(line') + Len(out')) = Held + (Len(line) + Len(out))
          BY <2>10
      <4> QED
          BY <2>2, <2>7, <2>10, <4>1
    <3>5. /\ \A k \in 1..Len(asked) :
                /\ InTime(asked[k].q, Held + Len(line') + Len(out') + k, Past, query, left)
                /\ asked[k].more = 1 => k < Len(asked) /\ asked[k + 1].q = asked[k].q
                /\ type = "protek506" => asked[k].more = IF k = 1 THEN 1 ELSE 1 - asked[k - 1].more
          /\ Held + Len(line') + Len(out') + Len(asked) <= left + (IF Waiting THEN maxlines ELSE 0)
        BY <3>1, <3>4
    <3> QED
        BY <1>1, <2>7, <3>1, <3>2, <3>3, <3>5 DEF StreamInv
  <2>12. OnlyInv'
    <3> SUFFICES ASSUME Asked, Waiting, left = 0 PROVE OnlyInv'
        BY <1>1 DEF OnlyInv, Asked, Waiting
    <3>1. /\ Len(buf) < maxlines
          /\ asked # <<>> => Len(asked) = maxlines /\ asked[1].more = maxlines - 1
        BY DEF OwnInv, OnlyInv
    <3>2. Single' <=> Single
      <4>1. Len(buf) + (Len(line') + Len(out')) = Len(buf) + (Len(line) + Len(out))
          BY <2>10
      <4>2. Len(buf) + Len(line') + Len(out') = Len(buf) + Len(line) + Len(out)
          BY <2>2, <2>10, <4>1
      <4> QED
          BY <1>1, <4>2 DEF Single
    <3>3. type = "fluke189" =>
            /\ \A k \in 1..Len(buf) : buf[k].part = "nak" => Single
            /\ \A k \in 1..Len(line') : line'[k].part = "nak" => Single
            /\ \A k \in 1..Len(out') : out'[k].part = "nak" => Single
      <4> SUFFICES ASSUME type = "fluke189"
                   PROVE  /\ \A k \in 1..Len(buf) : buf[k].part = "nak" => Single
                          /\ \A k \in 1..Len(line') : line'[k].part = "nak" => Single
                          /\ \A k \in 1..Len(out') : out'[k].part = "nak" => Single
          OBVIOUS
      <4>1. /\ \A k \in 1..Len(buf) : buf[k].part = "nak" => Single
            /\ \A k \in 1..Len(line) : line[k].part = "nak" => Single
            /\ \A k \in 1..Len(out) : out[k].part = "nak" => Single
          BY DEF OwnInv, OnlyInv
      <4>2. \A k \in 1..Len(line') : line'[k].part = "nak" => Single
          BY <2>8, <4>1
      <4>3. \A k \in 1..Len(out') : out'[k].part = "nak" => Single
          BY <2>9, <4>1
      <4> QED
          BY <4>1, <4>2, <4>3
    <3>4. type = "protek506" =>
            /\ maxlines = 2
            /\ \A k \in 1..Len(buf) : buf[k].part = "cr" <=> k = 2
            /\ \A k \in 1..Len(line') : line'[k].part = "cr" <=> Len(buf) + k = 2
            /\ \A k \in 1..Len(out') : out'[k].part = "cr" <=> Len(buf) + Len(line') + k = 2
      <4> SUFFICES ASSUME type = "protek506"
                   PROVE  /\ maxlines = 2
                          /\ \A k \in 1..Len(buf) : buf[k].part = "cr" <=> k = 2
                          /\ \A k \in 1..Len(line') : line'[k].part = "cr" <=> Len(buf) + k = 2
                          /\ \A k \in 1..Len(out') :
                                out'[k].part = "cr" <=> Len(buf) + Len(line') + k = 2
          OBVIOUS
      <4>1. /\ maxlines = 2
            /\ \A k \in 1..Len(buf) : buf[k].part = "cr" <=> k = 2
            /\ \A k \in 1..Len(line) : line[k].part = "cr" <=> Len(buf) + k = 2
            /\ \A k \in 1..Len(out) : out[k].part = "cr" <=> Len(buf) + Len(line) + k = 2
          BY DEF OwnInv, OnlyInv
      <4>2. ASSUME NEW k \in 1..Len(line') PROVE line'[k].part = "cr" <=> Len(buf) + k = 2
        <5>1. CASE k \in 1..Len(line) /\ line'[k] = line[k]
            BY <4>1, <5>1
        <5>2. CASE k = Len(line) + 1 /\ 1 \in 1..Len(out) /\ line'[k] = out[1]
          <6>1. Len(buf) + Len(line) + 1 = Len(buf) + k
              BY <2>2, <5>2
          <6> QED
              BY <4>1, <5>2, <6>1
        <5> QED
            BY <2>8, <5>1, <5>2
      <4>3. ASSUME NEW k \in 1..Len(out')
            PROVE  out'[k].part = "cr" <=> Len(buf) + Len(line') + k = 2
        <5>1. 1 + k \in 1..Len(out) /\ out'[k] = out[1 + k] /\ Len(line') + k = Len(line) + (1 + k)
            BY <2>9
        <5>2. Len(buf) + (Len(line') + k) = Len(buf) + (Len(line) + (1 + k)) /\ k \in Nat
            BY <2>10, <5>1
        <5>3. Len(buf) + Len(line') + k = Len(buf) + Len(line) + (1 + k)
            BY <2>2, <2>10, <5>2
        <5> QED
            BY <4>1, <5>1, <5>3
      <4> QED
          BY <4>1, <4>2, <4>3
    <3>5. type' = type /\ maxlines' = maxlines /\ buf' = buf /\ asked' = asked
        BY <1>1
    <3> QED
        BY <3>1, <3>2, <3>3, <3>4, <3>5 DEF OnlyInv
  <2>13. RecordInv'
    <3> SUFFICES ASSUME type = "wattsup" PROVE RecordInv'
        BY <1>1 DEF RecordInv
    <3>1. /\ SerialTypes /\ InOrder(line) /\ InOrder(out) /\ Before(line, out)
          /\ Busy => InOrder(buf) /\ Before(buf, line) /\ Before(buf, out)
          /\ pc # "init" /\ taken <= Len(sent)
        BY <1>1 DEF OwnInv, RecordInv
    <3>2. /\ InOrder(line \o SubSeq(out, 1, 1)) /\ InOrder(SubSeq(out, 1 + 1, Len(out)))
          /\ Before(line \o SubSeq(out, 1, 1), SubSeq(out, 1 + 1, Len(out)))
          /\ \A u \in Seq(Parts) : Before(u, line) /\ Before(u, out) =>
                Before(u, line \o SubSeq(out, 1, 1)) /\ Before(u, SubSeq(out, 1 + 1, Len(out)))
        BY <2>2, <2>3, <3>1, OrderMoved
    <3>3. /\ InOrder(line') /\ InOrder(out') /\ Before(line', out')
          /\ Busy => Before(buf, line') /\ Before(buf, out')
        BY <2>1, <2>2, <3>1, <3>2
    <3> QED
        BY <1>1, <3>1, <3>3 DEF RecordInv, InOrder, Before, Busy
  <2>14. ValueInv' /\ ParseInv'
      BY <1>1 DEF OwnInv, ValueInv, ParseInv, Asked, Busy, Waiting
  <2> QED
      BY <2>6, <2>11, <2>12, <2>13, <2>14 DEF OwnInv
<1> QED
    BY <1>2, <1>3

LEMMA UnplugStep == OwnInv /\ Unplug => OwnInv'
<1> SUFFICES ASSUME OwnInv, Unplug PROVE OwnInv'
    OBVIOUS
<1>1. /\ plugged' = FALSE /\ asked' = <<>> /\ out' = <<>>
      /\ UNCHANGED <<type, pc, mode, maxlines, query, buf, value, rc, unassigned, line, left,
                     sent, taken, from>>
    BY DEF Unplug, callVars, mmVars
<1>2. /\ asked' \in Seq(Asks) /\ out' \in Seq(Parts) /\ out' \in Seq(Texts)
      /\ Len(asked') = 0 /\ Len(out') = 0
    BY <1>1, EmptySeq
<1>3. SerialTypes'
    BY <1>1, <1>2 DEF OwnInv, SerialTypes
<1>4. StreamInv'
  <2> SUFFICES ASSUME Asked, pc # "exited" PROVE StreamInv'
      BY <1>1 DEF StreamInv, Asked
  <2>1. /\ pc = "init" => line = <<>>
        /\ pc = "select" => buf = <<>>
        /\ Waiting => \A k \in 1..Len(buf) : InTime(buf[k].q, k, Past, query, left)
        /\ \A k \in 1..Len(line) : InTime(line[k].q, Held + k, Past, query, left)
        /\ Held + Len(line) + Len(out) + Len(asked) <= left + (IF Waiting THEN maxlines ELSE 0)
        /\ pc = "parse" => \A k \in 1..Len(buf) : buf[k].q \in (query - left)..query
      BY DEF OwnInv, StreamInv
  <2>2. Held + Len(line) + 0 + 0 <= left + (IF Waiting THEN maxlines ELSE 0)
    <3>1. /\ Held \in Nat /\ Len(line) \in Nat /\ Len(out) \in Nat /\ Len(asked) \in Nat
          /\ left + (IF Waiting THEN maxlines ELSE 0) \in Nat
      <4>1. /\ buf \in Seq(Parts) /\ line \in Seq(Parts) /\ out \in Seq(Parts)
            /\ asked \in Seq(Asks) /\ left \in Nat /\ maxlines \in Nat
          BY DEF OwnInv, SerialTypes, Asked
      <4> QED
          BY <4>1, LenProperties DEF Held
    <3> QED
        BY <2>1, <3>1
  <2>3. UNCHANGED <<Held, Past, Waiting>>
      BY <1>1 DEF Held, Past, Waiting
  <2> QED
      BY <1>1, <1>2, <2>1, <2>2, <2>3 DEF StreamInv
<1>5. OnlyInv'
  <2> SUFFICES ASSUME Asked, Waiting, left = 0 PROVE OnlyInv'
      BY <1>1 DEF OnlyInv, Asked, Waiting
  <2>1. /\ Len(buf) \in Nat /\ Len(line) \in Nat /\ Len(out) \in Nat /\ Len(asked) \in Nat
        /\ maxlines \in {1, 2}
    <3>1. /\ buf \in Seq(Parts) /\ line \in Seq(Parts) /\ out \in Seq(Parts)
          /\ asked \in Seq(Asks) /\ maxlines \in {1, 2}
        BY DEF OwnInv, SerialTypes, Asked
    <3> QED
        BY <3>1, LenProperties
  <2>2. \A k \in 1..Len(buf) : (buf[k].part = "nak" /\ Single) => Single'
    <3> TAKE k \in 1..Len(buf)
    <3> HAVE buf[k].part = "nak" /\ Single
    <3>1. Len(buf) >= 1 /\ Len(buf) + Len(line) + Len(out) + Len(asked) = 1
        BY <2>1 DEF Single
    <3>2. Len(buf) + Len(line) + 0 + 0 = 1
        BY <2>1, <3>1
    <3> QED
        BY <1>1, <1>2, <3>2 DEF Single
  <2>3. \A k \in 1..Len(line) : (line[k].part = "nak" /\ Single) => Single'
    <3> TAKE k \in 1..Len(line)
    <3> HAVE line[k].part = "nak" /\ Single
    <3>1. Len(line) >= 1 /\ Len(buf) + Len(line) + Len(out) + Len(asked) = 1
        BY <2>1 DEF Single
    <3>2. Len(buf) + Len(line) + 0 + 0 = 1
        BY <2>1, <3>1
    <3> QED
        BY <1>1, <1>2, <3>2 DEF Single
  <2> QED
      BY <1>1, <1>2, <2>2, <2>3 DEF OwnInv, OnlyInv
<1>6. RecordInv'
    BY <1>1, <1>2 DEF OwnInv, RecordInv, InOrder, Before, Busy
<1>7. ValueInv' /\ ParseInv'
    BY <1>1 DEF OwnInv, ValueInv, ParseInv, Asked, Busy, Waiting
<1> QED
    BY <1>3, <1>4, <1>5, <1>6, <1>7 DEF OwnInv

\* The Radio Shack is not asked.
LEMMA RadioShackStep ==
    OwnInv /\ (RsRead \/ RsParse \/ \E d \in Displays : SendPacket(d)) => OwnInv'
<1> SUFFICES ASSUME OwnInv, RsRead \/ RsParse \/ \E d \in Displays : SendPacket(d)
             PROVE OwnInv'
    OBVIOUS
<1>1. /\ type = "rs22812" /\ pc' \in {pc, "parse", "returned"}
      /\ UNCHANGED <<type, mode, maxlines, query, asked, left>>
      /\ unassigned' \in {unassigned, TRUE}
  <2>1. CASE RsRead
      BY <2>1 DEF RsRead, callVars, devVars
  <2>2. CASE RsParse
    <3>1. unassigned' \in {unassigned, TRUE}
        BY <2>2 DEF RsParse, Guess
    <3> QED
        BY <2>2, <3>1 DEF RsParse, callVars, devVars
  <2>3. CASE \E d \in Displays : SendPacket(d)
      BY <2>3 DEF SendPacket, callVars, mmVars
  <2> QED
      BY <2>1, <2>2, <2>3
<1>2. SerialTypes'
  <2>1. unassigned' \in BOOLEAN
      BY <1>1 DEF OwnInv, SerialTypes
  <2> QED
      BY <1>1, <2>1 DEF OwnInv, SerialTypes
<1>3. StreamInv' /\ OnlyInv' /\ ParseInv' /\ RecordInv'
    BY <1>1 DEF StreamInv, OnlyInv, ParseInv, RecordInv, Asked
<1>4. /\ Busy' => Busy /\ value' = value
      /\ Waiting' => Waiting /\ unassigned' = unassigned
    BY DEF RsRead, RsParse, SendPacket, callVars, mmVars, devVars, Busy, Waiting
<1>5. ValueInv'
    BY <1>1, <1>4 DEF OwnInv, ValueInv, Asked
<1> QED
    BY <1>2, <1>3, <1>5 DEF OwnInv

LEMMA OwnInitially == Init => OwnInv
<1> SUFFICES ASSUME Init PROVE OwnInv
    OBVIOUS
<1>1. /\ <<>> \in Seq(Parts) /\ <<>> \in Seq(Asks) /\ <<>> \in Seq({"data", "other"})
      /\ <<>> \in Seq(Texts) /\ Len(<<>>) = 0
    BY EmptySeq
<1>2. SerialTypes
    BY <1>1, SerialAssumption DEF Init, SerialTypes
<1>3. StreamInv
    BY <1>1 DEF Init, StreamInv, Held, Waiting
<1>4. OnlyInv /\ ParseInv /\ ValueInv
    BY DEF Init, OnlyInv, ParseInv, ValueInv, Busy, Waiting
<1>5. RecordInv
    BY <1>1 DEF Init, RecordInv, InOrder, Before, Busy
<1> QED
    BY <1>2, <1>3, <1>4, <1>5 DEF OwnInv

\* What the caller, the line and the device still hold of answers is at most what
\* was left behind and the answer that is waited for, each part is late by no
\* more than its place allows, and the Watts Up's records are in order
\* (meter_read, fluke_189_read, protek_506_read, watts_up_read).
THEOREM OwnSafety == Spec => []OwnInv
<1>1. OwnInv /\ [Next]_vars => OwnInv'
  <2> SUFFICES ASSUME OwnInv, [Next]_vars PROVE OwnInv'
      OBVIOUS
  <2>1. CASE \E n \in 1..Len(line) : FlukeRead(n) \/ WattsRead(n)
      BY <2>1, FlukeReadStep, WattsReadStep
  <2>2. CASE \E kind \in {"data", "other"} : SendRecord(kind)
      BY <2>2, SendRecordStep
  <2> QED
      BY <2>1, <2>2, CallerStep, MeterReadStep, MeterCommandStep, SelectTimeoutStep,
         ReadFailsStep, FlukeEofStep, FlukeParseStep, ProtekReadStep, ProtekReadEarlyStep,
         ProtekParseStep, WattsParseStep, AnswerStep, ArriveStep, UnplugStep, RadioShackStep
      DEF Next, Caller, Collect, Finish, Device, Reply
<1> QED
    BY OwnInitially, <1>1, PTL DEF Spec

\* A reading of the Fluke or the Protek that was assigned is late by no more
\* queries than parts of answers were left behind by timeouts, failed reads and
\* early ends, and with none it is of its own query; with none a value is
\* unassigned only for a text of the Protek that is no number; and each reading of
\* the Watts Up is of a later record than the last.
THEOREM AnswersOwnQueryHolds == Spec => []AnswersOwnQuery
<1>1. OwnInv => AnswersOwnQuery
    BY DEF OwnInv, ValueInv, AnswersOwnQuery
<1> QED
    BY OwnSafety, <1>1, PTL


-----------------------------------------------------------------------------
(* The Radio Shack: a packet decodes to what the display showed *)

LEMMA Powers2 ==
    /\ 2^0 = 1 /\ 2^1 = 2 /\ 2^2 = 4 /\ 2^3 = 8
    /\ 2^4 = 16 /\ 2^5 = 32 /\ 2^6 = 64 /\ 2^7 = 128
OBVIOUS

LEMMA SegtabIs ==
    /\ Len(segtab) = 20
    /\ segtab[1][1] = 0 /\ segtab[2][1] = 32 /\ segtab[3][1] = 215
    /\ segtab[4][1] = 80 /\ segtab[5][1] = 181 /\ segtab[6][1] = 241
    /\ segtab[7][1] = 114 /\ segtab[8][1] = 227 /\ segtab[9][1] = 231
    /\ segtab[10][1] = 81 /\ segtab[11][1] = 247 /\ segtab[12][1] = 243
    /\ segtab[13][1] = 135 /\ segtab[14][1] = 167 /\ segtab[15][1] = 39
    /\ segtab[16][1] = 102 /\ segtab[17][1] = 100 /\ segtab[18][1] = 55
    /\ segtab[19][1] = 36 /\ segtab[20][1] = 166
    /\ segtab[3][2] = "0" /\ segtab[4][2] = "1" /\ segtab[5][2] = "2"
    /\ segtab[6][2] = "3" /\ segtab[7][2] = "4" /\ segtab[8][2] = "5"
    /\ segtab[9][2] = "6" /\ segtab[10][2] = "7" /\ segtab[11][2] = "8"
    /\ segtab[12][2] = "9"
BY DEF segtab

\* No two rows have the same segments.
LEMMA SegmentsDiffer ==
    \A i, j \in 1..20 : segtab[i][1] = segtab[j][1] => i = j
<1>1. \A i \in 1..20 : segtab[i][1] = 
        IF i = 1 THEN 0 ELSE IF i = 2 THEN 32 ELSE IF i = 3 THEN 215 ELSE IF i = 4 THEN 80
        ELSE IF i = 5 THEN 181 ELSE IF i = 6 THEN 241 ELSE IF i = 7 THEN 114
        ELSE IF i = 8 THEN 227 ELSE IF i = 9 THEN 231 ELSE IF i = 10 THEN 81
        ELSE IF i = 11 THEN 247 ELSE IF i = 12 THEN 243 ELSE IF i = 13 THEN 135
        ELSE IF i = 14 THEN 167 ELSE IF i = 15 THEN 39 ELSE IF i = 16 THEN 102
        ELSE IF i = 17 THEN 100 ELSE IF i = 18 THEN 55 ELSE IF i = 19 THEN 36 ELSE 166
    BY SegtabIs
<1> QED
    BY <1>1

\* The lit segments of a digit are its row.
LEMMA LitIs ==
    \A n \in 0..9 : Lit(n) = segtab[n + 3][1]
<1>1. /\ 2^BitOf["a"] = 1 /\ 2^BitOf["f"] = 2 /\ 2^BitOf["e"] = 4 /\ 2^BitOf["b"] = 16
      /\ 2^BitOf["g"] = 32 /\ 2^BitOf["c"] = 64 /\ 2^BitOf["d"] = 128
  <2>1. /\ BitOf["a"] = 0 /\ BitOf["f"] = 1 /\ BitOf["e"] = 2 /\ BitOf["b"] = 4
        /\ BitOf["g"] = 5 /\ BitOf["c"] = 6 /\ BitOf["d"] = 7
      BY DEF BitOf
  <2> QED
      BY <2>1, Powers2
<1> DEFINE seg(s, v) == IF s THEN v ELSE 0
<1>2. \A n \in 0..9 : Lit(n) = seg("a" \in Glyph[n + 1], 1) + seg("b" \in Glyph[n + 1], 16)
                               + seg("c" \in Glyph[n + 1], 64) + seg("d" \in Glyph[n + 1], 128)
                               + seg("e" \in Glyph[n + 1], 4) + seg("f" \in Glyph[n + 1], 2)
                               + seg("g" \in Glyph[n + 1], 32)
    BY <1>1 DEF Lit
<1>3. /\ Glyph[1] = {"a", "b", "c", "d", "e", "f"} /\ Glyph[2] = {"b", "c"}
      /\ Glyph[3] = {"a", "b", "d", "e", "g"} /\ Glyph[4] = {"a", "b", "c", "d", "g"}
      /\ Glyph[5] = {"b", "c", "f", "g"} /\ Glyph[6] = {"a", "c", "d", "f", "g"}
      /\ Glyph[7] = {"a", "c", "d", "e", "f", "g"} /\ Glyph[8] = {"a", "b", "c"}
      /\ Glyph[9] = {"a", "b", "c", "d", "e", "f", "g"}
      /\ Glyph[10] = {"a", "b", "c", "d", "f", "g"}
    BY DEF Glyph
<1>4. \A n \in 0..9 : Lit(n) = IF n = 0 THEN 215 ELSE IF n = 1 THEN 80 ELSE IF n = 2 THEN 181
                               ELSE IF n = 3 THEN 241 ELSE IF n = 4 THEN 114
                               ELSE IF n = 5 THEN 227 ELSE IF n = 6 THEN 231
                               ELSE IF n = 7 THEN 81 ELSE IF n = 8 THEN 247 ELSE 243
  <2> SUFFICES ASSUME NEW n \in 0..9
               PROVE  Lit(n) = IF n = 0 THEN 215 ELSE IF n = 1 THEN 80 ELSE IF n = 2 THEN 181
                               ELSE IF n = 3 THEN 241 ELSE IF n = 4 THEN 114
                               ELSE IF n = 5 THEN 227 ELSE IF n = 6 THEN 231
                               ELSE IF n = 7 THEN 81 ELSE IF n = 8 THEN 247 ELSE 243
      OBVIOUS
  <2>0. n = 0 \/ n = 1 \/ n = 2 \/ n = 3 \/ n = 4 \/ n = 5 \/ n = 6 \/ n = 7 \/ n = 8 \/ n = 9
      OBVIOUS
  <2>1. CASE n = 0
      BY <1>2, <1>3, <2>1
  <2>2. CASE n = 1
      BY <1>2, <1>3, <2>2
  <2>3. CASE n = 2
      BY <1>2, <1>3, <2>3
  <2>4. CASE n = 3
      BY <1>2, <1>3, <2>4
  <2>5. CASE n = 4
      BY <1>2, <1>3, <2>5
  <2>6. CASE n = 5
      BY <1>2, <1>3, <2>6
  <2>7. CASE n = 6
      BY <1>2, <1>3, <2>7
  <2>8. CASE n = 7
      BY <1>2, <1>3, <2>8
  <2>9. CASE n = 8
      BY <1>2, <1>3, <2>9
  <2>10. CASE n = 9
      BY <1>2, <1>3, <2>10
  <2> QED
      BY <2>0, <2>1, <2>2, <2>3, <2>4, <2>5, <2>6, <2>7, <2>8, <2>9, <2>10
<1> QED
    BY <1>4, SegtabIs

\* The bit of the point is in no digit.
LEMMA PointBit ==
    ASSUME NEW n \in 0..9
    PROVE  Lit(n) \in Nat /\ BIT(Lit(n), 3) = 0 /\ BIT(Lit(n) + 8, 3) = 1
<1>1. Lit(n) \in {215, 80, 181, 241, 114, 227, 231, 81, 247, 243}
  <2>1. n = 0 \/ n = 1 \/ n = 2 \/ n = 3 \/ n = 4 \/ n = 5 \/ n = 6 \/ n = 7 \/ n = 8 \/ n = 9
      OBVIOUS
  <2>2. Lit(n) = segtab[n + 3][1]
      BY LitIs
  <2> QED
      BY <2>1, <2>2, SegtabIs
<1>2. \A x \in {215, 80, 181, 241, 114, 227, 231, 81, 247, 243} :
         x \in Nat /\ (x \div 8) % 2 = 0 /\ ((x + 8) \div 8) % 2 = 1
    OBVIOUS
<1> QED
    BY <1>1, <1>2, Powers2 DEF BIT

LEMMA CharactersDiffer ==
    /\ Blank \notin Digits /\ Minus \notin Digits /\ Point \notin Digits
    /\ Blank # Minus /\ Minus # Point /\ Point # Blank
<1>1. Blank \notin Digits
    BY DEF Digits, Blank
<1>2. Minus \notin Digits
    BY DEF Digits, Minus
<1>3. Point \notin Digits
    BY DEF Digits, Point
<1>4. Blank # Minus
    BY Zenon DEF Blank, Minus
<1>5. Minus # Point
    BY Zenon DEF Point, Minus
<1>6. Point # Blank
    BY Zenon DEF Blank, Point
<1> QED
    BY <1>1, <1>2, <1>3, <1>4, <1>5, <1>6

\* The text of a digit.
Char(n) == segtab[n + 3][2]

LEMMA CharIs ==
    /\ \A n \in 0..9 : Char(n) \in Digits /\ Char(n) \notin {Blank, Minus, Point}
    /\ \A n \in 0..9 : DigitOf[Char(n)] = n
<1>1. \A n \in 0..9 : Char(n) = IF n = 0 THEN "0" ELSE IF n = 1 THEN "1" ELSE IF n = 2 THEN "2"
                                ELSE IF n = 3 THEN "3" ELSE IF n = 4 THEN "4"
                                ELSE IF n = 5 THEN "5" ELSE IF n = 6 THEN "6"
                                ELSE IF n = 7 THEN "7" ELSE IF n = 8 THEN "8" ELSE "9"
  <2>1. \A n \in 0..9 : n = 0 \/ n = 1 \/ n = 2 \/ n = 3 \/ n = 4 \/ n = 5 \/ n = 6 \/ n = 7
                        \/ n = 8 \/ n = 9
      OBVIOUS
  <2> QED
      BY <2>1, SegtabIs DEF Char
<1>2. \A n \in 0..9 : Char(n) \in Digits /\ Char(n) \notin {Blank, Minus, Point}
  <2>1. \A n \in 0..9 : Char(n) \in Digits
      BY <1>1 DEF Digits
  <2> HIDE DEF Char
  <2> QED
      BY <2>1, CharactersDiffer
<1>3. \A m, n \in 0..9 : Char(m) = Char(n) => m = n
    BY <1>1
<1>4. \A n \in 0..9 : DigitOf[Char(n)] = n
  <2> SUFFICES ASSUME NEW n \in 0..9 PROVE DigitOf[Char(n)] = n
      OBVIOUS
  <2>1. DigitOf[Char(n)] = CHOOSE m \in 0..9 : Char(m) = Char(n)
      BY <1>2 DEF DigitOf, Char
  <2>2. \A m \in 0..9 : Char(m) = Char(n) => m = n
      BY <1>3
  <2> HIDE DEF Char
  <2> QED
      BY <2>1, <2>2
<1> QED
    BY <1>2, <1>4

LEMMA CookDigit ==
    ASSUME NEW n \in 0..9, NEW b, b = Lit(n) \/ b = Lit(n) + 8
    PROVE  cook_digit(b) = Char(n)
<1>1. Lit(n) \in Nat /\ b - 8 * BIT(b, 3) = Lit(n)
    BY PointBit
<1>2. n + 3 \in 1..20 /\ Lit(n) = segtab[n + 3][1] /\ Len(segtab) = 20
    BY LitIs, SegtabIs
<1>3. \A i \in 1..20 : segtab[i][1] = Lit(n) => i = n + 3
    BY <1>2, SegmentsDiffer
<1>4. (CHOOSE i \in 1..20 : segtab[i][1] = Lit(n)) = n + 3
    BY <1>2, <1>3
<1>5. \E i \in 1..20 : segtab[i][1] = Lit(n)
    BY <1>2
<1> QED
    BY <1>1, <1>2, <1>4, <1>5 DEF cook_digit, Char

\* The least element of a set of numbers.
LEMMA MinIs ==
    ASSUME NEW S \in SUBSET Int, NEW m \in S, \A y \in S : m <= y
    PROVE  Min(S) = m
<1>1. \A x \in S : (\A y \in S : x <= y) => x = m
  <2> SUFFICES ASSUME NEW x \in S, \A y \in S : x <= y PROVE x = m
      OBVIOUS
  <2>1. x <= m /\ m <= x /\ x \in Int /\ m \in Int
      OBVIOUS
  <2> QED
      BY <2>1
<1>2. (CHOOSE x \in S : \A y \in S : x <= y) = m
    BY <1>1
<1> QED
    BY <1>2 DEF Min

\* Adding a text of one character, or none.
LEMMA OneAdded ==
    ASSUME NEW S, NEW s \in Seq(S), NEW x \in S
    PROVE  /\ s \o <<x>> = Append(s, x) /\ s \o <<>> = s
BY AppendIsConcat, ConcatEmptySeq

\* What the texts of numbers consist of.
Chars == Digits \cup {Blank, Minus, Point}

\* The number of a text of four or five places is built one place at a time.
LEMMA MantissaIs ==
    ASSUME NEW t \in Seq(Chars), NEW b \in Nat, NEW n \in Nat, n \in {4, 5},
           \A k \in b..(b + n - 1) : t[k] = Point \/ DigitOf[t[k]] \in 0..9
    PROVE  \E f : /\ Mantissa(t, b, b + n) = f[n]
                  /\ f[0] = 0
                  /\ \A k \in 1..n : f[k] = IF t[b + k - 1] = Point THEN f[k - 1]
                                           ELSE 10 * f[k - 1] + DigitOf[t[b + k - 1]]
<1> DEFINE step(x, k) == IF t[k] = Point THEN x ELSE 10 * x + DigitOf[t[k]]
           v1 == step(0, b)
           v2 == step(v1, b + 1)
           v3 == step(v2, b + 2)
           v4 == step(v3, b + 3)
           v5 == step(v4, b + 4)
           dom == (b - 1)..(b + n - 1)
           good(f) == f = [k \in dom |-> IF k = b - 1 THEN 0 ELSE step(f[k - 1], k)]
           w == [k \in dom |-> IF k = b - 1 THEN 0 ELSE IF k = b THEN v1
                               ELSE IF k = b + 1 THEN v2 ELSE IF k = b + 2 THEN v3
                               ELSE IF k = b + 3 THEN v4 ELSE v5]
           g == CHOOSE f : good(f)
<1>1. \A k \in dom : k = b - 1 \/ k = b \/ k = b + 1 \/ k = b + 2 \/ k = b + 3 \/ (n = 5 /\ k = b + 4)
    OBVIOUS
<1>2. good(w)
  <2> HIDE DEF step
  <2>1. \A k \in dom : w[k] = IF k = b - 1 THEN 0 ELSE step(w[k - 1], k)
    <3>1. /\ w[b - 1] = 0 /\ w[b] = v1 /\ w[b + 1] = v2 /\ w[b + 2] = v3 /\ w[b + 3] = v4
          /\ n = 5 => w[b + 4] = v5
        OBVIOUS
    <3>2. \A k \in dom : /\ k = b => k - 1 = b - 1 /\ k # b - 1
                         /\ k = b + 1 => k - 1 = b /\ k # b - 1
                         /\ k = b + 2 => k - 1 = b + 1 /\ k # b - 1
                         /\ k = b + 3 => k - 1 = b + 2 /\ k # b - 1
                         /\ k = b + 4 => k - 1 = b + 3 /\ k # b - 1
        OBVIOUS
    <3> HIDE DEF w, dom
    <3> QED
        BY <1>1, <3>1, <3>2
  <2> QED
      BY <2>1
<1>3. good(g)
  <2> HIDE DEF good, w
  <2> QED
      BY <1>2
<1>4. Mantissa(t, b, b + n) = g[b + n - 1]
    BY DEF Mantissa
<1>5. g[b - 1] = 0 /\ \A k \in 1..n : g[b + k - 1] = step(g[b + k - 2], b + k - 1)
  <2> HIDE DEF g, step
  <2>1. \A k \in dom : g[k] = IF k = b - 1 THEN 0 ELSE step(g[k - 1], k)
      BY <1>3
  <2>2. \A k \in 1..n : b + k - 1 \in dom /\ b + k - 1 # b - 1 /\ (b + k - 1) - 1 = b + k - 2
      OBVIOUS
  <2>3. b - 1 \in dom
      OBVIOUS
  <2> HIDE DEF dom
  <2> QED
      BY <2>1, <2>2, <2>3
<1> DEFINE h == [k \in 0..n |-> g[b + k - 1]]
<1>6. h[n] = g[b + n - 1] /\ h[0] = g[b - 1]
  <2> HIDE DEF g
  <2>1. b + 0 - 1 = b - 1 /\ n \in 0..n /\ 0 \in 0..n
      OBVIOUS
  <2> QED
      BY <2>1
<1>7. \A k \in 1..n : h[k] = g[b + k - 1] /\ h[k - 1] = g[b + k - 2]
  <2> HIDE DEF g
  <2>1. \A k \in 1..n : k \in 0..n /\ k - 1 \in 0..n /\ b + (k - 1) - 1 = b + k - 2
      OBVIOUS
  <2> QED
      BY <2>1
<1>8. \A k \in 1..n : h[k] = IF t[b + k - 1] = Point THEN h[k - 1]
                             ELSE 10 * h[k - 1] + DigitOf[t[b + k - 1]]
  <2> HIDE DEF g, h
  <2> QED
      BY <1>5, <1>7
<1> HIDE DEF g, h
<1> QED
    BY <1>4, <1>5, <1>6, <1>8

\* What the text of a display looks like from place b on.
Shows(t, d, b) ==
    /\ b \in {1, 2}
    /\ Len(t) = b + (IF d.point = 1 THEN 3 ELSE 4)
    /\ b = 2 => t[1] = Minus
    /\ \A i \in 1..4 :
          t[IF d.point > 1 /\ i >= d.point THEN b + i ELSE b + i - 1] = Char(d.digits[i])
    /\ d.point > 1 => t[b + d.point - 1] = Point

\* A display's point and digits.
LEMMA DisplayIs ==
    ASSUME NEW d \in Display
    PROVE  /\ d.point \in 1..4
           /\ \A i \in 1..4 : d.digits[i] \in 0..9
BY DEF Display

LEMMA PlacesAre ==
    ASSUME NEW t \in Seq(Chars), NEW d \in Display, NEW b \in Nat, Shows(t, d, b)
    PROVE  /\ b \in {1, 2} /\ Len(t) \in Nat
           /\ \A j \in b..Len(t) : t[j] # Blank /\ t[j] # Minus /\ t[j] \in Digits \cup {Point}
           /\ \A j \in b..Len(t) : t[j] = Point <=> (d.point > 1 /\ j = b + d.point - 1)
           /\ \A j \in b..Len(t) : t[j] = Point \/ DigitOf[t[j]] \in 0..9
           /\ d.point > 1 => b + d.point - 1 \in b..Len(t)
<1>1. /\ d.point \in 1..4
      /\ \A i \in 1..4 : d.digits[i] \in 0..9
    BY DisplayIs
<1>2. b \in {1, 2} /\ Len(t) \in Nat
    BY <1>1 DEF Shows
<1>3. \A i \in 1..4 : /\ Char(d.digits[i]) \in Digits
                      /\ Char(d.digits[i]) \notin {Blank, Minus, Point}
                      /\ DigitOf[Char(d.digits[i])] \in 0..9
    BY <1>1, CharIs
<1>4. \A j \in b..Len(t) :
         \/ d.point > 1 /\ j = b + d.point - 1 /\ t[j] = Point
         \/ ~(d.point > 1 /\ j = b + d.point - 1) /\ \E i \in 1..4 : t[j] = Char(d.digits[i])
  <2> SUFFICES ASSUME NEW j \in b..Len(t), ~(d.point > 1 /\ j = b + d.point - 1)
               PROVE  \E i \in 1..4 : t[j] = Char(d.digits[i])
      BY DEF Shows
  <2>1. CASE d.point = 1 \/ j < b + d.point - 1
    <3>1. j - b + 1 \in 1..4 /\ ~(d.point > 1 /\ j - b + 1 >= d.point) /\ b + (j - b + 1) - 1 = j
        BY <1>1, <1>2, <2>1 DEF Shows
    <3> QED
        BY <3>1 DEF Shows
  <2>2. CASE d.point > 1 /\ j > b + d.point - 1
    <3>1. j - b \in 1..4 /\ (d.point > 1 /\ j - b >= d.point) /\ b + (j - b) = j
        BY <1>1, <1>2, <2>2 DEF Shows
    <3> QED
        BY <3>1 DEF Shows
  <2> QED
      BY <1>1, <1>2, <2>1, <2>2
<1>5. d.point > 1 => b + d.point - 1 \in b..Len(t)
  <2>1. d.point > 1 => Len(t) = b + 4
      BY <1>1 DEF Shows
  <2> QED
      BY <1>1, <1>2, <2>1
<1>6. \A j \in b..Len(t) : t[j] \in Digits \cup {Point}
    BY <1>3, <1>4
<1>7. \A j \in b..Len(t) : t[j] # Blank /\ t[j] # Minus
    BY <1>6, CharactersDiffer
<1>8. \A j \in b..Len(t) : t[j] = Point <=> (d.point > 1 /\ j = b + d.point - 1)
    BY <1>3, <1>4
<1>9. \A j \in b..Len(t) : t[j] = Point \/ DigitOf[t[j]] \in 0..9
    BY <1>3, <1>4
<1> QED
    BY <1>2, <1>5, <1>6, <1>7, <1>8, <1>9

LEMMA FirstDigit ==
    ASSUME NEW i \in Int, NEW z, z = 0
    PROVE  10 * z + i = i
OBVIOUS

LEMMA FourDigits ==
    ASSUME NEW v, \A i \in 1..4 : v[i] \in 0..9
    PROVE  10 * (10 * (10 * v[1] + v[2]) + v[3]) + v[4]
               = 1000 * v[1] + 100 * v[2] + 10 * v[3] + v[4]
<1>1. PICK a \in 0..9 : a = v[1]
    OBVIOUS
<1>2. PICK b \in 0..9 : b = v[2]
    OBVIOUS
<1>3. PICK c \in 0..9 : c = v[3]
    OBVIOUS
<1>4. PICK e \in 0..9 : e = v[4]
    OBVIOUS
<1>5. 10 * (10 * (10 * a + b) + c) + e = 1000 * a + 100 * b + 10 * c + e
    OBVIOUS
<1> QED
    BY <1>1, <1>2, <1>3, <1>4, <1>5

\* The places of the digits, one after the other, give the number shown.
LEMMA MantissaShown ==
    ASSUME NEW t \in Seq(Chars), NEW d \in Display, NEW b \in Nat, Shows(t, d, b)
    PROVE  Mantissa(t, b, Len(t) + 1) =
               1000 * d.digits[1] + 100 * d.digits[2] + 10 * d.digits[3] + d.digits[4]
<1>1. /\ d.point \in 1..4
      /\ \A i \in 1..4 : d.digits[i] \in 0..9
    BY DisplayIs
<1>2. /\ b \in {1, 2} /\ Len(t) \in Nat
      /\ \A j \in b..Len(t) : t[j] = Point <=> (d.point > 1 /\ j = b + d.point - 1)
      /\ \A j \in b..Len(t) : t[j] = Point \/ DigitOf[t[j]] \in 0..9
  <2> HIDE DEF Shows
  <2> QED
      BY PlacesAre
<1>3. \A i \in 1..4 : DigitOf[Char(d.digits[i])] = d.digits[i]
    BY <1>1, CharIs
<1>4. /\ DigitOf[t[IF d.point > 1 /\ 1 >= d.point THEN b + 1 ELSE b + 1 - 1]] = d.digits[1]
      /\ DigitOf[t[IF d.point > 1 /\ 2 >= d.point THEN b + 2 ELSE b + 2 - 1]] = d.digits[2]
      /\ DigitOf[t[IF d.point > 1 /\ 3 >= d.point THEN b + 3 ELSE b + 3 - 1]] = d.digits[3]
      /\ DigitOf[t[IF d.point > 1 /\ 4 >= d.point THEN b + 4 ELSE b + 4 - 1]] = d.digits[4]
    BY <1>3 DEF Shows
<1>5. CASE d.point = 1
  <2>1. Len(t) = b + 3
      BY <1>5 DEF Shows
  <2>0. /\ b \in Nat /\ 4 \in Nat /\ 4 \in {4, 5}
        /\ \A k \in b..(b + 4 - 1) : t[k] = Point \/ DigitOf[t[k]] \in 0..9
      BY <1>2, <2>1
  <2>2. PICK f : /\ Mantissa(t, b, b + 4) = f[4]
                 /\ f[0] = 0
                 /\ \A k \in 1..4 : f[k] = IF t[b + k - 1] = Point THEN f[k - 1]
                                           ELSE 10 * f[k - 1] + DigitOf[t[b + k - 1]]
      BY <2>0, MantissaIs
  <2>3. \A k \in 1..4 : t[b + k - 1] # Point
      BY <1>2, <1>5, <2>1
  <2>4. /\ DigitOf[t[b + 1 - 1]] = d.digits[1] /\ DigitOf[t[b + 2 - 1]] = d.digits[2]
        /\ DigitOf[t[b + 3 - 1]] = d.digits[3] /\ DigitOf[t[b + 4 - 1]] = d.digits[4]
      BY <1>4, <1>5
  <2>5. /\ f[1] = 10 * f[1 - 1] + DigitOf[t[b + 1 - 1]] /\ f[2] = 10 * f[2 - 1] + DigitOf[t[b + 2 - 1]]
        /\ f[3] = 10 * f[3 - 1] + DigitOf[t[b + 3 - 1]] /\ f[4] = 10 * f[4 - 1] + DigitOf[t[b + 4 - 1]]
      BY <2>2, <2>3
  <2>9. 10 * f[0] + d.digits[1] = d.digits[1]
    <3>1. f[0] = 0 /\ d.digits[1] \in Int
        BY <1>1, <2>2, SMTT(30)
    <3> QED
        BY <3>1, FirstDigit
  <2>6. /\ f[1] = d.digits[1] /\ f[2] = 10 * f[1] + d.digits[2]
        /\ f[3] = 10 * f[2] + d.digits[3] /\ f[4] = 10 * f[3] + d.digits[4]
      BY <2>4, <2>5, <2>9
  <2>7. b + 4 = Len(t) + 1
      BY <1>2, <2>1
  <2>8. f[4] = 1000 * d.digits[1] + 100 * d.digits[2] + 10 * d.digits[3] + d.digits[4]
    <3>1. f[4] = 10 * (10 * (10 * d.digits[1] + d.digits[2]) + d.digits[3]) + d.digits[4]
        BY <2>6
    <3>2. 10 * (10 * (10 * d.digits[1] + d.digits[2]) + d.digits[3]) + d.digits[4]
              = 1000 * d.digits[1] + 100 * d.digits[2] + 10 * d.digits[3] + d.digits[4]
        BY <1>1, FourDigits
    <3> QED
        BY <3>1, <3>2
  <2> QED
      BY <2>2, <2>7, <2>8
<1>6. CASE d.point > 1
  <2>1. Len(t) = b + 4
      BY <1>6 DEF Shows
  <2>0. /\ b \in Nat /\ 5 \in Nat /\ 5 \in {4, 5}
        /\ \A k \in b..(b + 5 - 1) : t[k] = Point \/ DigitOf[t[k]] \in 0..9
      BY <1>2, <2>1
  <2>2. PICK f : /\ Mantissa(t, b, b + 5) = f[5]
                 /\ f[0] = 0
                 /\ \A k \in 1..5 : f[k] = IF t[b + k - 1] = Point THEN f[k - 1]
                                           ELSE 10 * f[k - 1] + DigitOf[t[b + k - 1]]
      BY <2>0, MantissaIs
  <2>3. \A k \in 1..5 : t[b + k - 1] = Point <=> k = d.point
      BY <1>1, <1>2, <1>6, <2>1
  <2>4. \A k \in 1..5 : f[k] = IF k = d.point THEN f[k - 1]
                               ELSE 10 * f[k - 1] + DigitOf[t[b + k - 1]]
      BY <2>2, <2>3
  <2>5. /\ f[1] = (IF 1 = d.point THEN f[0] ELSE 10 * f[0] + DigitOf[t[b + 1 - 1]])
        /\ f[2] = (IF 2 = d.point THEN f[1] ELSE 10 * f[1] + DigitOf[t[b + 2 - 1]])
        /\ f[3] = (IF 3 = d.point THEN f[2] ELSE 10 * f[2] + DigitOf[t[b + 3 - 1]])
        /\ f[4] = (IF 4 = d.point THEN f[3] ELSE 10 * f[3] + DigitOf[t[b + 4 - 1]])
        /\ f[5] = (IF 5 = d.point THEN f[4] ELSE 10 * f[4] + DigitOf[t[b + 5 - 1]])
      BY <2>4
  <2>6. b + 2 - 1 = b + 1 /\ b + 3 - 1 = b + 2 /\ b + 4 - 1 = b + 3 /\ b + 5 - 1 = b + 4
        /\ b + 1 - 1 = b
      BY <1>2
  <2>7. b + 5 = Len(t) + 1
      BY <1>2, <2>1
  <2>11. 10 * f[0] + d.digits[1] = d.digits[1]
    <3>1. f[0] = 0 /\ d.digits[1] \in Int
        BY <1>1, <2>2, SMTT(30)
    <3> QED
        BY <3>1, FirstDigit
  <2>12. 10 * (10 * (10 * d.digits[1] + d.digits[2]) + d.digits[3]) + d.digits[4]
              = 1000 * d.digits[1] + 100 * d.digits[2] + 10 * d.digits[3] + d.digits[4]
      BY <1>1, FourDigits
  <2>8. CASE d.point = 2
    <3>1. /\ DigitOf[t[b]] = d.digits[1] /\ DigitOf[t[b + 2]] = d.digits[2]
          /\ DigitOf[t[b + 3]] = d.digits[3] /\ DigitOf[t[b + 4]] = d.digits[4]
        BY <1>4, <2>6, <2>8
    <3>2. /\ f[1] = d.digits[1] /\ f[2] = f[1] /\ f[3] = 10 * f[2] + d.digits[2]
          /\ f[4] = 10 * f[3] + d.digits[3] /\ f[5] = 10 * f[4] + d.digits[4]
        BY <2>5, <2>6, <2>8, <2>11, <3>1
    <3>3. f[5] = 1000 * d.digits[1] + 100 * d.digits[2] + 10 * d.digits[3] + d.digits[4]
        BY <2>12, <3>2
    <3> QED
        BY <2>2, <2>7, <3>3
  <2>9. CASE d.point = 3
    <3>1. /\ DigitOf[t[b]] = d.digits[1] /\ DigitOf[t[b + 1]] = d.digits[2]
          /\ DigitOf[t[b + 3]] = d.digits[3] /\ DigitOf[t[b + 4]] = d.digits[4]
        BY <1>4, <2>6, <2>9
    <3>2. /\ f[1] = d.digits[1] /\ f[2] = 10 * f[1] + d.digits[2] /\ f[3] = f[2]
          /\ f[4] = 10 * f[3] + d.digits[3] /\ f[5] = 10 * f[4] + d.digits[4]
        BY <2>5, <2>6, <2>9, <2>11, <3>1
    <3>3. f[5] = 1000 * d.digits[1] + 100 * d.digits[2] + 10 * d.digits[3] + d.digits[4]
        BY <2>12, <3>2
    <3> QED
        BY <2>2, <2>7, <3>3
  <2>10. CASE d.point = 4
    <3>1. /\ DigitOf[t[b]] = d.digits[1] /\ DigitOf[t[b + 1]] = d.digits[2]
          /\ DigitOf[t[b + 2]] = d.digits[3] /\ DigitOf[t[b + 4]] = d.digits[4]
        BY <1>4, <2>6, <2>10
    <3>2. /\ f[1] = d.digits[1] /\ f[2] = 10 * f[1] + d.digits[2]
          /\ f[3] = 10 * f[2] + d.digits[3] /\ f[4] = f[3] /\ f[5] = 10 * f[4] + d.digits[4]
        BY <2>5, <2>6, <2>10, <2>11, <3>1
    <3>3. f[5] = 1000 * d.digits[1] + 100 * d.digits[2] + 10 * d.digits[3] + d.digits[4]
        BY <2>12, <3>2
    <3> QED
        BY <2>2, <2>7, <3>3
  <2> QED
      BY <1>1, <1>6, <2>8, <2>9, <2>10
<1> QED
    BY <1>1, <1>5, <1>6

LEMMA ScanShown ==
    ASSUME NEW t \in Seq(Chars), NEW d \in Display, NEW b \in Nat, Shows(t, d, b)
    PROVE  /\ ScanNumber(t).ok /\ ScanNumber(t).neg = (b = 2)
           /\ ScanNumber(t).milli = Shown(d) /\ Len(ScanNumber(t).rest) = 0
<1> DEFINE n == Len(t)
           start == Min({j \in 1..n : t[j] # Blank} \cup {n + 1})
           neg == start <= n /\ t[start] = Minus
           place == IF neg THEN start + 1 ELSE start
           stop == Min({n + 1} \cup
                       {j \in place..n : \/ t[j] \notin Digits \cup {Point}
                                         \/ t[j] = Point /\ \E i \in place..j-1 : t[i] = Point})
           dec == (stop - 1) - Min({k \in place..stop-1 : t[k] = Point} \cup {stop - 1})
<1>1. d.point \in 1..4
    BY DisplayIs
<1>2. /\ b \in {1, 2} /\ Len(t) \in Nat
      /\ \A j \in b..Len(t) : t[j] # Blank /\ t[j] # Minus /\ t[j] \in Digits \cup {Point}
      /\ \A j \in b..Len(t) : t[j] = Point <=> (d.point > 1 /\ j = b + d.point - 1)
      /\ d.point > 1 => b + d.point - 1 \in b..Len(t)
    BY PlacesAre
<1>3. /\ b \in {1, 2}
      /\ Len(t) = b + (IF d.point = 1 THEN 3 ELSE 4)
      /\ b = 2 => t[1] = Minus
    BY DEF Shows
<1>a. /\ b \in 1..2 /\ n \in 5..6 \cup {4}
      /\ d.point = 1 => n = b + 3
      /\ d.point > 1 => n = b + 4
    BY <1>1, <1>2, <1>3
<1>4. start = 1
  <2>1. {j \in 1..n : t[j] # Blank} \cup {n + 1} \in SUBSET Int
      BY <1>2
  <2>2. 1 \in {j \in 1..n : t[j] # Blank} \cup {n + 1}
    <3>1. t[1] # Blank
      <4>1. b = 1 => 1 \in b..Len(t)
          BY <1>2, <1>a, SMTT(30)
      <4> QED
          BY <1>2, <1>3, <4>1, CharactersDiffer
    <3> QED
        BY <1>2, <1>3, <3>1
  <2>3. \A y \in {j \in 1..n : t[j] # Blank} \cup {n + 1} : 1 <= y
      BY <1>2
  <2> QED
      BY <2>1, <2>2, <2>3, MinIs
<1>5. neg = (b = 2) /\ place = b
  <2>1. b = 2 => t[1] = Minus
      BY <1>3
  <2>2. b = 1 => t[1] # Minus
      BY <1>2, <1>3
  <2>3. 1 <= n
      BY <1>2, <1>3
  <2> HIDE DEF start, n
  <2> QED
      BY <1>1, <1>3, <1>4, <2>1, <2>2, <2>3
<1>6. stop = n + 1
  <2> DEFINE S == {n + 1} \cup
                  {j \in place..n : \/ t[j] \notin Digits \cup {Point}
                                    \/ t[j] = Point /\ \E i \in place..j-1 : t[i] = Point}
  <2>1. S = {n + 1}
    <3> SUFFICES ASSUME NEW j \in b..n,
                        \/ t[j] \notin Digits \cup {Point}
                        \/ t[j] = Point /\ \E i \in b..j-1 : t[i] = Point
                 PROVE  FALSE
      <4> HIDE DEF place, n
      <4> QED
          BY <1>5
    <3>1. t[j] = Point /\ \E i \in b..j-1 : t[i] = Point
        BY <1>2
    <3>2. PICK i \in b..j-1 : t[i] = Point
        BY <3>1
    <3>3. i \in b..n /\ i # j
        BY <1>2, <3>2
    <3> QED
        BY <1>2, <3>1, <3>2, <3>3
  <2>2. n + 1 \in {n + 1} /\ {n + 1} \in SUBSET Int /\ \A y \in {n + 1} : n + 1 <= y
      BY <1>2
  <2>3. Min({n + 1}) = n + 1
      BY <2>2, MinIs
  <2> HIDE DEF S
  <2>4. stop = Min(S)
      BY DEF S
  <2> QED
      BY <2>1, <2>3, <2>4
<1>7. dec = IF d.point = 1 THEN 0 ELSE 5 - d.point
  <2> DEFINE S == {k \in place..stop-1 : t[k] = Point} \cup {stop - 1}
  <2>1. S = {k \in b..n : t[k] = Point} \cup {n}
    <3>1. (n + 1) - 1 = n
        BY <1>2
    <3> HIDE DEF place, stop, n
    <3> QED
        BY <1>5, <1>6, <3>1
  <2>2. CASE d.point = 1
    <3>1. S = {n}
      <4>1. \A j \in b..n : t[j] # Point
          BY <1>2, <2>2
      <4> HIDE DEF S, n
      <4> QED
          BY <2>1, <4>1
    <3>2. n \in {n} /\ {n} \in SUBSET Int /\ \A y \in {n} : n <= y
        BY <1>2
    <3>3. Min({n}) = n
        BY <3>2, MinIs
    <3>4. dec = (stop - 1) - Min(S)
        OBVIOUS
    <3>5. (n + 1) - 1 - n = 0
        BY <1>2
    <3> HIDE DEF S, stop, dec
    <3> QED
        BY <1>6, <2>2, <3>1, <3>3, <3>4, <3>5
  <2>3. CASE d.point > 1
    <3>1. S = {b + d.point - 1} \cup {n}
        BY <1>2, <2>1, <2>3
    <3>2. /\ b + d.point - 1 \in S /\ S \in SUBSET Int
          /\ \A y \in S : b + d.point - 1 <= y
      <4>1. b + d.point - 1 \in Int /\ n \in Int /\ b + d.point - 1 <= n
          BY <1>1, <1>a, <2>3
      <4> HIDE DEF S, n
      <4> QED
          BY <3>1, <4>1
    <3>3. Min(S) = b + d.point - 1
      <4> HIDE DEF S
      <4> QED
          BY <3>2, MinIs
    <3> HIDE DEF stop, S
    <3>4. dec = (stop - 1) - (b + d.point - 1)
        BY <3>3 DEF S
    <3> QED
        BY <1>1, <1>2, <1>3, <1>6, <2>3, <3>4
  <2> QED
      BY <1>1, <2>2, <2>3
<1>8. Mantissa(t, place, stop)
        = 1000 * d.digits[1] + 100 * d.digits[2] + 10 * d.digits[3] + d.digits[4]
  <2>1. Mantissa(t, b, Len(t) + 1)
          = 1000 * d.digits[1] + 100 * d.digits[2] + 10 * d.digits[3] + d.digits[4]
      BY MantissaShown
  <2> HIDE DEF place, stop
  <2> QED
      BY <1>5, <1>6, <2>1
<1>9. ScanNumber(t) = [ok |-> \E k \in place..stop-1 : t[k] # Point, neg |-> neg,
                       milli |-> Mantissa(t, place, stop) * 10^(3 - dec),
                       rest |-> SubSeq(t, stop, n)]
    BY DEF ScanNumber
<1>10. \E k \in place..stop-1 : t[k] # Point
  <2>1. b \in b..n /\ t[b] # Point /\ (n + 1) - 1 = n
      BY <1>1, <1>2, <1>3
  <2> HIDE DEF place, stop
  <2> QED
      BY <1>5, <1>6, <2>1
<1>11. Len(SubSeq(t, stop, n)) = 0
  <2>1. n + 1 \in Nat /\ n \in Nat /\ ~(n + 1 <= n)
      BY <1>2
  <2> HIDE DEF n, stop
  <2> QED
      BY <1>6, <2>1
<1>12. Mantissa(t, place, stop) * 10^(3 - dec) = Shown(d)
  <2> HIDE DEF place, stop, dec
  <2> QED
      BY <1>7, <1>8 DEF Shown
<1> DEFINE ok == \E k \in place..stop-1 : t[k] # Point
<1>13. ok = TRUE
    BY <1>10
<1>14. ScanNumber(t) = [ok |-> ok, neg |-> neg, milli |-> Mantissa(t, place, stop) * 10^(3 - dec),
                        rest |-> SubSeq(t, stop, n)]
    BY <1>9
<1> HIDE DEF n, start, neg, place, stop, dec, ok
<1> DEFINE milli == Mantissa(t, place, stop) * 10^(3 - dec)
           rest == SubSeq(t, stop, n)
<1>15. ScanNumber(t) = [ok |-> ok, neg |-> neg, milli |-> milli, rest |-> rest]
    BY <1>14
<1>16. /\ ScanNumber(t).milli = milli /\ ScanNumber(t).rest = rest
  <2> HIDE DEF milli, rest
  <2> QED
      BY <1>15
<1>17. ScanNumber(t).ok = ok
  <2> HIDE DEF milli, rest
  <2> QED
      BY <1>15
<1>18. ScanNumber(t).neg = neg
  <2> HIDE DEF milli, rest
  <2> QED
      BY <1>15
<1> QED
    BY <1>5, <1>11, <1>12, <1>13, <1>16, <1>17, <1>18

\* What one more character adds to a text, and that none adds nothing.
LEMMA Added ==
    ASSUME NEW S, NEW s \in Seq(S), NEW x \in S
    PROVE  /\ s \o <<x>> \in Seq(S) /\ Len(s) \in Nat
           /\ Len(s \o <<x>>) = Len(s) + 1 /\ (s \o <<x>>)[Len(s) + 1] = x
           /\ \A k \in 1..Len(s) : (s \o <<x>>)[k] = s[k]
           /\ s \o <<>> = s
<1>1. /\ s \o <<x>> = Append(s, x) /\ s \o <<>> = s
    BY OneAdded
<1>2. /\ Append(s, x) \in Seq(S) /\ Len(Append(s, x)) = Len(s) + 1
      /\ \A i \in 1..Len(s) : Append(s, x)[i] = s[i]
      /\ Append(s, x)[Len(s) + 1] = x
    BY AppendProperties
<1>3. Len(s) \in Nat
    BY LenProperties
<1> QED
    BY <1>1, <1>2, <1>3

\* Four characters behind s.
Four(s, w, x, y, z) == s \o <<w>> \o <<x>> \o <<y>> \o <<z>>

LEMMA FourAdded ==
    ASSUME NEW s \in Seq(Chars), NEW w \in Chars, NEW x \in Chars, NEW y \in Chars,
           NEW z \in Chars, NEW n \in Nat, Len(s) = n
    PROVE  /\ Four(s, w, x, y, z) \in Seq(Chars) /\ Len(Four(s, w, x, y, z)) = n + 4
           /\ Four(s, w, x, y, z)[n + 1] = w /\ Four(s, w, x, y, z)[n + 2] = x
           /\ Four(s, w, x, y, z)[n + 3] = y /\ Four(s, w, x, y, z)[n + 4] = z
<1> DEFINE t1 == s \o <<w>>
           t2 == t1 \o <<x>>
           t3 == t2 \o <<y>>
           t4 == t3 \o <<z>>
<1>1. t1 \in Seq(Chars) /\ Len(t1) = n + 1 /\ t1[n + 1] = w
    BY Added
<1> HIDE DEF t1
<1>2. /\ t2 \in Seq(Chars) /\ Len(t2) = (n + 1) + 1 /\ t2[(n + 1) + 1] = x
      /\ \A k \in 1..(n + 1) : t2[k] = t1[k]
    BY <1>1, Added
<1> HIDE DEF t2
<1>3. /\ t3 \in Seq(Chars) /\ Len(t3) = ((n + 1) + 1) + 1 /\ t3[((n + 1) + 1) + 1] = y
      /\ \A k \in 1..((n + 1) + 1) : t3[k] = t2[k]
    BY <1>2, Added
<1> HIDE DEF t3
<1>4. /\ t4 \in Seq(Chars) /\ Len(t4) = (((n + 1) + 1) + 1) + 1
      /\ t4[(((n + 1) + 1) + 1) + 1] = z
      /\ \A k \in 1..(((n + 1) + 1) + 1) : t4[k] = t3[k]
    BY <1>3, Added
<1>5. t4 = Four(s, w, x, y, z)
    BY DEF t1, t2, t3, Four
<1> HIDE DEF t4
<1>6. /\ (n + 1) + 1 = n + 2 /\ ((n + 1) + 1) + 1 = n + 3 /\ (((n + 1) + 1) + 1) + 1 = n + 4
    OBVIOUS
<1>9. /\ n + 1 \in 1..(n + 1) /\ n + 1 \in 1..(n + 2) /\ n + 1 \in 1..(n + 3)
      /\ n + 2 \in 1..(n + 2) /\ n + 2 \in 1..(n + 3) /\ n + 3 \in 1..(n + 3)
    OBVIOUS
<1>7. /\ t4[n + 1] = w /\ t4[n + 2] = x /\ t4[n + 3] = y /\ t4[n + 4] = z
    BY <1>1, <1>2, <1>3, <1>4, <1>6, <1>9
<1> QED
    BY <1>4, <1>5, <1>6, <1>7

LEMMA FourKeeps ==
    ASSUME NEW s \in Seq(Chars), NEW w \in Chars, NEW x \in Chars, NEW y \in Chars,
           NEW z \in Chars, NEW k \in 1..Len(s)
    PROVE  Four(s, w, x, y, z)[k] = s[k]
<1> DEFINE t1 == s \o <<w>>
           t2 == t1 \o <<x>>
           t3 == t2 \o <<y>>
           t4 == t3 \o <<z>>
<1>1. t1 \in Seq(Chars) /\ k \in 1..Len(t1) /\ t1[k] = s[k]
    BY Added
<1> HIDE DEF t1
<1>2. t2 \in Seq(Chars) /\ k \in 1..Len(t2) /\ t2[k] = t1[k]
    BY <1>1, Added
<1> HIDE DEF t2
<1>3. t3 \in Seq(Chars) /\ k \in 1..Len(t3) /\ t3[k] = t2[k]
    BY <1>2, Added
<1> HIDE DEF t3
<1>4. t4[k] = t3[k]
    BY <1>3, Added
<1>5. t4 = Four(s, w, x, y, z)
    BY DEF t1, t2, t3, Four
<1> HIDE DEF t4
<1> QED
    BY <1>1, <1>2, <1>3, <1>4, <1>5

\* The point, if it stands before digit k.
PointAt(d, k) == IF d.point = k THEN <<Point>> ELSE <<>>

\* What cook_value puts together behind s.
TextOf(d, s) ==
    s \o <<Char(d.digits[1])>> \o PointAt(d, 2) \o <<Char(d.digits[2])>>
      \o PointAt(d, 3) \o <<Char(d.digits[3])>> \o PointAt(d, 4) \o <<Char(d.digits[4])>>

LEMMA TextShows ==
    ASSUME NEW d \in Display, NEW s \in Seq(Chars), NEW n \in {0, 1}, Len(s) = n,
           n = 1 => s[1] = Minus
    PROVE  TextOf(d, s) \in Seq(Chars) /\ Shows(TextOf(d, s), d, n + 1)
<1> DEFINE t == TextOf(d, s)
           e1 == PointAt(d, 2)
           e2 == PointAt(d, 3)
           e3 == PointAt(d, 4)
           b == n + 1
           w == Char(d.digits[1])
           x == Char(d.digits[2])
           y == Char(d.digits[3])
           z == Char(d.digits[4])
           p0 == s
           p1 == s \o <<w>>
           q1 == p1 \o e1
           p2 == q1 \o <<x>>
           q2 == p2 \o e2
           p3 == q2 \o <<y>>
           q3 == p3 \o e3
<1>d. /\ w = Char(d.digits[1]) /\ x = Char(d.digits[2])
      /\ y = Char(d.digits[3]) /\ z = Char(d.digits[4])
    OBVIOUS
<1>a. /\ b \in Nat /\ w \in Chars /\ x \in Chars /\ y \in Chars /\ z \in Chars /\ Point \in Chars
      /\ n \in Nat /\ b = n + 1 /\ n \in {0, 1}
  <2>1. \A i \in 1..4 : Char(d.digits[i]) \in Digits
      BY DisplayIs, CharIs
  <2> HIDE DEF Char
  <2> QED
      BY <2>1 DEF Chars
<1>b. t = q3 \o <<z>>
    BY DEF TextOf
<1>c. d.point \in 1..4
    BY DisplayIs
<1> HIDE DEF w, x, y, z, t, b
<1>1. /\ p1 \in Seq(Chars) /\ Len(p1) = b /\ p1[b] = w /\ \A k \in 1..n : p1[k] = p0[k]
      /\ n = 1 => p0[1] = Minus
      /\ p0 \in Seq(Chars) /\ Len(p0) = n
    BY <1>a, Added
<1> HIDE DEF p0, p1
<1>2. p2 \in Seq(Chars) /\ p3 \in Seq(Chars)
  <2>1. \A u \in Seq(Chars) : /\ u \o <<Point>> \in Seq(Chars) /\ u \o <<>> \in Seq(Chars)
                               /\ u \o <<x>> \in Seq(Chars) /\ u \o <<y>> \in Seq(Chars)
    <3> SUFFICES ASSUME NEW u \in Seq(Chars)
                 PROVE  /\ u \o <<Point>> \in Seq(Chars) /\ u \o <<>> \in Seq(Chars)
                        /\ u \o <<x>> \in Seq(Chars) /\ u \o <<y>> \in Seq(Chars)
        OBVIOUS
    <3>1. u \o <<Point>> \in Seq(Chars) /\ u \o <<>> = u
        BY <1>a, Added
    <3>2. u \o <<x>> \in Seq(Chars)
        BY <1>a, Added
    <3>3. u \o <<y>> \in Seq(Chars)
        BY <1>a, Added
    <3> QED
        BY <3>1, <3>2, <3>3
  <2>2. e1 \in {<<Point>>, <<>>} /\ e2 \in {<<Point>>, <<>>}
      BY DEF PointAt
  <2>3. q1 \in Seq(Chars)
      BY <1>1, <2>1, <2>2
  <2>4. p2 \in Seq(Chars)
    <3> HIDE DEF q1
    <3> QED
        BY <2>1, <2>3
  <2>5. q2 \in Seq(Chars)
    <3> HIDE DEF p2
    <3> QED
        BY <2>1, <2>2, <2>4
  <2>6. p3 \in Seq(Chars)
    <3> HIDE DEF q2
    <3> QED
        BY <2>1, <2>5
  <2> QED
      BY <2>4, <2>6
<1>3. \A u \in Seq(Chars) : u \o <<>> = u
    BY <1>a, Added
<1> HIDE DEF p2, p3, q1, q2, q3, e1, e2, e3
<1>4. CASE d.point = 1
  <2>1. q1 = p1 /\ q2 = p2 /\ q3 = p3
      BY <1>1, <1>2, <1>3, <1>4 DEF PointAt, q1, q2, q3, e1, e2, e3
  <2>2. t = Four(p0, w, x, y, z)
      BY <1>b, <2>1 DEF Four, p0, p1, p2, p3, q1, q2, q3
  <2>3. /\ p0 \in Seq(Chars) /\ n \in Nat /\ Len(p0) = n
        /\ w \in Chars /\ x \in Chars /\ y \in Chars /\ z \in Chars /\ Point \in Chars
      BY <1>a, <1>1
  <2>4. Four(p0, w, x, y, z) \in Seq(Chars) /\ Len(Four(p0, w, x, y, z)) = n + 4
      BY <2>3, FourAdded
  <2>5. /\ Four(p0, w, x, y, z)[n + 1] = w /\ Four(p0, w, x, y, z)[n + 2] = x
        /\ Four(p0, w, x, y, z)[n + 3] = y /\ Four(p0, w, x, y, z)[n + 4] = z
      BY <2>3, FourAdded
  <2>6. \A k \in 1..n : t[k] = p0[k]
    <3>1. \A k \in 1..Len(p0) : Four(p0, w, x, y, z)[k] = p0[k]
      <4>1. \A u \in Seq(Chars) : \A c1, c2, c3, c4 \in Chars :
               \A k \in 1..Len(u) : Four(u, c1, c2, c3, c4)[k] = u[k]
          BY FourKeeps
      <4>2. /\ p0 \in Seq(Chars) /\ w \in Chars /\ x \in Chars /\ y \in Chars /\ z \in Chars
            /\ Point \in Chars
          BY <2>3
      <4> QED
          BY <4>1, <4>2
    <3> QED
        BY <2>2, <2>3, <3>1
  <2>7. /\ t \in Seq(Chars) /\ Len(t) = b + 3
        /\ t[b] = w /\ t[b + 1] = x /\ t[b + 2] = y /\ t[b + 3] = z
    <3>1. t[n + 1] = w /\ t[n + 2] = x /\ t[n + 3] = y /\ t[n + 4] = z
        BY <2>2, <2>5
    <3> QED
        BY <1>a, <1>1, <2>2, <2>3, <2>4, <2>6, <3>1
  <2>8. b = 2 => t[1] = Minus
    <3>1. b = 2 => n = 1
        BY <1>a
    <3> QED
        BY <1>a, <1>1, <2>6, <3>1
  <2>9. \A i \in 1..4 :
           t[IF d.point > 1 /\ i >= d.point THEN b + i ELSE b + i - 1] = Char(d.digits[i])
    <3> SUFFICES ASSUME NEW i \in 1..4
                 PROVE  t[IF d.point > 1 /\ i >= d.point THEN b + i ELSE b + i - 1]
                            = Char(d.digits[i])
        OBVIOUS
    <3>1. i = 1 \/ i = 2 \/ i = 3 \/ i = 4
        OBVIOUS
    <3>2. CASE i = 1
        BY <1>a, <1>d, <1>4, <2>7, <3>2
    <3>3. CASE i = 2
        BY <1>a, <1>d, <1>4, <2>7, <3>3
    <3>4. CASE i = 3
        BY <1>a, <1>d, <1>4, <2>7, <3>4
    <3>5. CASE i = 4
        BY <1>a, <1>d, <1>4, <2>7, <3>5
    <3> QED
        BY <3>1, <3>2, <3>3, <3>4, <3>5
  <2>10. d.point > 1 => t[b + d.point - 1] = Point
      BY <1>a, <1>4, <2>7
  <2>12. Len(t) = b + (IF d.point = 1 THEN 3 ELSE 4)
      BY <1>4, <2>7
  <2>11. b \in {1, 2}
      BY <1>a
  <2>13. Shows(t, d, b)
      BY <2>8, <2>9, <2>10, <2>11, <2>12, Zenon DEF Shows
  <2> QED
      BY <2>7, <2>13 DEF t, b
<1>5. CASE d.point = 2
  <2>1. q1 = p1 \o <<Point>> /\ q2 = p2 /\ q3 = p3
      BY <1>1, <1>2, <1>3, <1>5 DEF PointAt, q1, q2, q3, e1, e2, e3
  <2>2. t = Four(p1, Point, x, y, z)
      BY <1>b, <2>1 DEF Four, p2, p3, q1, q2, q3
  <2>3. /\ p1 \in Seq(Chars) /\ b \in Nat /\ Len(p1) = b
        /\ w \in Chars /\ x \in Chars /\ y \in Chars /\ z \in Chars /\ Point \in Chars
      BY <1>a, <1>1
  <2>4. Four(p1, Point, x, y, z) \in Seq(Chars) /\ Len(Four(p1, Point, x, y, z)) = b + 4
      BY <2>3, FourAdded
  <2>5. /\ Four(p1, Point, x, y, z)[b + 1] = Point /\ Four(p1, Point, x, y, z)[b + 2] = x
        /\ Four(p1, Point, x, y, z)[b + 3] = y /\ Four(p1, Point, x, y, z)[b + 4] = z
      BY <2>3, FourAdded
  <2>6. \A k \in 1..b : t[k] = p1[k]
    <3>1. \A k \in 1..Len(p1) : Four(p1, Point, x, y, z)[k] = p1[k]
      <4>1. \A u \in Seq(Chars) : \A c1, c2, c3, c4 \in Chars :
               \A k \in 1..Len(u) : Four(u, c1, c2, c3, c4)[k] = u[k]
          BY FourKeeps
      <4>2. /\ p1 \in Seq(Chars) /\ w \in Chars /\ x \in Chars /\ y \in Chars /\ z \in Chars
            /\ Point \in Chars
          BY <2>3
      <4> QED
          BY <4>1, <4>2
    <3> QED
        BY <2>2, <2>3, <3>1
  <2>7. /\ t \in Seq(Chars) /\ Len(t) = b + 4
        /\ t[b] = w /\ t[b + 1] = Point /\ t[b + 2] = x /\ t[b + 3] = y /\ t[b + 4] = z
    <3>1. t[b + 1] = Point /\ t[b + 2] = x /\ t[b + 3] = y /\ t[b + 4] = z
        BY <2>2, <2>5
    <3> QED
        BY <1>a, <1>1, <2>2, <2>3, <2>4, <2>6, <3>1
  <2>8. b = 2 => t[1] = Minus
    <3>1. b = 2 => n = 1
        BY <1>a
    <3> QED
        BY <1>a, <1>1, <2>6, <3>1
  <2>9. \A i \in 1..4 :
           t[IF d.point > 1 /\ i >= d.point THEN b + i ELSE b + i - 1] = Char(d.digits[i])
    <3> SUFFICES ASSUME NEW i \in 1..4
                 PROVE  t[IF d.point > 1 /\ i >= d.point THEN b + i ELSE b + i - 1]
                            = Char(d.digits[i])
        OBVIOUS
    <3>1. i = 1 \/ i = 2 \/ i = 3 \/ i = 4
        OBVIOUS
    <3>2. CASE i = 1
        BY <1>a, <1>d, <1>5, <2>7, <3>2
    <3>3. CASE i = 2
        BY <1>a, <1>d, <1>5, <2>7, <3>3
    <3>4. CASE i = 3
        BY <1>a, <1>d, <1>5, <2>7, <3>4
    <3>5. CASE i = 4
        BY <1>a, <1>d, <1>5, <2>7, <3>5
    <3> QED
        BY <3>1, <3>2, <3>3, <3>4, <3>5
  <2>10. d.point > 1 => t[b + d.point - 1] = Point
      BY <1>a, <1>5, <2>7
  <2>12. Len(t) = b + (IF d.point = 1 THEN 3 ELSE 4)
      BY <1>5, <2>7
  <2>11. b \in {1, 2}
      BY <1>a
  <2>13. Shows(t, d, b)
      BY <2>8, <2>9, <2>10, <2>11, <2>12, Zenon DEF Shows
  <2> QED
      BY <2>7, <2>13 DEF t, b
<1>6. CASE d.point = 3
  <2>1. q1 = p1 /\ q2 = p2 \o <<Point>> /\ q3 = p3
      BY <1>1, <1>2, <1>3, <1>6 DEF PointAt, q1, q2, q3, e1, e2, e3
  <2>2. t = Four(p1, x, Point, y, z)
      BY <1>b, <2>1 DEF Four, p2, p3, q1, q2, q3
  <2>3. /\ p1 \in Seq(Chars) /\ b \in Nat /\ Len(p1) = b
        /\ w \in Chars /\ x \in Chars /\ y \in Chars /\ z \in Chars /\ Point \in Chars
      BY <1>a, <1>1
  <2>4. Four(p1, x, Point, y, z) \in Seq(Chars) /\ Len(Four(p1, x, Point, y, z)) = b + 4
      BY <2>3, FourAdded
  <2>5. /\ Four(p1, x, Point, y, z)[b + 1] = x /\ Four(p1, x, Point, y, z)[b + 2] = Point
        /\ Four(p1, x, Point, y, z)[b + 3] = y /\ Four(p1, x, Point, y, z)[b + 4] = z
      BY <2>3, FourAdded
  <2>6. \A k \in 1..b : t[k] = p1[k]
    <3>1. \A k \in 1..Len(p1) : Four(p1, x, Point, y, z)[k] = p1[k]
      <4>1. \A u \in Seq(Chars) : \A c1, c2, c3, c4 \in Chars :
               \A k \in 1..Len(u) : Four(u, c1, c2, c3, c4)[k] = u[k]
          BY FourKeeps
      <4>2. /\ p1 \in Seq(Chars) /\ w \in Chars /\ x \in Chars /\ y \in Chars /\ z \in Chars
            /\ Point \in Chars
          BY <2>3
      <4> QED
          BY <4>1, <4>2
    <3> QED
        BY <2>2, <2>3, <3>1
  <2>7. /\ t \in Seq(Chars) /\ Len(t) = b + 4
        /\ t[b] = w /\ t[b + 1] = x /\ t[b + 2] = Point /\ t[b + 3] = y /\ t[b + 4] = z
    <3>1. t[b + 1] = x /\ t[b + 2] = Point /\ t[b + 3] = y /\ t[b + 4] = z
        BY <2>2, <2>5
    <3> QED
        BY <1>a, <1>1, <2>2, <2>3, <2>4, <2>6, <3>1
  <2>8. b = 2 => t[1] = Minus
    <3>1. b = 2 => n = 1
        BY <1>a
    <3> QED
        BY <1>a, <1>1, <2>6, <3>1
  <2>9. \A i \in 1..4 :
           t[IF d.point > 1 /\ i >= d.point THEN b + i ELSE b + i - 1] = Char(d.digits[i])
    <3> SUFFICES ASSUME NEW i \in 1..4
                 PROVE  t[IF d.point > 1 /\ i >= d.point THEN b + i ELSE b + i - 1]
                            = Char(d.digits[i])
        OBVIOUS
    <3>1. i = 1 \/ i = 2 \/ i = 3 \/ i = 4
        OBVIOUS
    <3>2. CASE i = 1
        BY <1>a, <1>d, <1>6, <2>7, <3>2
    <3>3. CASE i = 2
        BY <1>a, <1>d, <1>6, <2>7, <3>3
    <3>4. CASE i = 3
        BY <1>a, <1>d, <1>6, <2>7, <3>4
    <3>5. CASE i = 4
        BY <1>a, <1>d, <1>6, <2>7, <3>5
    <3> QED
        BY <3>1, <3>2, <3>3, <3>4, <3>5
  <2>10. d.point > 1 => t[b + d.point - 1] = Point
      BY <1>a, <1>6, <2>7
  <2>12. Len(t) = b + (IF d.point = 1 THEN 3 ELSE 4)
      BY <1>6, <2>7
  <2>11. b \in {1, 2}
      BY <1>a
  <2>13. Shows(t, d, b)
      BY <2>8, <2>9, <2>10, <2>11, <2>12, Zenon DEF Shows
  <2> QED
      BY <2>7, <2>13 DEF t, b
<1>7. CASE d.point = 4
  <2>1. q1 = p1 /\ q2 = p2 /\ q3 = p3 \o <<Point>>
      BY <1>1, <1>2, <1>3, <1>7 DEF PointAt, q1, q2, q3, e1, e2, e3
  <2>2. t = Four(p1, x, y, Point, z)
      BY <1>b, <2>1 DEF Four, p2, p3, q1, q2, q3
  <2>3. /\ p1 \in Seq(Chars) /\ b \in Nat /\ Len(p1) = b
        /\ w \in Chars /\ x \in Chars /\ y \in Chars /\ z \in Chars /\ Point \in Chars
      BY <1>a, <1>1
  <2>4. Four(p1, x, y, Point, z) \in Seq(Chars) /\ Len(Four(p1, x, y, Point, z)) = b + 4
      BY <2>3, FourAdded
  <2>5. /\ Four(p1, x, y, Point, z)[b + 1] = x /\ Four(p1, x, y, Point, z)[b + 2] = y
        /\ Four(p1, x, y, Point, z)[b + 3] = Point /\ Four(p1, x, y, Point, z)[b + 4] = z
      BY <2>3, FourAdded
  <2>6. \A k \in 1..b : t[k] = p1[k]
    <3>1. \A k \in 1..Len(p1) : Four(p1, x, y, Point, z)[k] = p1[k]
      <4>1. \A u \in Seq(Chars) : \A c1, c2, c3, c4 \in Chars :
               \A k \in 1..Len(u) : Four(u, c1, c2, c3, c4)[k] = u[k]
          BY FourKeeps
      <4>2. /\ p1 \in Seq(Chars) /\ w \in Chars /\ x \in Chars /\ y \in Chars /\ z \in Chars
            /\ Point \in Chars
          BY <2>3
      <4> QED
          BY <4>1, <4>2
    <3> QED
        BY <2>2, <2>3, <3>1
  <2>7. /\ t \in Seq(Chars) /\ Len(t) = b + 4
        /\ t[b] = w /\ t[b + 1] = x /\ t[b + 2] = y /\ t[b + 3] = Point /\ t[b + 4] = z
    <3>1. t[b + 1] = x /\ t[b + 2] = y /\ t[b + 3] = Point /\ t[b + 4] = z
        BY <2>2, <2>5
    <3> QED
        BY <1>a, <1>1, <2>2, <2>3, <2>4, <2>6, <3>1
  <2>8. b = 2 => t[1] = Minus
    <3>1. b = 2 => n = 1
        BY <1>a
    <3> QED
        BY <1>a, <1>1, <2>6, <3>1
  <2>9. \A i \in 1..4 :
           t[IF d.point > 1 /\ i >= d.point THEN b + i ELSE b + i - 1] = Char(d.digits[i])
    <3> SUFFICES ASSUME NEW i \in 1..4
                 PROVE  t[IF d.point > 1 /\ i >= d.point THEN b + i ELSE b + i - 1]
                            = Char(d.digits[i])
        OBVIOUS
    <3>1. i = 1 \/ i = 2 \/ i = 3 \/ i = 4
        OBVIOUS
    <3>2. CASE i = 1
        BY <1>a, <1>d, <1>7, <2>7, <3>2
    <3>3. CASE i = 2
        BY <1>a, <1>d, <1>7, <2>7, <3>3
    <3>4. CASE i = 3
        BY <1>a, <1>d, <1>7, <2>7, <3>4
    <3>5. CASE i = 4
        BY <1>a, <1>d, <1>7, <2>7, <3>5
    <3> QED
        BY <3>1, <3>2, <3>3, <3>4, <3>5
  <2>10. d.point > 1 => t[b + d.point - 1] = Point
      BY <1>a, <1>7, <2>7
  <2>12. Len(t) = b + (IF d.point = 1 THEN 3 ELSE 4)
      BY <1>7, <2>7
  <2>11. b \in {1, 2}
      BY <1>a
  <2>13. Shows(t, d, b)
      BY <2>8, <2>9, <2>10, <2>11, <2>12, Zenon DEF Shows
  <2> QED
      BY <2>7, <2>13 DEF t, b
<1> QED
    BY <1>c, <1>4, <1>5, <1>6, <1>7

\* The byte that carries digit k.
Byte(d, k) == Lit(d.digits[k]) + (IF d.point = k /\ k > 1 THEN 8 ELSE 0)

\* Nine bytes that are the packet of a display.
Carries(raw, d) == \A j \in 1..9 : raw[j] = Encode(d)[j]

LEMMA BytesAre ==
    ASSUME NEW raw, NEW d \in Display, Carries(raw, d)
    PROVE  /\ raw[2] = d.flags /\ raw[3] = 0
           /\ raw[4] = Byte(d, 4) /\ raw[5] = Byte(d, 3)
           /\ raw[6] = Byte(d, 2) /\ raw[7] = Byte(d, 1)
           /\ raw[8] = 2 + (IF d.neg THEN 8 ELSE 0)
<1>1. /\ Encode(d)[2] = d.flags /\ Encode(d)[3] = 0
      /\ Encode(d)[4] = Byte(d, 4) /\ Encode(d)[5] = Byte(d, 3)
      /\ Encode(d)[6] = Byte(d, 2) /\ Encode(d)[7] = Byte(d, 1)
      /\ Encode(d)[8] = 2 + (IF d.neg THEN 8 ELSE 0)
    BY DEF Encode, Byte
<1>2. /\ raw[2] = Encode(d)[2] /\ raw[3] = Encode(d)[3] /\ raw[4] = Encode(d)[4]
      /\ raw[5] = Encode(d)[5] /\ raw[6] = Encode(d)[6] /\ raw[7] = Encode(d)[7]
      /\ raw[8] = Encode(d)[8]
    BY DEF Carries
<1> QED
    BY <1>1, <1>2

\* A digit's byte holds the digit, and bit 3 of it the point.
LEMMA ByteIs ==
    ASSUME NEW d \in Display, NEW k \in 1..4
    PROVE  /\ cook_digit(Byte(d, k)) = Char(d.digits[k])
           /\ k > 1 => (BIT(Byte(d, k), 3) = 1 <=> d.point = k)
<1>1. d.digits[k] \in 0..9
    BY DisplayIs
<1>2. /\ Lit(d.digits[k]) \in Nat /\ BIT(Lit(d.digits[k]), 3) = 0
      /\ BIT(Lit(d.digits[k]) + 8, 3) = 1
    BY <1>1, PointBit
<1>3. CASE d.point = k /\ k > 1
  <2>1. Byte(d, k) = Lit(d.digits[k]) + 8
      BY <1>3 DEF Byte
  <2>2. cook_digit(Lit(d.digits[k]) + 8) = Char(d.digits[k])
      BY <1>1, CookDigit
  <2> QED
      BY <1>2, <1>3, <2>1, <2>2
<1>4. CASE ~(d.point = k /\ k > 1)
  <2>1. Byte(d, k) = Lit(d.digits[k])
      BY <1>2, <1>4 DEF Byte
  <2>2. cook_digit(Lit(d.digits[k])) = Char(d.digits[k])
      BY <1>1, CookDigit
  <2> QED
      BY <1>2, <1>4, <2>1, <2>2
<1> QED
    BY <1>3, <1>4

LEMMA TextFlags ==
    ASSUME NEW raw
    PROVE  /\ Set(raw, "pt1") <=> BIT(raw[6], 3) = 1
           /\ Set(raw, "pt2") <=> BIT(raw[5], 3) = 1
           /\ Set(raw, "pt3") <=> BIT(raw[4], 3) = 1
           /\ Set(raw, "neg") <=> BIT(raw[8], 3) = 1
           /\ Set(raw, "rs232") <=> BIT(raw[8], 1) = 1
BY DEF Set, RS22812_PACKET

LEMMA UnitFlags ==
    ASSUME NEW raw
    PROVE  /\ Set(raw, "mega") <=> BIT(raw[2], 4) = 1
           /\ Set(raw, "kilo") <=> BIT(raw[2], 5) = 1
           /\ Set(raw, "milli") <=> BIT(raw[2], 0) = 1
           /\ Set(raw, "micro") <=> BIT(raw[3], 7) = 1
           /\ Set(raw, "nano") <=> BIT(raw[3], 6) = 1
           /\ Set(raw, "farads") <=> BIT(raw[2], 3) = 1
           /\ Set(raw, "amps") <=> BIT(raw[2], 2) = 1
           /\ Set(raw, "volts") <=> BIT(raw[2], 1) = 1
           /\ Set(raw, "hz") <=> BIT(raw[2], 7) = 1
           /\ Set(raw, "ohms") <=> BIT(raw[2], 6) = 1
           /\ Set(raw, "s") <=> BIT(raw[3], 4) = 1
           /\ Set(raw, "percent") <=> BIT(raw[3], 3) = 1
           /\ Set(raw, "dbm") <=> BIT(raw[3], 5) = 1
           /\ Set(raw, "hfe") <=> BIT(raw[3], 2) = 1
BY DEF Set, RS22812_PACKET

\* The flags of byte 2: a unit and a multiplier, or none.
UnitBits == {0, 2, 4, 8, 64, 128}
ScaleBits == {0, 1, 16, 32}

\* A text of one word that is not A.
OtherWord(t) == \E x : x # "A" /\ t = <<x>>

\* The bits of byte 2 and byte 8 of a display's packet.
LEMMA FlagBits ==
    ASSUME NEW u \in UnitBits, NEW m \in ScaleBits
    PROVE  /\ BIT(u + m, 4) = 1 <=> m = 16
           /\ BIT(u + m, 5) = 1 <=> m = 32
           /\ BIT(u + m, 0) = 1 <=> m = 1
           /\ BIT(u + m, 3) = 1 <=> u = 8
           /\ BIT(u + m, 2) = 1 <=> u = 4
           /\ BIT(u + m, 1) = 1 <=> u = 2
           /\ BIT(u + m, 7) = 1 <=> u = 128
           /\ BIT(u + m, 6) = 1 <=> u = 64
           /\ u + m = 4 <=> u = 4 /\ m = 0
<1>1. /\ BIT(u + m, 4) = ((u + m) \div 16) % 2 /\ BIT(u + m, 5) = ((u + m) \div 32) % 2
      /\ BIT(u + m, 0) = ((u + m) \div 1) % 2 /\ BIT(u + m, 3) = ((u + m) \div 8) % 2
      /\ BIT(u + m, 2) = ((u + m) \div 4) % 2 /\ BIT(u + m, 1) = ((u + m) \div 2) % 2
      /\ BIT(u + m, 7) = ((u + m) \div 128) % 2 /\ BIT(u + m, 6) = ((u + m) \div 64) % 2
    BY Powers2 DEF BIT
<1> QED
    BY <1>1 DEF UnitBits, ScaleBits

LEMMA ByteEight ==
    /\ BIT(2, 3) = 0 /\ BIT(10, 3) = 1 /\ BIT(2, 1) = 1 /\ BIT(10, 1) = 1
    /\ BIT(0, 7) = 0 /\ BIT(0, 6) = 0 /\ BIT(0, 5) = 0 /\ BIT(0, 4) = 0 /\ BIT(0, 3) = 0
    /\ BIT(0, 2) = 0
BY Powers2 DEF BIT

LEMMA ValueText ==
    ASSUME NEW raw, NEW d \in Display, Carries(raw, d)
    PROVE  cook_value(raw) = TextOf(d, IF d.neg THEN <<Minus>> ELSE <<>>)
<1>1. /\ raw[4] = Byte(d, 4) /\ raw[5] = Byte(d, 3) /\ raw[6] = Byte(d, 2)
      /\ raw[7] = Byte(d, 1) /\ raw[8] = 2 + (IF d.neg THEN 8 ELSE 0)
    BY BytesAre
<1>2. /\ cook_digit(raw[7]) = Char(d.digits[1]) /\ cook_digit(raw[6]) = Char(d.digits[2])
      /\ cook_digit(raw[5]) = Char(d.digits[3]) /\ cook_digit(raw[4]) = Char(d.digits[4])
    BY <1>1, ByteIs
<1>3. /\ BIT(raw[6], 3) = 1 <=> d.point = 2
      /\ BIT(raw[5], 3) = 1 <=> d.point = 3
      /\ BIT(raw[4], 3) = 1 <=> d.point = 4
  <2>1. \A k \in 1..4 : k > 1 => (BIT(Byte(d, k), 3) = 1 <=> d.point = k)
      BY ByteIs
  <2> QED
      BY <1>1, <2>1
<1>4. /\ If(raw, "pt1", Point) = PointAt(d, 2)
      /\ If(raw, "pt2", Point) = PointAt(d, 3)
      /\ If(raw, "pt3", Point) = PointAt(d, 4)
    BY <1>3, TextFlags DEF If, PointAt
<1>5. If(raw, "neg", Minus) = IF d.neg THEN <<Minus>> ELSE <<>>
  <2>1. CASE d.neg
    <3>1. BIT(raw[8], 3) = 1
        BY <1>1, <2>1, ByteEight
    <3> QED
        BY <2>1, <3>1, TextFlags DEF If
  <2>2. CASE ~d.neg
    <3>1. BIT(raw[8], 3) = 0
        BY <1>1, <2>2, ByteEight
    <3> QED
        BY <2>2, <3>1, TextFlags DEF If
  <2> QED
      BY <2>1, <2>2
<1> QED
    BY <1>2, <1>4, <1>5 DEF cook_value, TextOf

LEMMA NumberIs ==
    ASSUME NEW raw, NEW d \in Display, Carries(raw, d)
    PROVE  /\ ScanNumber(cook_value(raw)).ok
           /\ ScanNumber(cook_value(raw)).neg <=> d.neg
           /\ ScanNumber(cook_value(raw)).milli = Shown(d)
           /\ Len(ScanNumber(cook_value(raw)).rest) = 0
<1> DEFINE s == IF d.neg THEN <<Minus>> ELSE <<>>
           n == IF d.neg THEN 1 ELSE 0
<1>1. s \in Seq(Chars) /\ Len(s) = n /\ n \in {0, 1} /\ (n = 1 => s[1] = Minus)
  <2>1. Minus \in Chars
      BY DEF Chars
  <2>2. <<Minus>> \in Seq(Chars) /\ Len(<<Minus>>) = 1 /\ <<Minus>>[1] = Minus
      BY <2>1
  <2>3. <<>> \in Seq(Chars) /\ Len(<<>>) = 0
      BY EmptySeq
  <2> QED
      BY <2>2, <2>3
<1>2. n + 1 \in Nat /\ (n + 1 = 2 <=> d.neg)
    OBVIOUS
<1>3. cook_value(raw) = TextOf(d, s)
    BY ValueText
<1> HIDE DEF s, n
<1>4. TextOf(d, s) \in Seq(Chars) /\ Shows(TextOf(d, s), d, n + 1)
    BY <1>1, TextShows
<1>5. /\ ScanNumber(TextOf(d, s)).ok
      /\ ScanNumber(TextOf(d, s)).neg = (n + 1 = 2)
      /\ ScanNumber(TextOf(d, s)).milli = Shown(d)
      /\ Len(ScanNumber(TextOf(d, s)).rest) = 0
    BY <1>2, <1>4, ScanShown
<1> QED
    BY <1>2, <1>3, <1>5

\* A set of at most nine places has a least one.
LEMMA MinFound ==
    ASSUME NEW S \in SUBSET (1..9), S # {}
    PROVE  Min(S) \in S
<1>1. \E m \in S : \A y \in S : m <= y
  <2>1. \A y \in S : y = 1 \/ y = 2 \/ y = 3 \/ y = 4 \/ y = 5 \/ y = 6 \/ y = 7 \/ y = 8 \/ y = 9
      OBVIOUS
  <2>2. CASE 1 \in S
      BY <2>1, <2>2
  <2>3. CASE 1 \notin S /\ 2 \in S
      BY <2>1, <2>3
  <2>4. CASE 1 \notin S /\ 2 \notin S /\ 3 \in S
      BY <2>1, <2>4
  <2>5. CASE 1 \notin S /\ 2 \notin S /\ 3 \notin S /\ 4 \in S
      BY <2>1, <2>5
  <2>6. CASE 1 \notin S /\ 2 \notin S /\ 3 \notin S /\ 4 \notin S /\ 5 \in S
      BY <2>1, <2>6
  <2>7. CASE 1 \notin S /\ 2 \notin S /\ 3 \notin S /\ 4 \notin S /\ 5 \notin S /\ 6 \in S
      BY <2>1, <2>7
  <2>8. CASE 1 \notin S /\ 2 \notin S /\ 3 \notin S /\ 4 \notin S /\ 5 \notin S /\ 6 \notin S
             /\ 7 \in S
      BY <2>1, <2>8
  <2>9. CASE 1 \notin S /\ 2 \notin S /\ 3 \notin S /\ 4 \notin S /\ 5 \notin S /\ 6 \notin S
             /\ 7 \notin S /\ 8 \in S
      BY <2>1, <2>9
  <2>10. CASE 1 \notin S /\ 2 \notin S /\ 3 \notin S /\ 4 \notin S /\ 5 \notin S /\ 6 \notin S
              /\ 7 \notin S /\ 8 \notin S /\ 9 \in S
      BY <2>1, <2>10
  <2>11. CASE 1 \notin S /\ 2 \notin S /\ 3 \notin S /\ 4 \notin S /\ 5 \notin S /\ 6 \notin S
              /\ 7 \notin S /\ 8 \notin S /\ 9 \notin S
      BY <2>1, <2>11
  <2> QED
      BY <2>2, <2>3, <2>4, <2>5, <2>6, <2>7, <2>8, <2>9, <2>10, <2>11
<1>2. PICK m \in S : \A y \in S : m <= y
    BY <1>1
<1>3. Min(S) = m
  <2>1. S \in SUBSET Int
      OBVIOUS
  <2> QED
      BY <1>2, <2>1, MinIs
<1> QED
    BY <1>2, <1>3

\* The first of a chain whose flag is set.
LEMMA FirstIs ==
    ASSUME NEW raw, NEW chain, Len(chain) \in 1..9
    PROVE  \/ /\ FirstOf(raw, chain) = <<>>
              /\ \A j \in 1..Len(chain) : ~Set(raw, chain[j][1])
           \/ \E j \in 1..Len(chain) : Set(raw, chain[j][1]) /\ FirstOf(raw, chain) = <<chain[j][2]>>
<1> DEFINE lit == {j \in 1..Len(chain) : Set(raw, chain[j][1])}
<1>1. FirstOf(raw, chain) = IF lit = {} THEN <<>> ELSE <<chain[Min(lit)][2]>>
    BY DEF FirstOf
<1>2. lit \in SUBSET (1..9)
    OBVIOUS
<1>3. lit # {} => Min(lit) \in lit
  <2> HIDE DEF lit
  <2> QED
      BY <1>2, MinFound
<1> QED
    BY <1>1, <1>3

\* A multiplier is named exactly when one is lit, and none is called A.
LEMMA MultiplierIs ==
    ASSUME NEW raw, NEW u \in UnitBits, NEW m \in ScaleBits,
           raw[2] = u + m, raw[3] = 0
    PROVE  /\ m = 0 => multiplier(raw) = <<>>
           /\ m # 0 => OtherWord(multiplier(raw))
<1> DEFINE chain == << <<"mega", "M">>, <<"kilo", "K">>, <<"milli", "m">>,
                       <<"micro", "u">>, <<"nano", "n">> >>
<1>1. /\ Len(chain) = 5
      /\ chain[1][1] = "mega" /\ chain[2][1] = "kilo" /\ chain[3][1] = "milli"
      /\ chain[4][1] = "micro" /\ chain[5][1] = "nano"
    OBVIOUS
<1>2. \A j \in 1..5 : chain[j][2] # "A"
  <2>1. /\ chain[1][2] = "M" /\ chain[2][2] = "K" /\ chain[3][2] = "m" /\ chain[4][2] = "u"
        /\ chain[5][2] = "n"
      OBVIOUS
  <2>2. \A j \in 1..5 : j = 1 \/ j = 2 \/ j = 3 \/ j = 4 \/ j = 5
      OBVIOUS
  <2> HIDE DEF chain
  <2> QED
      BY <2>1, <2>2
<1>3. multiplier(raw) = FirstOf(raw, chain)
    BY DEF multiplier
<1> HIDE DEF chain
<1>4. /\ Set(raw, "mega") <=> m = 16
      /\ Set(raw, "kilo") <=> m = 32
      /\ Set(raw, "milli") <=> m = 1
      /\ ~Set(raw, "micro") /\ ~Set(raw, "nano")
  <2>1. /\ BIT(u + m, 4) = 1 <=> m = 16
        /\ BIT(u + m, 5) = 1 <=> m = 32
        /\ BIT(u + m, 0) = 1 <=> m = 1
      BY FlagBits
  <2> QED
      BY <2>1, UnitFlags, ByteEight
<1>5. \A j \in 1..5 : j = 1 \/ j = 2 \/ j = 3 \/ j = 4 \/ j = 5
    OBVIOUS
<1>6. \/ /\ FirstOf(raw, chain) = <<>>
         /\ \A j \in 1..5 : ~Set(raw, chain[j][1])
      \/ \E j \in 1..5 : Set(raw, chain[j][1]) /\ FirstOf(raw, chain) = <<chain[j][2]>>
    BY <1>1, FirstIs
<1>7. CASE m = 0
  <2>1. \A j \in 1..5 : ~Set(raw, chain[j][1])
      BY <1>1, <1>4, <1>5, <1>7
  <2> QED
      BY <1>3, <1>6, <1>7, <2>1
<1>8. CASE m # 0
  <2>1. m = 16 \/ m = 32 \/ m = 1
      BY <1>8 DEF ScaleBits
  <2>2. \E j \in 1..5 : Set(raw, chain[j][1])
      BY <1>1, <1>4, <2>1
  <2>3. PICK j \in 1..5 : FirstOf(raw, chain) = <<chain[j][2]>>
      BY <1>6, <2>2
  <2>4. OtherWord(multiplier(raw))
      BY <1>2, <1>3, <2>3 DEF OtherWord
  <2> QED
      BY <1>8, <2>4
<1> QED
    BY <1>7, <1>8

\* The unit is called A exactly when amps is lit.
LEMMA UnitIs ==
    ASSUME NEW raw, NEW u \in UnitBits, NEW m \in ScaleBits,
           raw[2] = u + m, raw[3] = 0
    PROVE  /\ u = 4 => unit(raw) = <<"A">>
           /\ u # 4 => unit(raw) = <<>> \/ OtherWord(unit(raw))
<1> DEFINE chain == << <<"farads", "F">>, <<"amps", "A">>, <<"volts", "V">>,
                       <<"s", "S">>, <<"percent", "%">>, <<"hz", "Hz">>, <<"dbm", "dbm">>,
                       <<"hfe", "hFE">>, <<"ohms", "Ohms">> >>
<1>1. /\ Len(chain) = 9
      /\ chain[1][1] = "farads" /\ chain[2][1] = "amps" /\ chain[3][1] = "volts"
      /\ chain[4][1] = "s" /\ chain[5][1] = "percent" /\ chain[6][1] = "hz"
      /\ chain[7][1] = "dbm" /\ chain[8][1] = "hfe" /\ chain[9][1] = "ohms"
    OBVIOUS
<1>5. \A j \in 1..9 : j = 1 \/ j = 2 \/ j = 3 \/ j = 4 \/ j = 5 \/ j = 6 \/ j = 7 \/ j = 8 \/ j = 9
    OBVIOUS
<1>2. chain[2][2] = "A" /\ \A j \in 1..9 : j # 2 => chain[j][2] # "A"
  <2>1. /\ chain[1][2] = "F" /\ chain[2][2] = "A" /\ chain[3][2] = "V" /\ chain[4][2] = "S"
        /\ chain[5][2] = "%" /\ chain[6][2] = "Hz" /\ chain[7][2] = "dbm"
        /\ chain[8][2] = "hFE" /\ chain[9][2] = "Ohms"
      OBVIOUS
  <2> HIDE DEF chain
  <2> QED
      BY <1>5, <2>1
<1>3. unit(raw) = FirstOf(raw, chain)
    BY DEF unit
<1> HIDE DEF chain
<1>4. /\ Set(raw, "farads") <=> u = 8
      /\ Set(raw, "amps") <=> u = 4
      /\ Set(raw, "volts") <=> u = 2
      /\ Set(raw, "hz") <=> u = 128
      /\ Set(raw, "ohms") <=> u = 64
      /\ ~Set(raw, "s") /\ ~Set(raw, "percent") /\ ~Set(raw, "dbm") /\ ~Set(raw, "hfe")
  <2>1. /\ BIT(u + m, 3) = 1 <=> u = 8
        /\ BIT(u + m, 2) = 1 <=> u = 4
        /\ BIT(u + m, 1) = 1 <=> u = 2
        /\ BIT(u + m, 7) = 1 <=> u = 128
        /\ BIT(u + m, 6) = 1 <=> u = 64
      BY FlagBits
  <2> QED
      BY <2>1, UnitFlags, ByteEight
<1>6. \/ /\ FirstOf(raw, chain) = <<>>
         /\ \A j \in 1..9 : ~Set(raw, chain[j][1])
      \/ \E j \in 1..9 : Set(raw, chain[j][1]) /\ FirstOf(raw, chain) = <<chain[j][2]>>
  <2>1. Len(chain) = 9
      BY <1>1
  <2>3. Len(chain) \in 1..9
      BY <1>1
  <2>2. \/ /\ FirstOf(raw, chain) = <<>>
           /\ \A j \in 1..Len(chain) : ~Set(raw, chain[j][1])
        \/ \E j \in 1..Len(chain) : Set(raw, chain[j][1]) /\ FirstOf(raw, chain) = <<chain[j][2]>>
      BY <2>3, FirstIs
  <2> QED
      BY <2>1, <2>2
<1>7. CASE u = 4
  <2>1. \A j \in 1..9 : Set(raw, chain[j][1]) => j = 2
      BY <1>1, <1>4, <1>5, <1>7
  <2>2. Set(raw, chain[2][1]) /\ 2 \in 1..9
      BY <1>1, <1>4, <1>7
  <2> QED
      BY <1>2, <1>3, <1>6, <1>7, <2>1, <2>2
<1>8. CASE u # 4
  <2>1. ~Set(raw, chain[2][1])
      BY <1>1, <1>4, <1>8
  <2>2. CASE \E j \in 1..9 : Set(raw, chain[j][1]) /\ FirstOf(raw, chain) = <<chain[j][2]>>
    <3>1. PICK j \in 1..9 : j # 2 /\ FirstOf(raw, chain) = <<chain[j][2]>>
        BY <2>1, <2>2
    <3> QED
        BY <1>2, <1>3, <1>8, <3>1 DEF OtherWord
  <2> QED
      BY <1>3, <1>6, <1>8, <2>2
<1> QED
    BY <1>7, <1>8

\* The word behind the number is A exactly when amps is lit and no multiplier.
LEMMA WordIs ==
    ASSUME NEW raw, NEW d \in Display, raw[2] = d.flags, raw[3] = 0
    PROVE  multiplier(raw) \o unit(raw) = <<"A">> <=> d.flags = 4
<1>1. PICK u \in UnitBits, m \in ScaleBits : d.flags = u + m
    BY DEF Display, UnitBits, ScaleBits
<1>2. d.flags = 4 <=> u = 4 /\ m = 0
    BY <1>1, FlagBits
<1>3. /\ m = 0 => multiplier(raw) = <<>>
      /\ m # 0 => OtherWord(multiplier(raw))
  <2>1. raw[2] = u + m /\ raw[3] = 0
      BY <1>1
  <2> QED
      BY <2>1, MultiplierIs
<1>4. /\ u = 4 => unit(raw) = <<"A">>
      /\ u # 4 => unit(raw) = <<>> \/ OtherWord(unit(raw))
  <2>1. raw[2] = u + m /\ raw[3] = 0
      BY <1>1
  <2> QED
      BY <2>1, UnitIs
<1>5. \A x : <<>> \o <<x>> = <<x>> /\ <<x>> \o <<>> = <<x>>
  <2> SUFFICES ASSUME NEW x PROVE <<>> \o <<x>> = <<x>> /\ <<x>> \o <<>> = <<x>>
      OBVIOUS
  <2>1. <<x>> \in Seq({x})
      OBVIOUS
  <2> QED
      BY <2>1, ConcatEmptySeq
<1>6. \A x, y : <<x>> \o <<y>> # <<"A">>
  <2> SUFFICES ASSUME NEW x, NEW y PROVE <<x>> \o <<y>> # <<"A">>
      OBVIOUS
  <2>1. <<x>> \in Seq({x, y}) /\ <<y>> \in Seq({x, y}) /\ Len(<<x>>) = 1 /\ Len(<<y>>) = 1
      OBVIOUS
  <2>2. Len(<<x>> \o <<y>>) = Len(<<x>>) + Len(<<y>>)
      BY <2>1, ConcatProperties
  <2>3. Len(<<x>> \o <<y>>) = 2 /\ Len(<<"A">>) = 1
      BY <2>1, <2>2
  <2> QED
      BY <2>3
<1>7. <<>> \o <<>> = <<>> /\ <<>> # <<"A">>
  <2>1. <<>> \in Seq({0})
      OBVIOUS
  <2>2. <<>> \o <<>> = <<>>
      BY <2>1, ConcatEmptySeq
  <2> QED
      BY <2>2
<1>8. \A x : <<x>> = <<"A">> => x = "A"
    OBVIOUS
<1>9. CASE m = 0 /\ u = 4
    BY <1>2, <1>3, <1>4, <1>5, <1>9
<1>10. CASE m = 0 /\ u # 4
  <2>1. multiplier(raw) = <<>>
      BY <1>3, <1>10
  <2>2. CASE unit(raw) = <<>>
      BY <1>2, <1>7, <1>10, <2>1, <2>2
  <2>3. CASE unit(raw) # <<>>
    <3>1. PICK x : x # "A" /\ unit(raw) = <<x>>
        BY <1>4, <1>10, <2>3 DEF OtherWord
    <3>2. multiplier(raw) \o unit(raw) = <<x>>
        BY <1>5, <2>1, <3>1
    <3> QED
        BY <1>2, <1>8, <1>10, <3>1, <3>2
  <2> QED
      BY <2>2, <2>3
<1>11. CASE m # 0
  <2>1. PICK x : x # "A" /\ multiplier(raw) = <<x>>
      BY <1>3, <1>11 DEF OtherWord
  <2>2. unit(raw) = <<>> \/ \E y : unit(raw) = <<y>>
      BY <1>4 DEF OtherWord
  <2>3. CASE unit(raw) = <<>>
    <3>1. multiplier(raw) \o unit(raw) = <<x>>
        BY <1>5, <2>1, <2>3
    <3> QED
        BY <1>2, <1>8, <1>11, <2>1, <3>1
  <2>4. CASE unit(raw) # <<>>
    <3>1. PICK y : unit(raw) = <<y>>
        BY <2>2, <2>4
    <3> QED
        BY <1>2, <1>6, <1>11, <2>1, <3>1
  <2> QED
      BY <2>3, <2>4
<1> QED
    BY <1>9, <1>10, <1>11

\* A whole packet decodes to what the display showed: rs_22812_parse gives its sign,
\* its number in thousandths, and amps exactly for the unit amps with no multiplier.
THEOREM ParseIs ==
    ASSUME NEW raw, NEW d \in Display, Carries(raw, d)
    PROVE  /\ rs_22812_parse(raw).neg <=> d.neg
           /\ rs_22812_parse(raw).milli = Shown(d)
           /\ rs_22812_parse(raw).amps <=> d.flags = 4
<1> DEFINE num == ScanNumber(cook_value(raw))
           word == IF \E k \in 1..Len(num.rest) : num.rest[k] # Blank THEN num.rest
                   ELSE multiplier(raw) \o unit(raw)
           ok == num.ok /\ (word # <<>> \/ indicators(raw) # <<>>)
           isA == word = <<"A">>
<1>1. rs_22812_parse(raw) = [ok |-> ok, neg |-> num.neg, milli |-> num.milli, amps |-> isA]
    BY DEF rs_22812_parse, rs_22812_packet_cook
<1>2. (num.neg <=> d.neg) /\ num.milli = Shown(d) /\ Len(num.rest) = 0
    BY NumberIs
<1>3. word = multiplier(raw) \o unit(raw)
  <2> HIDE DEF num
  <2> QED
      BY <1>2
<1>4. isA <=> d.flags = 4
  <2>1. raw[2] = d.flags /\ raw[3] = 0
      BY BytesAre
  <2>2. multiplier(raw) \o unit(raw) = <<"A">> <=> d.flags = 4
      BY <2>1, WordIs
  <2> HIDE DEF word
  <2> QED
      BY <1>3, <2>2
<1> HIDE DEF num, word, ok, isA
<1>5. rs_22812_parse(raw).neg = num.neg
    BY <1>1
<1>6. rs_22812_parse(raw).milli = num.milli
    BY <1>1
<1>7. rs_22812_parse(raw).amps = isA
    BY <1>1
<1> QED
    BY <1>2, <1>4, <1>5, <1>6, <1>7

-----------------------------------------------------------------------------
(* The Radio Shack: the bytes on the line are those of the packets sent *)

LEMMA BytePlace ==
    /\ \A n \in Nat, i \in 1..9 : ((9 * n + i) - 1) \div 9 = n /\ (((9 * n + i) - 1) % 9) + 1 = i
    /\ \A n \in Nat : \A k \in 1..(9 * n) : ((k - 1) \div 9) + 1 \in 1..n
<1>1. \A n \in Nat, i \in 1..9 : ((9 * n + i) - 1) \div 9 = n /\ (((9 * n + i) - 1) % 9) + 1 = i
    OBVIOUS
<1>2. \A n \in Nat : \A k \in 1..(9 * n) : ((k - 1) \div 9) + 1 \in 1..n
    OBVIOUS
<1> QED
    BY <1>1, <1>2

\* A packet is nine bytes.
LEMMA PacketIs ==
    ASSUME NEW d \in Display
    PROVE  Encode(d) \in Seq(Nat) /\ Len(Encode(d)) = 9
<1>1. \A k \in 1..4 : Byte(d, k) \in Nat
  <2>1. \A k \in 1..4 : Lit(d.digits[k]) \in Nat
      BY DisplayIs, PointBit
  <2> QED
      BY <2>1 DEF Byte
<1>2. d.flags \in Nat
  <2>1. PICK u \in UnitBits, m \in ScaleBits : d.flags = u + m
      BY DEF Display, UnitBits, ScaleBits
  <2> QED
      BY <2>1 DEF UnitBits, ScaleBits
<1>3. Encode(d) = <<0, d.flags, 0, Byte(d, 4), Byte(d, 3), Byte(d, 2), Byte(d, 1),
                    2 + (IF d.neg THEN 8 ELSE 0), 0>>
    BY DEF Encode, Byte
<1>4. 2 + (IF d.neg THEN 8 ELSE 0) \in Nat
    OBVIOUS
<1> QED
    BY <1>1, <1>2, <1>3, <1>4

\* A step that leaves the line, the wire and what was sent alone.
LEMMA FrameStill ==
    ASSUME FrameInv, UNCHANGED <<type, line, out, sent, taken, plugged, from, asked>>,
           buf' = buf \/ buf' = <<>>,
           pc' \in {"select", "read"} => buf' = <<>>,
           pc' \in {"parse", "returned"} => pc \in {"parse", "returned"} \/ buf' = <<>>
    PROVE  FrameInv'
<1> SUFFICES ASSUME type = "rs22812" PROVE FrameInv'
    BY DEF FrameInv
<1>1. <<>> \in Seq(Nat) /\ Len(<<>>) = 0
    BY EmptySeq
<1>2. buf' \in Seq(Nat)
    BY <1>1 DEF FrameInv
<1>3. pc' \in {"parse", "returned"} =>
         /\ from + Len(buf') <= Packet * Len(sent)
         /\ \A j \in 1..Len(buf') : buf'[j] = ByteOf(sent, from + j)
  <2>1. CASE buf' = <<>>
    <3>1. from + 0 <= Packet * Len(sent)
      <4>1. /\ from \in Nat /\ taken \in Nat /\ Len(line) \in Nat /\ Len(out) \in Nat
            /\ Len(sent) \in Nat /\ from <= taken
            /\ taken + Len(line) + Len(out) <= Packet * Len(sent)
          BY LenProperties DEF FrameInv
      <4> QED
          BY <4>1 DEF Packet
    <3> QED
        BY <1>1, <2>1, <3>1
  <2>2. CASE buf' # <<>>
      BY <2>2 DEF FrameInv
  <2> QED
      BY <2>1, <2>2
<1>4. /\ asked' = <<>> /\ sent' \in Seq(Displays)
      /\ line' \in Seq(Nat) /\ out' \in Seq(Nat)
      /\ taken' \in Nat /\ from' \in Nat
      /\ taken' + Len(line') + Len(out') <= Packet * Len(sent')
      /\ plugged' => taken' + Len(line') + Len(out') = Packet * Len(sent')
      /\ \A j \in 1..Len(line') : line'[j] = ByteOf(sent', taken' + j)
      /\ \A j \in 1..Len(out') : out'[j] = ByteOf(sent', taken' + Len(line') + j)
      /\ from' <= taken'
    BY DEF FrameInv
<1>5. pc' \in {"parse", "returned"} =>
         /\ from' + Len(buf') <= Packet * Len(sent')
         /\ \A j \in 1..Len(buf') : buf'[j] = ByteOf(sent', from' + j)
    BY <1>3
<1> QED
    BY <1>2, <1>4, <1>5 DEF FrameInv

LEMMA FrameCaller ==
    FrameInv /\ (\/ MeterRead \/ MeterCommand \/ SelectReady \/ SelectTimeout \/ ReadFails
                 \/ Return \/ RsParse)
        => FrameInv'
<1> SUFFICES ASSUME FrameInv,
                    \/ MeterRead \/ MeterCommand \/ SelectReady \/ SelectTimeout \/ ReadFails
                    \/ Return \/ RsParse
             PROVE  FrameInv'
    OBVIOUS
<1> SUFFICES ASSUME type = "rs22812" PROVE FrameInv'
    BY DEF FrameInv, MeterRead, MeterCommand, SelectReady, SelectTimeout, ReadFails, Return,
           RsParse, callVars
<1>1. \A lines : Ask(lines) => asked' = asked
    BY MetersAre DEF Ask
<1>2. /\ UNCHANGED <<type, line, out, sent, taken, plugged, from, asked>>
      /\ buf' = buf \/ buf' = <<>>
      /\ pc' \in {"select", "read"} => buf' = <<>>
      /\ pc' \in {"parse", "returned"} => pc \in {"parse", "returned"} \/ buf' = <<>>
  <2>1. CASE MeterRead
      BY <1>1, <2>1 DEF MeterRead
  <2>2. CASE MeterCommand
      BY <1>1, <2>2 DEF MeterCommand, protek_506_send
  <2>3. CASE SelectReady \/ SelectTimeout
    <3>1. pc = "select" /\ buf = <<>>
        BY <2>3 DEF FrameInv, SelectReady, SelectTimeout
    <3> QED
        BY <2>3, <3>1 DEF SelectReady, SelectTimeout, callVars, mmVars, devVars
  <2>4. CASE Return
      BY <2>4 DEF Return, callVars, mmVars, devVars
  <2>5. CASE RsParse
      BY <2>5 DEF RsParse, callVars, devVars
  <2>6. CASE ReadFails
      BY <2>6 DEF ReadFails, callVars, devVars
  <2> QED
      BY <2>1, <2>2, <2>3, <2>4, <2>5, <2>6
<1> QED
    BY <1>2, FrameStill

LEMMA FrameInit == FrameInv /\ MeterInit => FrameInv'
<1> SUFFICES ASSUME FrameInv, MeterInit, type = "rs22812" PROVE FrameInv'
    BY DEF FrameInv, MeterInit, callVars
<1>1. /\ UNCHANGED <<type, buf, out, sent, plugged, asked, from>>
      /\ pc = "init" /\ pc' \in {"exited", "idle"}
      /\ \/ UNCHANGED <<line, taken>>
         \/ line' = <<>> /\ taken' = taken + Len(line)
    BY DEF MeterInit, callVars, devVars
<1>2. /\ taken \in Nat /\ from \in Nat /\ Len(line) \in Nat /\ Len(out) \in Nat
      /\ from <= taken
    BY LenProperties DEF FrameInv
<1>3. <<>> \in Seq(Nat) /\ Len(<<>>) = 0
    BY EmptySeq
<1>4. CASE line' = <<>> /\ taken' = taken + Len(line)
  <2>1. taken' + Len(line') = taken + Len(line) /\ taken' \in Nat /\ from <= taken'
      BY <1>2, <1>3, <1>4
  <2>2. taken' + Len(line') + Len(out') = taken + Len(line) + Len(out)
      BY <1>1, <2>1
  <2>3. \A j \in 1..Len(out') : out'[j] = ByteOf(sent', taken' + Len(line') + j)
      BY <1>1, <2>1 DEF FrameInv
  <2>4. \A j \in 1..Len(line') : line'[j] = ByteOf(sent', taken' + j)
      BY <1>3, <1>4
  <2> QED
      BY <1>1, <1>3, <1>4, <2>1, <2>2, <2>3, <2>4 DEF FrameInv
<1>5. CASE UNCHANGED <<line, taken>>
    BY <1>1, <1>5 DEF FrameInv
<1> QED
    BY <1>1, <1>4, <1>5

LEMMA FrameRead == FrameInv /\ RsRead => FrameInv'
<1> SUFFICES ASSUME FrameInv, RsRead PROVE FrameInv'
    OBVIOUS
<1>1. /\ type = "rs22812" /\ UNCHANGED <<type, out, sent, plugged, asked>>
      /\ buf' = line /\ line' = <<>> /\ from' = taken /\ taken' = taken + Len(line)
      /\ pc' \in {"parse", "returned"}
    BY DEF RsRead, callVars, devVars
<1>2. /\ taken \in Nat /\ Len(line) \in Nat /\ Len(out) \in Nat /\ Len(sent) \in Nat
      /\ line \in Seq(Nat)
      /\ taken + Len(line) + Len(out) <= Packet * Len(sent)
    BY <1>1, LenProperties DEF FrameInv
<1>3. <<>> \in Seq(Nat) /\ Len(<<>>) = 0
    BY EmptySeq
<1>4. /\ taken' + Len(line') = taken + Len(line) /\ taken' \in Nat /\ from' <= taken'
      /\ from' \in Nat
    BY <1>1, <1>2, <1>3
<1>5. \A j \in 1..Len(out') : out'[j] = ByteOf(sent', taken' + Len(line') + j)
    BY <1>1, <1>4 DEF FrameInv
<1>6. taken' + Len(line') + Len(out') = taken + Len(line) + Len(out)
    BY <1>1, <1>4
<1>7. from' + Len(buf') <= Packet * Len(sent')
    BY <1>1, <1>2 DEF Packet
<1>8. \A j \in 1..Len(buf') : buf'[j] = ByteOf(sent', from' + j)
    BY <1>1 DEF FrameInv
<1>9. \A j \in 1..Len(line') : line'[j] = ByteOf(sent', taken' + j)
    BY <1>1, <1>3
<1> QED
    BY <1>1, <1>2, <1>3, <1>4, <1>5, <1>6, <1>7, <1>8, <1>9 DEF FrameInv

\* What was sent before stays where it was, and the new packet follows it.
LEMMA PacketAdded ==
    ASSUME sent \in Seq(Displays), NEW d \in Displays
    PROVE  /\ Append(sent, d) \in Seq(Displays) /\ Len(Append(sent, d)) = Len(sent) + 1
           /\ \A k \in 1..(9 * Len(sent)) : ByteOf(Append(sent, d), k) = ByteOf(sent, k)
           /\ \A i \in 1..9 : ByteOf(Append(sent, d), 9 * Len(sent) + i) = Encode(d)[i]
<1>1. /\ Append(sent, d) \in Seq(Displays) /\ Len(Append(sent, d)) = Len(sent) + 1
      /\ Len(sent) \in Nat
      /\ \A k \in 1..Len(sent) : Append(sent, d)[k] = sent[k]
      /\ Append(sent, d)[Len(sent) + 1] = d
    BY AppendProperties, LenProperties
<1>2. ASSUME NEW k \in 1..(9 * Len(sent))
      PROVE  ByteOf(Append(sent, d), k) = ByteOf(sent, k)
  <2>1. (k - 1) \div 9 + 1 \in 1..Len(sent)
      BY <1>1, BytePlace
  <2> DEFINE p == (k - 1) \div 9 + 1
  <2>2. Append(sent, d)[p] = sent[p]
      BY <1>1, <2>1
  <2> HIDE DEF p
  <2> QED
      BY <2>2 DEF ByteOf, Packet, p
<1>3. ASSUME NEW i \in 1..9
      PROVE  ByteOf(Append(sent, d), 9 * Len(sent) + i) = Encode(d)[i]
  <2>1. /\ ((9 * Len(sent) + i) - 1) \div 9 = Len(sent)
        /\ (((9 * Len(sent) + i) - 1) % 9) + 1 = i
      BY <1>1, BytePlace
  <2> QED
      BY <1>1, <2>1 DEF ByteOf, Packet
<1> QED
    BY <1>1, <1>2, <1>3

LEMMA FrameSend == ASSUME FrameInv, NEW d \in Displays, SendPacket(d) PROVE FrameInv'
<1>1. /\ type = "rs22812" /\ plugged
      /\ out' = out \o Encode(d) /\ sent' = Append(sent, d)
      /\ UNCHANGED <<type, pc, buf, asked, line, plugged, taken, from>>
    BY DEF SendPacket, callVars
<1>2. /\ asked = <<>> /\ sent \in Seq(Displays)
      /\ buf \in Seq(Nat) /\ line \in Seq(Nat) /\ out \in Seq(Nat)
      /\ taken \in Nat /\ from \in Nat /\ from <= taken
      /\ pc \in {"select", "read"} => buf = <<>>
    BY <1>1 DEF FrameInv
<1>3. /\ taken + Len(line) + Len(out) = 9 * Len(sent)
      /\ Len(line) \in Nat /\ Len(out) \in Nat /\ Len(sent) \in Nat /\ Len(buf) \in Nat
    BY <1>1, <1>2, LenProperties DEF FrameInv, Packet
<1>4. Encode(d) \in Seq(Nat) /\ Len(Encode(d)) = 9
    BY PacketIs, SerialAssumption DEF SerialAssumption
<1>5. /\ sent' \in Seq(Displays) /\ Len(sent') = Len(sent) + 1
      /\ \A k \in 1..(9 * Len(sent)) : ByteOf(sent', k) = ByteOf(sent, k)
      /\ \A i \in 1..9 : ByteOf(sent', 9 * Len(sent) + i) = Encode(d)[i]
    BY <1>1, <1>2, PacketAdded
<1>6. /\ out' \in Seq(Nat) /\ Len(out') = Len(out) + 9
      /\ \A j \in 1..Len(out) : out'[j] = out[j]
      /\ \A i \in 1..9 : out'[Len(out) + i] = Encode(d)[i]
  <2>1. /\ out \o Encode(d) \in Seq(Nat) /\ Len(out \o Encode(d)) = Len(out) + Len(Encode(d))
        /\ \A k \in 1..Len(out) + Len(Encode(d)) :
              (out \o Encode(d))[k] = IF k <= Len(out) THEN out[k] ELSE Encode(d)[k - Len(out)]
      BY <1>2, <1>4, ConcatProperties
  <2>2. \A j \in 1..Len(out) : (out \o Encode(d))[j] = out[j]
    <3>1. \A j \in 1..Len(out) : j \in 1..Len(out) + Len(Encode(d)) /\ j <= Len(out)
        BY <1>3, <1>4
    <3> QED
        BY <2>1, <3>1
  <2>3. \A i \in 1..9 : (out \o Encode(d))[Len(out) + i] = Encode(d)[i]
    <3>1. \A i \in 1..9 : /\ Len(out) + i \in 1..Len(out) + Len(Encode(d))
                          /\ ~(Len(out) + i <= Len(out)) /\ (Len(out) + i) - Len(out) = i
        BY <1>3, <1>4
    <3> QED
        BY <2>1, <3>1
  <2> QED
      BY <1>1, <1>4, <2>1, <2>2, <2>3
<1>7. \A j \in 1..Len(line') : line'[j] = ByteOf(sent', taken' + j)
  <2>1. \A j \in 1..Len(line) : taken + j \in 1..(9 * Len(sent)) /\ line[j] = ByteOf(sent, taken + j)
    <3>1. \A j \in 1..Len(line) : taken + j \in 1..(9 * Len(sent))
        BY <1>2, <1>3
    <3> QED
        BY <1>1, <3>1 DEF FrameInv
  <2> QED
      BY <1>1, <1>5, <2>1
<1>8. \A j \in 1..Len(out') : out'[j] = ByteOf(sent', taken' + Len(line') + j)
  <2> SUFFICES ASSUME NEW j \in 1..(Len(out) + 9)
               PROVE  out'[j] = ByteOf(sent', taken + Len(line) + j)
      BY <1>1, <1>6
  <2>1. CASE j \in 1..Len(out)
    <3>1. taken + Len(line) + j \in 1..(9 * Len(sent))
        BY <1>2, <1>3, <2>1
    <3>2. out[j] = ByteOf(sent, taken + Len(line) + j)
        BY <1>1, <2>1 DEF FrameInv
    <3> QED
        BY <1>5, <1>6, <2>1, <3>1, <3>2
  <2>2. CASE j \notin 1..Len(out)
    <3>1. PICK i \in 1..9 : j = Len(out) + i
      <4>1. j - Len(out) \in 1..9 /\ j = Len(out) + (j - Len(out))
          BY <1>3, <2>2
      <4> QED
          BY <4>1
    <3>2. taken + Len(line) + j = 9 * Len(sent) + i
        BY <1>2, <1>3, <3>1
    <3> QED
        BY <1>5, <1>6, <3>1, <3>2
  <2> QED
      BY <2>1, <2>2
<1>9. pc \in {"parse", "returned"} =>
         /\ from' + Len(buf') <= Packet * Len(sent')
         /\ \A j \in 1..Len(buf') : buf'[j] = ByteOf(sent', from' + j)
  <2> SUFFICES ASSUME pc \in {"parse", "returned"}
               PROVE  /\ from + Len(buf) <= 9 * (Len(sent) + 1)
                      /\ \A j \in 1..Len(buf) : buf[j] = ByteOf(sent', from + j)
      BY <1>1, <1>5 DEF Packet
  <2>1. from + Len(buf) <= 9 * Len(sent)
      BY <1>1 DEF FrameInv, Packet
  <2>2. \A j \in 1..Len(buf) : from + j \in 1..(9 * Len(sent))
      BY <1>2, <1>3, <2>1
  <2>3. \A j \in 1..Len(buf) : buf[j] = ByteOf(sent, from + j)
      BY <1>1 DEF FrameInv
  <2>4. from + Len(buf) <= 9 * (Len(sent) + 1)
      BY <1>2, <1>3, <2>1
  <2> QED
      BY <1>5, <2>2, <2>3, <2>4
<1>10. /\ taken' + Len(line') + Len(out') = Packet * Len(sent')
       /\ taken' + Len(line') + Len(out') <= Packet * Len(sent')
  <2>1. /\ taken + Len(line) + (Len(out) + 9) = 9 * (Len(sent) + 1)
        /\ taken + Len(line) + (Len(out) + 9) <= 9 * (Len(sent) + 1)
      BY <1>2, <1>3
  <2>2. taken' = taken /\ Len(line') = Len(line)
      BY <1>1
  <2>3. Len(out') = Len(out) + 9 /\ Len(sent') = Len(sent) + 1
      BY <1>5, <1>6
  <2> QED
      BY <2>1, <2>2, <2>3 DEF Packet
<1> QED
    BY <1>1, <1>2, <1>5, <1>6, <1>7, <1>8, <1>9, <1>10 DEF FrameInv

LEMMA FrameArrive == FrameInv /\ Arrive => FrameInv'
<1> SUFFICES ASSUME FrameInv, Arrive, type = "rs22812" PROVE FrameInv'
    BY DEF FrameInv, Arrive, callVars
<1>1. PICK n \in Nat : /\ n <= Len(out)
                       /\ line' = line \o SubSeq(out, 1, n)
                       /\ out' = SubSeq(out, n + 1, Len(out))
    BY SerialAssumption DEF SerialAssumption, Arrive, Packet
<1>2. UNCHANGED <<type, pc, buf, asked, plugged, sent, taken, from>>
    BY DEF Arrive, callVars
<1>3. /\ line \in Seq(Nat) /\ out \in Seq(Nat) /\ taken \in Nat
      /\ \A j \in 1..Len(line) : line[j] = ByteOf(sent, taken + j)
      /\ \A j \in 1..Len(out) : out[j] = ByteOf(sent, taken + Len(line) + j)
    BY DEF FrameInv
<1>4. /\ line' \in Seq(Nat) /\ out' \in Seq(Nat)
      /\ Len(line) \in Nat /\ Len(out) \in Nat
      /\ Len(line') = Len(line) + n /\ Len(out') = Len(out) - n
      /\ \A k \in 1..Len(line) : line'[k] = line[k]
      /\ \A k \in 1..n : line'[Len(line) + k] = out[k]
      /\ \A k \in 1..(Len(out) - n) : out'[k] = out[n + k]
  <2>1. /\ line \o SubSeq(out, 1, n) \in Seq(Nat) /\ SubSeq(out, n + 1, Len(out)) \in Seq(Nat)
        /\ Len(line) \in Nat /\ Len(out) \in Nat
        /\ Len(line \o SubSeq(out, 1, n)) = Len(line) + n
        /\ Len(SubSeq(out, n + 1, Len(out))) = Len(out) - n
        /\ \A k \in 1..Len(line) : (line \o SubSeq(out, 1, n))[k] = line[k]
        /\ \A k \in 1..n : (line \o SubSeq(out, 1, n))[Len(line) + k] = out[k]
        /\ \A k \in 1..(Len(out) - n) : SubSeq(out, n + 1, Len(out))[k] = out[n + k]
    <3> DEFINE N == Nat
    <3>1. n \in Nat /\ n <= Len(out) /\ line \in Seq(N) /\ out \in Seq(N)
        BY <1>1, <1>3
    <3>2. N = Nat
        OBVIOUS
    <3> HIDE DEF N
    <3>3. /\ line \o SubSeq(out, 1, n) \in Seq(N) /\ SubSeq(out, n + 1, Len(out)) \in Seq(N)
          /\ Len(line) \in Nat /\ Len(out) \in Nat
          /\ Len(line \o SubSeq(out, 1, n)) = Len(line) + n
          /\ Len(SubSeq(out, n + 1, Len(out))) = Len(out) - n
          /\ \A k \in 1..Len(line) : (line \o SubSeq(out, 1, n))[k] = line[k]
          /\ \A k \in 1..n : (line \o SubSeq(out, 1, n))[Len(line) + k] = out[k]
          /\ \A k \in 1..(Len(out) - n) : SubSeq(out, n + 1, Len(out))[k] = out[n + k]
        BY <3>1, Moved
    <3> QED
        BY <3>2, <3>3
  <2> QED
      BY <1>1, <2>1
<1>5. \A j \in 1..Len(line') : line'[j] = ByteOf(sent, taken + j)
  <2> SUFFICES ASSUME NEW j \in 1..(Len(line) + n)
               PROVE  line'[j] = ByteOf(sent, taken + j)
      BY <1>4
  <2>1. CASE j \in 1..Len(line)
      BY <1>3, <1>4, <2>1
  <2>2. CASE j \notin 1..Len(line)
    <3>1. PICK i \in 1..n : j = Len(line) + i
      <4>1. j - Len(line) \in 1..n /\ j = Len(line) + (j - Len(line))
          BY <1>4, <2>2
      <4> QED
          BY <4>1
    <3>2. taken + j = taken + Len(line) + i /\ i \in 1..Len(out)
        BY <1>1, <1>3, <1>4, <3>1
    <3> QED
        BY <1>3, <1>4, <3>1, <3>2
  <2> QED
      BY <2>1, <2>2
<1>6. \A j \in 1..Len(out') : out'[j] = ByteOf(sent, taken + Len(line') + j)
  <2> SUFFICES ASSUME NEW j \in 1..(Len(out) - n)
               PROVE  out'[j] = ByteOf(sent, taken + Len(line') + j)
      BY <1>4
  <2>1. n + j \in 1..Len(out) /\ taken + Len(line) + (n + j) = taken + Len(line') + j
    <3>1. Len(line') = Len(line) + n /\ Len(line) \in Nat /\ Len(out) \in Nat
        BY <1>4
    <3>2. taken \in Nat
        BY <1>3
    <3>3. taken + Len(line) + (n + j) = taken + Len(line') + j
        BY <3>1, <3>2
    <3>4. n + j \in 1..Len(out)
        BY <3>1
    <3> QED
        BY <3>3, <3>4
  <2>2. out'[j] = out[n + j]
      BY <1>4
  <2> QED
      BY <1>3, <2>1, <2>2
<1>7. taken + Len(line') + Len(out') = taken + Len(line) + Len(out)
  <2>1. /\ Len(line') = Len(line) + n /\ Len(out') = Len(out) - n
        /\ Len(line) \in Nat /\ Len(out) \in Nat
      BY <1>4
  <2>2. taken \in Nat
      BY <1>3
  <2> QED
      BY <2>1, <2>2
<1> QED
    BY <1>2, <1>4, <1>5, <1>6, <1>7 DEF FrameInv

LEMMA FrameUnplug == FrameInv /\ Unplug => FrameInv'
<1> SUFFICES ASSUME FrameInv, Unplug, type = "rs22812" PROVE FrameInv'
    BY DEF FrameInv, Unplug, callVars
<1>1. /\ UNCHANGED <<type, pc, buf, line, sent, taken, from>>
      /\ plugged' = FALSE /\ asked' = <<>> /\ out' = <<>>
    BY DEF Unplug, callVars
<1>2. <<>> \in Seq(Nat) /\ Len(<<>>) = 0
    BY EmptySeq
<1>3. taken' + Len(line') + Len(out') <= Packet * Len(sent')
  <2>1. /\ taken \in Nat /\ Len(line) \in Nat /\ Len(out) \in Nat /\ Len(sent) \in Nat
        /\ taken + Len(line) + Len(out) <= Packet * Len(sent)
      BY LenProperties DEF FrameInv
  <2> QED
      BY <1>1, <1>2, <2>1 DEF Packet
<1>4. \A j \in 1..Len(out') : out'[j] = ByteOf(sent', taken' + Len(line') + j)
    BY <1>1, <1>2
<1> QED
    BY <1>1, <1>2, <1>3, <1>4 DEF FrameInv

\* The other meters' actions, and those that change nothing.
LEMMA FrameOther ==
    ASSUME FrameInv,
           \/ \E n \in 1..Len(line) : FlukeRead(n) \/ WattsRead(n)
           \/ FlukeEof \/ FlukeParse \/ ProtekRead \/ ProtekReadEarly \/ ProtekParse
           \/ WattsParse \/ Answer
           \/ \E kind \in {"data", "other"} : SendRecord(kind)
           \/ Spin \/ Quiet \/ UNCHANGED vars
    PROVE  FrameInv'
<1>1. CASE \E n \in 1..Len(line) : FlukeRead(n) \/ WattsRead(n)
    BY <1>1 DEF FrameInv, FlukeRead, WattsRead, callVars
<1>2. CASE \/ FlukeEof \/ FlukeParse \/ ProtekRead \/ ProtekReadEarly \/ ProtekParse
           \/ WattsParse
    BY <1>2 DEF FrameInv, FlukeEof, FlukeParse, ProtekRead, ProtekReadEarly, ProtekParse,
       WattsParse, callVars
<1>3. CASE Answer
    BY <1>3 DEF FrameInv, Answer, callVars
<1>4. CASE \E kind \in {"data", "other"} : SendRecord(kind)
    BY <1>4 DEF FrameInv, SendRecord, callVars
<1>5. CASE Spin \/ Quiet \/ UNCHANGED vars
  <2>1. UNCHANGED <<type, pc, buf, asked, line, out, plugged, sent, taken, from>>
      BY <1>5 DEF Spin, Quiet, vars, callVars, devVars
  <2> QED
      BY <2>1 DEF FrameInv
<1> QED
    BY <1>1, <1>2, <1>3, <1>4, <1>5

LEMMA FrameInitially == Init => FrameInv
<1> SUFFICES ASSUME Init, type = "rs22812" PROVE FrameInv
    BY DEF FrameInv
<1>1. <<>> \in Seq(Nat) /\ Len(<<>>) = 0 /\ <<>> \in Seq(Displays)
    BY EmptySeq
<1>2. /\ asked = <<>> /\ sent = <<>> /\ buf = <<>> /\ line = <<>> /\ out = <<>>
      /\ taken = 0 /\ from = 0 /\ pc = "init"
    BY DEF Init
<1> QED
    BY <1>1, <1>2 DEF FrameInv, Packet

\* What the buffer, the line and the wire of the Radio Shack hold is what it
\* sent, byte for byte and in order, however its packets were cut up on the way;
\* nothing is lost while it is plugged in (rs_22812_read, and meter_init's flush).
THEOREM FrameSafety == Spec => []FrameInv
<1>1. FrameInv /\ [Next]_vars => FrameInv'
  <2> SUFFICES ASSUME FrameInv, [Next]_vars PROVE FrameInv'
      OBVIOUS
  <2>1. CASE \E d \in Displays : SendPacket(d)
      BY <2>1, FrameSend
  <2>2. CASE \/ MeterInit \/ MeterRead \/ MeterCommand \/ SelectTimeout \/ ReadFails
             \/ SelectReady \/ Return \/ RsParse \/ RsRead \/ Arrive \/ Unplug
      BY <2>2, FrameInit, FrameCaller, FrameRead, FrameArrive, FrameUnplug
  <2>3. CASE \/ \E n \in 1..Len(line) : FlukeRead(n) \/ WattsRead(n)
             \/ FlukeEof \/ FlukeParse \/ ProtekRead \/ ProtekReadEarly \/ ProtekParse
             \/ WattsParse \/ Answer
             \/ \E kind \in {"data", "other"} : SendRecord(kind)
             \/ Spin \/ Quiet \/ UNCHANGED vars
      BY <2>3, FrameOther
  <2> QED
      BY <2>1, <2>2, <2>3 DEF Next, Caller, Collect, Finish, Device, Reply
<1> QED
    BY FrameInitially, <1>1, PTL DEF Spec

\* The packet that begins where a whole buffer does is the display after the
\* packets before it.
LEMMA Whole ==
    ASSUME FrameInv, type = "rs22812", pc \in {"parse", "returned"},
           Len(buf) >= Packet, from % Packet = 0
    PROVE  /\ from \div Packet + 1 \in 1..Len(sent)
           /\ Carries(buf, sent[from \div Packet + 1])
<1> DEFINE n == from \div Packet
<1>1. /\ from \in Nat /\ Len(buf) \in Nat /\ Len(sent) \in Nat
      /\ from + Len(buf) <= 9 * Len(sent)
      /\ \A j \in 1..Len(buf) : buf[j] = ByteOf(sent, from + j)
    BY LenProperties DEF FrameInv, Packet
<1>2. n \in Nat /\ from = 9 * n
    BY <1>1 DEF Packet
<1> HIDE DEF n
<1>3. n + 1 \in 1..Len(sent)
    BY <1>1, <1>2 DEF Packet
<1>4. ASSUME NEW j \in 1..9 PROVE buf[j] = Encode(sent[n + 1])[j]
  <2>1. buf[j] = ByteOf(sent, 9 * n + j)
    <3>1. j \in 1..Len(buf)
        BY <1>1 DEF Packet
    <3> QED
        BY <1>1, <1>2, <3>1
  <2>2. ((9 * n + j) - 1) \div 9 = n /\ (((9 * n + j) - 1) % 9) + 1 = j
      BY <1>2, BytePlace
  <2> QED
      BY <2>1, <2>2 DEF ByteOf, Packet
<1> QED
    BY <1>3, <1>4 DEF Carries, n

LEMMA RsParseShows == FrameInv /\ RsParse => ReadsDisplay'
<1> SUFFICES ASSUME FrameInv, RsParse,
                    rc' = 0, mode = "read", Len(buf) >= Packet, from % Packet = 0
             PROVE  LET d == sent[from \div Packet + 1] IN
                    /\ value' = Reading(d)
                    /\ amps' <=> d.flags = 4
    BY DEF RsParse, ReadsDisplay, callVars, devVars
<1> DEFINE d == sent[from \div Packet + 1]
<1>1. type = "rs22812" /\ pc = "parse" /\ ~(Len(buf) < Packet)
  <2>1. Len(buf) \in Nat
      BY LenProperties DEF FrameInv, RsParse
  <2> QED
      BY <2>1 DEF RsParse, Packet
<1>2. /\ from \div Packet + 1 \in 1..Len(sent)
      /\ Carries(buf, d)
    BY <1>1, Whole
<1>3. d \in Display
  <2>1. sent \in Seq(Displays)
      BY <1>1 DEF FrameInv
  <2>2. d \in Displays
      BY <1>2, <2>1, ElementOfSeq
  <2> QED
      BY <2>2, SerialAssumption DEF SerialAssumption
<1> HIDE DEF d
<1> DEFINE r == rs_22812_parse(buf)
<1>4. /\ r.neg <=> d.neg
      /\ r.milli = Shown(d)
      /\ r.amps <=> d.flags = 4
    BY <1>2, <1>3, ParseIs
<1>5. amps' = r.amps /\ value' = (IF r.neg THEN 0 - r.milli ELSE r.milli)
    BY <1>1 DEF RsParse
<1> HIDE DEF r
<1>6. value' = Reading(d)
    BY <1>4, <1>5 DEF Reading
<1>7. amps' <=> d.flags = 4
    BY <1>4, <1>5
<1> QED
    BY <1>6, <1>7 DEF d

\* A step of the caller that returns without a reading, or leaves the place.
LEMMA CallerShows ==
    FrameInv /\ (Caller \/ Collect \/ FlukeParse \/ ProtekParse \/ WattsParse \/ Return)
        => ReadsDisplay'
<1> SUFFICES ASSUME FrameInv,
                    Caller \/ Collect \/ FlukeParse \/ ProtekParse \/ WattsParse \/ Return,
                    pc' = "returned", rc' = 0, type' = "rs22812", Len(buf') >= Packet
             PROVE  FALSE
    BY DEF ReadsDisplay
<1>1. CASE Caller
    BY <1>1 DEF Caller, MeterInit, MeterRead, MeterCommand, SelectTimeout, ReadFails,
       protek_506_send
<1>2. CASE Collect
  <2>1. CASE RsRead
    <3>1. buf' = <<>> /\ Len(<<>>) = 0
        BY <2>1, EmptySeq DEF RsRead
    <3> QED
        BY <3>1 DEF Packet
  <2> QED
      BY <1>2, <2>1
      DEF Collect, SelectReady, FlukeRead, WattsRead, FlukeEof, ProtekRead, ProtekReadEarly,
          callVars
<1>3. CASE FlukeParse \/ ProtekParse \/ WattsParse \/ Return
    BY <1>3 DEF FlukeParse, ProtekParse, WattsParse, Return, callVars
<1> QED
    BY <1>1, <1>2, <1>3

\* A step of the device, or none, leaves a reading that was returned and the
\* display that it is of.
LEMMA DeviceShows ==
    FrameInv /\ ReadsDisplay /\ (Device \/ Spin \/ Quiet \/ UNCHANGED vars) => ReadsDisplay'
<1> SUFFICES ASSUME FrameInv, ReadsDisplay, Device \/ Spin \/ Quiet \/ UNCHANGED vars,
                    pc' = "returned", rc' = 0, mode' = "read", type' = "rs22812",
                    Len(buf') >= Packet, from' % Packet = 0
             PROVE  LET d == sent'[from' \div Packet + 1] IN
                    /\ value' = Reading(d)
                    /\ amps' <=> d.flags = 4
    BY DEF ReadsDisplay
<1>1. UNCHANGED <<type, pc, mode, buf, value, amps, rc, from>>
    BY DEF Device, Reply, Answer, SendRecord, SendPacket, Arrive, Unplug, Spin, Quiet, vars,
           callVars, mmVars
<1>2. from \div Packet + 1 \in 1..Len(sent)
    BY <1>1, Whole
<1>3. sent'[from \div Packet + 1] = sent[from \div Packet + 1]
  <2>1. CASE \E d \in Displays : SendPacket(d)
    <3>1. PICK d \in Displays : sent' = Append(sent, d)
        BY <2>1 DEF SendPacket
    <3>2. sent \in Seq(Displays)
        BY <1>1 DEF FrameInv
    <3>3. \A k \in 1..Len(sent) : Append(sent, d)[k] = sent[k]
        BY <3>2, AppendProperties
    <3> QED
        BY <1>2, <3>1, <3>3
  <2>2. CASE ~\E d \in Displays : SendPacket(d)
    <3>1. sent' = sent
        BY <1>1, <2>2 DEF Device, Reply, Answer, SendRecord, Arrive, Unplug, Spin, Quiet, vars,
                          devVars
    <3> QED
        BY <3>1
  <2> QED
      BY <2>1, <2>2
<1> DEFINE d == sent[from \div Packet + 1]
<1>4. /\ value = Reading(d)
      /\ amps <=> d.flags = 4
    BY <1>1 DEF ReadsDisplay
<1> HIDE DEF d
<1>5. sent'[from' \div Packet + 1] = d
    BY <1>1, <1>3 DEF d
<1> QED
    BY <1>1, <1>4, <1>5

\* A reading of the Radio Shack that began at the first byte of a packet is the
\* number that the display showed, sign and point included, and amps exactly when
\* it showed amps without a multiplier (rs_22812_read, rs_22812_parse).
THEOREM ReadsDisplayHolds == Spec => []ReadsDisplay
<1>1. Init => ReadsDisplay
    BY DEF Init, ReadsDisplay
<1>2. FrameInv /\ ReadsDisplay /\ [Next]_vars => ReadsDisplay'
  <2> SUFFICES ASSUME FrameInv, ReadsDisplay, [Next]_vars PROVE ReadsDisplay'
      OBVIOUS
  <2>1. CASE Caller \/ Collect \/ Finish
      BY <2>1, CallerShows, RsParseShows DEF Finish
  <2>2. CASE Device \/ Spin \/ Quiet \/ UNCHANGED vars
      BY <2>2, DeviceShows
  <2> QED
      BY <2>1, <2>2 DEF Next
<1> QED
    BY FrameSafety, <1>1, <1>2, PTL DEF Spec
=============================================================================
