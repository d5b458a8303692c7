------------------------------ MODULE Rs22812 ------------------------------
(***************************************************************************)
(* The nine-byte packet of the Radio Shack 22-812 and what                 *)
(* mapi/rs_22812.c makes of it: packet_cook takes the bits apart,          *)
(* cook_digit looks each digit's segments up, cook_output puts the text    *)
(* together and rs_22812_parse scans it for a value and a unit.  A text is *)
(* a sequence of one-character strings; a unit is one word.                *)
(***************************************************************************)
EXTENDS Naturals, Sequences, SequencesExt

\* BIT0 .. BIT7
BIT(x, k) == (x \div 2^k) % 2

\* The characters of a number that are no digits.
Blank == " "
Minus == "-"
Point == "."

segtab ==
    << <<0, Blank>>, <<32, Minus>>, <<215, "0">>, <<80, "1">>, <<181, "2">>,
       <<241, "3">>, <<114, "4">>, <<227, "5">>, <<231, "6">>, <<81, "7">>,
       <<247, "8">>, <<243, "9">>, <<135, "C">>, <<167, "E">>, <<39, "F">>,
       <<102, "h">>, <<100, "n">>, <<55, "P">>, <<36, "r">>, <<166, "t">> >>

\* Mutant: the decimal point is taken for a segment.
cook_digit_point(b) ==
    IF \E i \in 1..Len(segtab) : segtab[i][1] = b
    THEN segtab[CHOOSE i \in 1..Len(segtab) : segtab[i][1] = b][2]
    ELSE "?"

\* The segments are every bit but bit 3, the decimal point.
cook_digit(b) ==
    LET seg == b - 8 * BIT(b, 3) IN
    IF \E i \in 1..Len(segtab) : segtab[i][1] = seg
    THEN segtab[CHOOSE i \in 1..Len(segtab) : segtab[i][1] = seg][2]
    ELSE "?"

\* Where a flag of the decoded packet is: its byte and its bit.  The point bit
\* of digit 1 is really max.
RS22812_PACKET ==
    [hz |-> <<2, 7>>, ohms |-> <<2, 6>>, kilo |-> <<2, 5>>, mega |-> <<2, 4>>,
     farads |-> <<2, 3>>, amps |-> <<2, 2>>, volts |-> <<2, 1>>, milli |-> <<2, 0>>,
     micro |-> <<3, 7>>, nano |-> <<3, 6>>, dbm |-> <<3, 5>>, s |-> <<3, 4>>,
     percent |-> <<3, 3>>, hfe |-> <<3, 2>>, rel |-> <<3, 1>>, min |-> <<3, 0>>,
     pt3 |-> <<4, 3>>, pt2 |-> <<5, 3>>, pt1 |-> <<6, 3>>, max |-> <<7, 3>>,
     beep |-> <<8, 7>>, diode |-> <<8, 6>>, bat |-> <<8, 5>>, hold |-> <<8, 4>>,
     neg |-> <<8, 3>>, ac |-> <<8, 2>>, rs232 |-> <<8, 1>>, _auto |-> <<8, 0>>]

Set(raw, flag) ==
    LET at == RS22812_PACKET[flag] IN BIT(raw[at[1]], at[2]) = 1

If(raw, flag, text) == IF Set(raw, flag) THEN <<text>> ELSE <<>>

\* An if .. else if chain: the text of the first flag that is set.
FirstOf(raw, chain) ==
    LET lit == {j \in 1..Len(chain) : Set(raw, chain[j][1])} IN
    IF lit = {} THEN <<>> ELSE <<chain[Min(lit)][2]>>

\* cook_value and the first half of cook_output: digit 1 is in byte 7, and the
\* point bit of a digit stands before it.
cook_value(raw) ==
    If(raw, "neg", Minus)
    \o <<cook_digit(raw[7])>>
    \o If(raw, "pt1", Point) \o <<cook_digit(raw[6])>>
    \o If(raw, "pt2", Point) \o <<cook_digit(raw[5])>>
    \o If(raw, "pt3", Point) \o <<cook_digit(raw[4])>>

multiplier(raw) == FirstOf(raw, << <<"mega", "M">>, <<"kilo", "K">>,
    <<"milli", "m">>, <<"micro", "u">>, <<"nano", "n">> >>)

unit(raw) == FirstOf(raw, << <<"farads", "F">>, <<"amps", "A">>, <<"volts", "V">>,
    <<"s", "S">>, <<"percent", "%">>, <<"hz", "Hz">>, <<"dbm", "dbm">>,
    <<"hfe", "hFE">>, <<"ohms", "Ohms">> >>)

\* AC, Rel, Min or Max, and the indicators of byte 8.
indicators(raw) ==
    If(raw, "ac", " AC") \o If(raw, "rel", " Rel")
    \o FirstOf(raw, << <<"min", " Min">>, <<"max", " Max">> >>)
    \o If(raw, "beep", " Continuity") \o If(raw, "_auto", " Auto Range")
    \o If(raw, "hold", " Hold") \o If(raw, "diode", " Diode")
    \o If(raw, "rs232", " RS232")

Digits == {"0", "1", "2", "3", "4", "5", "6", "7", "8", "9"}
DigitOf == [d \in Digits |-> CHOOSE n \in 0..9 : segtab[n + 3][2] = d]

\* The number that the digits of text from place b up to stop make, a point
\* left out.
Mantissa(text, b, stop) ==
    LET mant[k \in b-1..stop-1] ==
            IF k = b - 1 THEN 0
            ELSE IF text[k] = Point THEN mant[k - 1] ELSE 10 * mant[k - 1] + DigitOf[text[k]]
    IN  mant[stop - 1]

\* sscanf's %f on a number text, in thousandths: blanks, a sign, digits and at
\* most one point, up to the first other character.
ScanNumber(text) ==
    LET n == Len(text)
        start == Min({j \in 1..n : text[j] # Blank} \cup {n + 1})
        neg == start <= n /\ text[start] = Minus
        b == IF neg THEN start + 1 ELSE start
        stop == Min({n + 1} \cup
                    {j \in b..n : \/ text[j] \notin Digits \cup {Point}
                                  \/ text[j] = Point /\ \E i \in b..j-1 : text[i] = Point})
        dec == (stop - 1) - Min({k \in b..stop-1 : text[k] = Point} \cup {stop - 1})
    IN  [ok |-> \E k \in b..stop-1 : text[k] # Point, neg |-> neg,
         milli |-> Mantissa(text, b, stop) * 10^(3 - dec),
         rest |-> SubSeq(text, stop, n)]

\* rs_22812_packet_cook: what the nine bytes become.  The checksum is not looked
\* at, and neither are the mode and the battery bit.
rs_22812_packet_cook(raw) ==
    [value |-> cook_value(raw), scale |-> multiplier(raw), unit |-> unit(raw),
     others |-> indicators(raw)]

\* rs_22812_parse: a value and a word must follow each other; the unit is amps
\* when the word is exactly A, which no digit shows.
rs_22812_parse(raw) ==
    LET packet == rs_22812_packet_cook(raw)
        num == ScanNumber(packet.value)
        word == IF \E k \in 1..Len(num.rest) : num.rest[k] # Blank THEN num.rest
                ELSE packet.scale \o packet.unit
    IN  [ok |-> num.ok /\ (word # <<>> \/ packet.others # <<>>),
         neg |-> num.neg, milli |-> num.milli, amps |-> word = <<"A">>]

-----------------------------------------------------------------------------
(* The meter, for reference: what its display shows and sends. *)

\* The segments that are lit for the digits from 0 on, by their letters in
\* rs_22812.h.
Glyph ==
    << {"a", "b", "c", "d", "e", "f"}, {"b", "c"}, {"a", "b", "d", "e", "g"},
       {"a", "b", "c", "d", "g"}, {"b", "c", "f", "g"}, {"a", "c", "d", "f", "g"},
       {"a", "c", "d", "e", "f", "g"}, {"a", "b", "c"},
       {"a", "b", "c", "d", "e", "f", "g"}, {"a", "b", "c", "d", "f", "g"} >>

BitOf == [a |-> 0, f |-> 1, e |-> 2, b |-> 4, g |-> 5, c |-> 6, d |-> 7]

Lit(n) ==
    LET on(s) == IF s \in Glyph[n + 1] THEN 2^BitOf[s] ELSE 0
    IN  on("a") + on("b") + on("c") + on("d") + on("e") + on("f") + on("g")

\* A display: four digits, the digit the point stands before (1 for none), a
\* sign and the flags of byte 2, of which one unit and one multiplier are lit at
\* most.
Display ==
    [digits : [1..4 -> 0..9], point : 1..4, neg : BOOLEAN,
     flags : {u + m : u \in {0, 2, 4, 8, 64, 128}, m \in {0, 1, 16, 32}}]

Encode(d) ==
    LET byte(k) == Lit(d.digits[k]) + (IF d.point = k /\ k > 1 THEN 8 ELSE 0) IN
    <<0, d.flags, 0, byte(4), byte(3), byte(2), byte(1),
      2 + (IF d.neg THEN 8 ELSE 0), 0>>

\* The number it shows, in thousandths.
Shown(d) ==
    (1000 * d.digits[1] + 100 * d.digits[2] + 10 * d.digits[3] + d.digits[4])
    * 10^(3 - (IF d.point = 1 THEN 0 ELSE 5 - d.point))
=============================================================================
