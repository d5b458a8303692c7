---------------------------- MODULE Configuration ----------------------------
(***************************************************************************)
(* The configuration file of the example server: class Configuration and   *)
(* its helpers (src/src/functionapi.cpp), and what                         *)
(* NIDAQmxEventHandler::configure takes from it.                           *)
(*                                                                         *)
(* A line is a sequence of symbols: names, numbers, "=", "#" and " ".  An  *)
(* error of the code, which ends the process, is a result with ok FALSE.   *)
(***************************************************************************)
EXTENDS Naturals, Sequences, FiniteSets, TLC

\* The symbols that stoi and stod read a number from.
Number == ("1" :> 1) @@ ("2" :> 2) @@ ("8080" :> 8080)

\* Where the delimiter is, the first time.
Delimited(line) == \E k \in 1..Len(line) : line[k] = "="
Delimiter(line) ==
    CHOOSE k \in 1..Len(line) : line[k] = "=" /\ \A j \in 1..k-1 : line[j] # "="

\* The line is split at its first delimiter; both halves must hold something.
findPair(line) ==
    LET key == SubSeq(line, 1, Delimiter(line) - 1)
        value == SubSeq(line, Delimiter(line) + 1, Len(line))
    IN  IF Delimited(line)
        THEN [ok |-> key # <<>> /\ value # <<>>, key |-> key, value |-> value]
        ELSE [ok |-> FALSE, key |-> <<>>, value |-> <<>>]

Skipped(line) == line = <<>> \/ Head(line) = "#"

\* Mutant: a key that appears again replaces the first.
AddLineAgain(c, line) ==
    IF ~c.ok \/ Skipped(line) THEN c
    ELSE LET pair == findPair(line) IN
         IF ~pair.ok THEN [c EXCEPT !.ok = FALSE]
         ELSE [c EXCEPT !.map = {e \in @ : e.key # pair.key} \cup {pair}]

\* One turn of createConfigurationMap's loop.
AddLine(c, line) ==
    IF ~c.ok \/ Skipped(line) THEN c
    ELSE LET pair == findPair(line) IN
         IF ~pair.ok \/ \E e \in c.map : e.key = pair.key THEN [c EXCEPT !.ok = FALSE]
         ELSE [c EXCEPT !.map = @ \cup {pair}]

createConfigurationMap(lines) ==
    LET c[k \in 0..Len(lines)] == IF k = 0 THEN [ok |-> TRUE, map |-> {}]
                                            ELSE AddLine(c[k - 1], lines[k])
    IN  c[Len(lines)]

\* Configuration::get; a key that is missing ends the process.
Specified(c, key) == \E e \in c.map : e.key = <<key>>
get(c, key) == (CHOOSE e \in c.map : e.key = <<key>>).value

\* stoi: blanks, then a number; what follows it is not looked at.
Words(value) == SelectSeq(value, LAMBDA s : s # " ")
IsNumber(value) == Words(value) # <<>> /\ Words(value)[1] \in DOMAIN Number
stoi(value) == Number[Words(value)[1]]

\* stringToDoubleArray: stod until the string is used up, so that a blank at
\* the end is an error.
IsDoubleArray(value) ==
    /\ \A k \in 1..Len(Words(value)) : Words(value)[k] \in DOMAIN Number
    /\ value[Len(value)] # " "
stringToDoubleArray(value) ==
    [k \in 1..Len(Words(value)) |-> Number[Words(value)[k]]]

Keys == {"NIDAQmxNumChannels", "NIDAQmxSampleRate", "NIDAQmxChannelDescription",
         "NIDAQmxChannelVoltages", "port"}

\* main and configure get all that they ask for.
Configured(c) ==
    /\ c.ok
    /\ \A key \in Keys : Specified(c, key)
    /\ \A key \in {"NIDAQmxNumChannels", "NIDAQmxSampleRate", "port"} : IsNumber(get(c, key))
    /\ IsDoubleArray(get(c, "NIDAQmxChannelVoltages"))

configure(c) ==
    LET channels == stoi(get(c, "NIDAQmxNumChannels"))
        rate == stoi(get(c, "NIDAQmxSampleRate"))
    IN  [numChannels |-> channels, sampleRate |-> rate, bufferSize |-> channels * rate,
         channelDescription |-> get(c, "NIDAQmxChannelDescription"),
         channelVoltages |-> stringToDoubleArray(get(c, "NIDAQmxChannelVoltages")),
         port |-> stoi(get(c, "port"))]
=============================================================================
