--------------------------- MODULE MCSerialMeters ---------------------------
(* SerialMeters with displays that between them show every digit, a point *)
(* at each place, a sign, and amps with and without a multiplier (in the   *)
(* flags amps is 4 and milli is 1).                                        *)
EXTENDS SerialMeters

CheckedDisplays ==
    {[digits |-> <<0, 1, 2, 3>>, point |-> 2, neg |-> FALSE, flags |-> 4],
     [digits |-> <<4, 5, 6, 7>>, point |-> 4, neg |-> TRUE, flags |-> 5],
     [digits |-> <<8, 9, 3, 0>>, point |-> 3, neg |-> FALSE, flags |-> 4]}
=============================================================================
