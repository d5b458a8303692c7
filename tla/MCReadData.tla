----------------------------- MODULE MCReadData -----------------------------
(* Model checking of ReadData: a START message (type, time), whose time is  *)
(* read with a bare read, a TAG message (type, size, text, time) and an END *)
(* message.  The 8-byte fields are cut to the few bytes that tell a short   *)
(* read from a whole one.                                                   *)
EXTENDS ReadData

Field(part, type, size) == [is |-> part, kind |-> type, width |-> size]

StartTagEnd ==
    <<Field("type", "START", 1), Field("time", "START", 3),
      Field("type", "TAG", 1), Field("size", "TAG", 3), Field("text", "TAG", 2),
      Field("time", "TAG", 3), Field("type", "END", 1), Field("time", "END", 3)>>
=============================================================================
