---------------------------- MODULE SessionRecord ----------------------------
(***************************************************************************)
(* What a measurement session promises the program that is being measured, *)
(* without sockets, threads or a meter: every event the program produces   *)
(* is recorded once, in the order produced, and the report that is written *)
(* when the session ends is the whole record, once.                        *)
(***************************************************************************)
EXTENDS Naturals, Sequences

CONSTANT Event

VARIABLES
    produced,    \* the events the client has sent
    recorded,    \* the events the server has taken over
    reported     \* the stamps in the finished log file; empty before the end

recordVars == <<produced, recorded, reported>>

RecordInit == produced = <<>> /\ recorded = <<>> /\ reported = <<>>

Produce ==
    /\ \E e \in Event : produced' = Append(produced, e)
    /\ UNCHANGED <<recorded, reported>>

Record ==
    /\ Len(recorded) < Len(produced)
    /\ reported = <<>>
    /\ recorded' = Append(recorded, produced[Len(recorded) + 1])
    /\ UNCHANGED <<produced, reported>>

Report ==
    /\ recorded # <<>> /\ recorded[Len(recorded)].tag = "END"
    /\ reported = <<>>
    /\ reported' = recorded
    /\ UNCHANGED <<produced, recorded>>

RecordNext == Produce \/ Record \/ Report

RecordSpec == RecordInit /\ [][RecordNext]_recordVars
=============================================================================
