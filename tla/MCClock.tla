------------------------------ MODULE MCClock -------------------------------
(***************************************************************************)
(* An instance of Clock for TLC: two hours of two minutes of four seconds. *)
(***************************************************************************)
EXTENDS Clock

MCUnits == <<16, 8, 4, 1>>

\* No summer time, and a summer of two minutes with a minute put forward.
MCSummer == {4 .. 11}

MCZones == MCSummer \cup {{}}
=============================================================================
