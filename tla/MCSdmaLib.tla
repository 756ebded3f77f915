------------------------------ MODULE MCSdmaLib ------------------------------
(* Two drivers: one whose channels are driven by events, and one that also   *)
(* uses channels started by software.                                        *)
EXTENDS SdmaLib, TLC
CONSTANTS p1, p2
MCProc == {p1, p2}
MCEventsOf == p1 :> {1} @@ p2 :> {NoEvent}
==============================================================================
