-------------------------- MODULE MCFdcanTransport --------------------------
(* FIFOs of two elements and the markers 1 to 3, of which the first send     *)
(* takes the last and the second wraps; the events wired as the guide shows, *)
(* and with the two error interrupts the transport also handles.             *)
EXTENDS FdcanTransport

AllWirings == {{"new"}, {"new", "lost", "full"}}
=============================================================================
