---------------------------- MODULE MCIsoTpLink ----------------------------
(* Small instances of IsoTpLink for TLC: three-byte frames (SF 2, FF 1 and  *)
(* CF 2 payload bytes), sequence numbers modulo 4 and a 6-tick clock.       *)
EXTENDS IsoTpLink
=============================================================================
