----------------------------- MODULE MCEndpoint -----------------------------
(* Small instances of Endpoint for TLC: three-byte frames, two mailboxes, a  *)
(* ring of three slots, a 4-tick clock and  the request kinds of the cfg.    *)
EXTENDS Endpoint
=============================================================================
