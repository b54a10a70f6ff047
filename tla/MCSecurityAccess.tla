-------------------------- MODULE MCSecurityAccess --------------------------
(* Model-checking instance of SecurityAccess: two levels, three attempts and *)
(* a clock short enough to wrap within a lockout.                            *)
EXTENDS SecurityAccess
=============================================================================
