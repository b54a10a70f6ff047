----------------------------- MODULE MCServices -----------------------------
(* Model-checking instance of Services: two neighbouring regions, open and    *)
(* secured, and a programming-only one below them, in an address space that    *)
(* ends where the last region does.                                            *)
EXTENDS Services

MCDefault == [o \in Outputs |-> 1]
MCRegions ==
    {[start |-> 3, size |-> 2, flags |-> {"read", "write"}],
     [start |-> 5, size |-> 1, flags |-> {"read", "write", "secureRead", "secureWrite"}],
     [start |-> 1, size |-> 1, flags |-> {"read", "write", "progOnly", "secureWrite"}]}
=============================================================================
