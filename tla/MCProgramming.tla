--------------------------- MODULE MCProgramming ---------------------------
(* Model-checking instance of Programming: slots of one page, images of a   *)
(* header and one payload cell.                                             *)
EXTENDS Programming

\* All of slot B; its payload cell only; across its end; beyond the end of the
\* address space and back to slot B; nothing.
MCRequests == {<<4, 2>>, <<5, 1>>, <<5, 2>>, <<7, 5>>, <<4, 0>>}
=============================================================================
