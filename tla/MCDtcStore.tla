----------------------------- MODULE MCDtcStore -----------------------------
(* Model-checking instance of DtcStore: a baseline code and a plain one in the *)
(* ROM table, two codes outside it for one dynamic record, and a block with    *)
(* room for one snapshot less than there can be.                               *)
EXTENDS DtcStore

CONSTANTS Base, Plain, Dyn1, Dyn2

MCStaticOrder == <<Base, Plain>>
MCGroup == [d \in {Base, Plain, Dyn1, Dyn2} |-> IF d = Base THEN "powertrain" ELSE "chassis"]
MCRomFault == [d \in {Base} |->
    [status |-> {"testFailed", "failedThisCycle", "pending", "confirmed", "failedSinceClear"},
     fault |-> FdcMax, occurrence |-> 1]]
MCFaults == {[status |-> {"confirmed"}, fault |-> 0],
             [status |-> {"testFailed", "pending"}, fault |-> 2]}
MCFdcMin == -2
MCSymmetry == Permutations({Dyn1, Dyn2})
=============================================================================
