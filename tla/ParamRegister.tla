--------------------------- MODULE ParamRegister ---------------------------
(***************************************************************************)
(* What the wear-levelled parameter store promises its users: one durable  *)
(* register.  A save that reports success replaces the value; one that     *)
(* fails, or is cut short by a power loss, leaves the old value or the new *)
(* one, never a mixture and never nothing.  Only a wipe that is cut short  *)
(* may bring back a value older than the last one saved.                   *)
(***************************************************************************)
CONSTANTS Values, None

VARIABLES value,   \* what a reboot would recover, or None
          saving,  \* the value being saved, or None
          past,    \* values stored since the last completed wipe
          unsure   \* a wipe is under way or has failed half way

vars == <<unsure, past, saving, value>>

Init == value = None /\ saving = None /\ past = {} /\ unsure = FALSE

Save(v) == /\ saving = None /\ saving' = v
           /\ past' = past \cup {v}
           /\ UNCHANGED <<unsure, value>>

Succeed == /\ saving # None /\ saving' = None
           /\ unsure' = FALSE /\ past' = past
           /\ value' = saving

Fail == /\ saving # None /\ saving' = None
        /\ UNCHANGED <<past, unsure>>
        /\ value' \in {value, saving}

Wipe == /\ saving = None /\ unsure' = TRUE
        /\ UNCHANGED <<saving, past, value>>

\* While a wipe is incomplete any value it has not reached may show, or none.
Uncover == /\ unsure /\ unsure' \in BOOLEAN
           /\ saving' \in {saving, None} /\ past' = past
           /\ value' \in past \cup {None}

Wiped == /\ saving = None /\ saving' = None
         /\ unsure /\ unsure' = FALSE
         /\ past' = {} /\ value' = None

Next == \/ \E v \in Values : Save(v)
        \/ Succeed \/ Fail \/ Wipe \/ Uncover \/ Wiped

Spec == Init /\ [][Next]_vars
=============================================================================
