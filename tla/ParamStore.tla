----------------------------- MODULE ParamStore -----------------------------
(***************************************************************************)
(* The wear-levelled parameter store of library/src/uds_wear_leveling.c.   *)
(* A slot of flash is a payload and a header; the header holds a sequence  *)
(* number and the CRC of the payload, and is written last.  The newest     *)
(* slot whose CRC matches is the stored value.                             *)
(*                                                                         *)
(* A cell of flash is erased, programmed or torn.  CRC-16 is taken to tell *)
(* values apart, so the model writes the value itself for its CRC.  Power  *)
(* may fail during any flash operation, and any operation may report an    *)
(* error; both leave it half done.                                         *)
(***************************************************************************)
EXTENDS Integers, Sequences

CONSTANTS Values,         \* what is stored
          None,           \* no value
          SectorCount,    \* store->sector_count
          SlotsPerSector, \* store->slots_per_sector
          SeqMod          \* sequence numbers are uint16_t: 65536

\* Sequence numbers are compared on a circle, so that all slots together must
\* span less than half of it; the code does not check this.
ASSUME ParamAssumption ==
    /\ None \notin Values /\ Values # {}
    /\ SectorCount \in Nat \ {0} /\ SlotsPerSector \in Nat \ {0}
    /\ SeqMod \in Nat /\ 2 * (SectorCount * SlotsPerSector + 1) <= SeqMod

VARIABLES flash,    \* the slots, by sector and slot number
          store,    \* UdsParamStore: the active slot, if any, and next_seq
          op,       \* the call in progress and the flash operation it is at
          past,     \* history: values saved since the last completed wipe
          unsure    \* history: a wipe was begun; neither it nor a save has
                    \* completed since, and the ECU has not rebooted

vars == <<flash, store, op, past, unsure>>

Position == (0 .. SectorCount - 1) \X (0 .. SlotsPerSector - 1)

Erased        == [kind |-> "erased"]
Torn          == [kind |-> "torn"]
Payload(v)    == [kind |-> "data", value |-> v]
Header(n, v)  == [kind |-> "header", seq |-> n, crc |-> v]
EmptySlot     == [header |-> Erased, payload |-> Erased]

-----------------------------------------------------------------------------
(* Reading. *)

\* read_slot_header() with verify_slot_crc().
ValidSlot(s) == /\ s.header.kind = "header" /\ s.payload.kind = "data"
                /\ s.header.crc = s.payload.value

\* Mutant: plain comparison, wrong once the sequence number has wrapped.
Newer_PlainCompare(a, b) == a > b

\* (int16_t)(a - b) > 0
Newer(a, b) == LET d == (a - b) % SeqMod IN d > 0 /\ 2 * d < SeqMod

\* Mutant: zero, which marks an unused number, is handed out after a wrap.
NextSeq_ThroughZero(n) == (n + 1) % SeqMod

NextSeq(n) == IF (n + 1) % SeqMod = 0 THEN 1 ELSE (n + 1) % SeqMod

\* scan_for_active_slot(): slot by slot, the first valid one and then each newer.
At(i) == <<(i - 1) \div SlotsPerSector, (i - 1) % SlotsPerSector>>

Better(fl, b, p) ==
    IF /\ ValidSlot(fl[p])
       /\ b = <<>> \/ Newer(fl[p].header.seq, fl[b].header.seq)
    THEN p ELSE b

Scan(fl) ==
    LET best[i \in 0 .. SectorCount * SlotsPerSector] ==
          IF i = 0 THEN <<>> ELSE Better(fl, best[i - 1], At(i))
    IN  best[SectorCount * SlotsPerSector]

\* uds_param_init()
Boot(fl) == LET a == Scan(fl)
            IN  [active   |-> a,
                 next_seq |-> IF a = <<>> THEN 1 ELSE NextSeq(fl[a].header.seq)]

\* What uds_param_load() gives: None stands for its error.  It compares the CRC
\* in the header with the payload and does not look at the magic number.
Load(fl, st) == IF st.active # <<>> /\ ValidSlot(fl[st.active])
                THEN fl[st.active].payload.value ELSE None

\* What uds_param_load() gives after uds_param_init(): a scanned slot is valid.
Recovered(fl) == LET a == Scan(fl)
                 IN  IF a = <<>> THEN None ELSE fl[a].payload.value

-----------------------------------------------------------------------------
(* Flash operations: what they leave behind when they complete and when not. *)

\* The STM32 flash controllers refuse to program a cell that is not erased.
Programmed(old, new) == IF old = Erased THEN {new} ELSE {}

Interrupted(old, new) == {old, Torn} \cup Programmed(old, new)

EraseSector(fl, sec) ==
    [p \in Position |-> IF p[1] = sec THEN EmptySlot ELSE fl[p]]

\* An erasure that stops leaves the sector as it was, erased, or unreadable.
HalfErased(fl, sec) ==
    {fl, EraseSector(fl, sec),
     [p \in Position |-> IF p[1] = sec THEN [header |-> Torn, payload |-> Torn]
                         ELSE fl[p]]}

-----------------------------------------------------------------------------
(* uds_param_save() and uds_param_erase_all(), one flash operation a step. *)

Idle == [call |-> "none"]

Init == /\ flash = [p \in Position |-> EmptySlot]
        /\ store = Boot(flash)
        /\ op = Idle /\ past = {} /\ unsure = FALSE

\* Mutant: the store moves on within the sector it has just filled.
NextSlot_StaysInSector(st) ==
    IF st.active = <<>> THEN <<0, 0>>
    ELSE <<st.active[1], (st.active[2] + 1) % SlotsPerSector>>

\* prepare_next_slot(): the next slot, or the first one of the next sector.
NextSlot(st) ==
    IF st.active = <<>> THEN <<0, 0>>
    ELSE IF st.active[2] + 1 < SlotsPerSector
      THEN <<st.active[1], st.active[2] + 1>>
    ELSE <<(st.active[1] + 1) % SectorCount, 0>>

\* A slot at the start of a sector is erased first.
BeginSave(v) ==
    /\ op = Idle
    /\ op' = [call |-> "save", value |-> v, at |-> NextSlot(store),
              step |-> IF NextSlot(store)[2] = 0 THEN "erase" ELSE "payload"]
    /\ past' = past \cup {v}
    /\ UNCHANGED <<flash, store, unsure>>

EraseForSave ==
    /\ op.call = "save" /\ op.step = "erase"
    /\ flash' = EraseSector(flash, op.at[1])
    /\ op' = [op EXCEPT !.step = "payload"]
    /\ UNCHANGED <<store, past, unsure>>

WritePayload ==
    /\ op.call = "save" /\ op.step = "payload"
    /\ \E c \in Programmed(flash[op.at].payload, Payload(op.value)) :
          flash' = [flash EXCEPT ![op.at].payload = c]
    /\ op' = [op EXCEPT !.step = "header"]
    /\ UNCHANGED <<store, past, unsure>>

\* The header completes the slot and the call.
WriteHeader ==
    /\ op.call = "save" /\ op.step = "header"
    /\ \E c \in Programmed(flash[op.at].header, Header(store.next_seq, op.value)) :
          flash' = [flash EXCEPT ![op.at].header = c]
    /\ store' = [active |-> op.at, next_seq |-> NextSeq(store.next_seq)]
    /\ op' = Idle /\ unsure' = FALSE
    /\ UNCHANGED past

BeginWipe == /\ op = Idle /\ op' = [call |-> "wipe", sector |-> 0]
             /\ unsure' = TRUE
             /\ UNCHANGED <<flash, store, past>>

WipeSector ==
    /\ op.call = "wipe"
    /\ flash' = EraseSector(flash, op.sector)
    /\ IF op.sector + 1 < SectorCount
         THEN /\ op' = [op EXCEPT !.sector = @ + 1]
              /\ UNCHANGED <<store, past, unsure>>
         ELSE /\ op' = Idle /\ past' = {} /\ unsure' = FALSE
              /\ store' = [active |-> <<>>, next_seq |-> 1]

\* What the flash may hold when the present operation does not complete.
Unfinished ==
    IF op.call = "wipe" THEN HalfErased(flash, op.sector)
    ELSE IF op.call = "none" THEN {flash}
    ELSE IF op.step = "erase" THEN HalfErased(flash, op.at[1])
    ELSE IF op.step = "payload"
      THEN {[flash EXCEPT ![op.at].payload = c] :
               c \in Interrupted(flash[op.at].payload, Payload(op.value))}
    ELSE {[flash EXCEPT ![op.at].header = c] :
             c \in Interrupted(flash[op.at].header, Header(store.next_seq, op.value))}

\* The port reports an error and the call returns UDS_PARAM_ERR.  A header the
\* port reports as failed is not complete.
PortFails == /\ op # Idle /\ op' = Idle
             /\ flash' \in {fl \in Unfinished :
                  op.call = "save" => fl[op.at].header \in {flash[op.at].header, Torn, Erased}}
             /\ UNCHANGED <<store, past, unsure>>

\* Power fails and the ECU boots: uds_param_init() scans the flash.
PowerLoss == /\ flash' \in Unfinished
             /\ store' = Boot(flash')
             /\ op' = Idle /\ unsure' = FALSE
             /\ UNCHANGED past

Next == \/ \E v \in Values : BeginSave(v)
        \/ EraseForSave \/ WritePayload \/ WriteHeader
        \/ BeginWipe \/ WipeSector
        \/ PortFails \/ PowerLoss

Spec == Init /\ [][Next]_vars
-----------------------------------------------------------------------------
(* Properties. *)

Cell == {Erased, Torn} \cup {Payload(v) : v \in Values}
          \cup {Header(n, v) : n \in 1 .. SeqMod - 1, v \in Values}

\* Types, with two facts the code relies on: next_seq is never 0, the number
\* kept for "nothing written" by uds_param_write_count(), and the active slot
\* lies inside the store.
TypeOK ==
    /\ flash \in [Position -> [header : Cell, payload : Cell]]
    /\ store \in [active : Position \cup {<<>>}, next_seq : 1 .. SeqMod - 1]
    /\ op \in {Idle} \cup [call : {"wipe"}, sector : 0 .. SectorCount - 1]
             \cup [call : {"save"}, value : Values, at : Position,
                   step : {"erase", "payload", "header"}]
    /\ past \subseteq Values /\ unsure \in BOOLEAN

\* Between calls uds_param_load() returns exactly what a reboot would recover:
\* the RAM copy of the active slot never serves, and never loses, a value the
\* flash has, whatever failed before.  Only after a wipe that failed half way may
\* the call report an error while an older value is still in flash.
LoadAgreesWithReboot ==
    op = Idle => \/ Load(flash, store) = Recovered(flash)
                 \/ unsure /\ Load(flash, store) = None

\* The store is a durable register: uds_param_save() is atomic across a power
\* loss at any flash operation, an acknowledged value is the one recovered, and
\* neither the sector change nor the wrap of the sequence number loses it.
Register == INSTANCE ParamRegister WITH
    value  <- Recovered(flash),
    saving <- IF op.call = "save" THEN op.value ELSE None

RegisterSpec == Register!Spec
=============================================================================
