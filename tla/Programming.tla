---------------------------- MODULE Programming ----------------------------
(***************************************************************************)
(* Reprogramming: RequestDownload, TransferData, RequestTransferExit and   *)
(* the bootloader routines (library/src/uds.c, uds_download.c), the slots, *)
(* candidate and boot journal of App/Src/uds_bootloader.c and the anti-    *)
(* rollback floor of library/src/boot_floor.c.                             *)
(*                                                                         *)
(* A cell is one programming unit and one TransferData block.  It is       *)
(* erased, torn, part of another region's contents, or holds what belongs  *)
(* there in the image of some version; hashes, CRCs and signatures are     *)
(* taken to tell such contents apart.  The first cell of an image is its   *)
(* header with the vector table, the others are the payload that           *)
(* CheckMemory hashes.                                                     *)
(***************************************************************************)
EXTENDS UdsSession

CONSTANTS Targets,     \* subset of {"F767", "C092"}: what the build is for
          Journals,    \* subset of BOOLEAN: whether the build has a journal
          Versions,    \* versions the vendor has signed; 1 is the factory's
          PageCells,   \* cells of an erasable page of the C092
          SlotCells,   \* cells of either application slot
          ImageCells,  \* cells of an image
          AddrMod,     \* addresses wrap here: uint32_t
          BlockMod,    \* block counters wrap here: uint8_t
          Requests     \* pairs of memoryAddress and memorySize that testers send

ASSUME ProgrammingAssumption ==
    /\ Targets \subseteq {"F767", "C092"} /\ Journals \subseteq BOOLEAN
    /\ Versions \subseteq Nat \ {0} /\ 1 \in Versions
    /\ PageCells \in Nat \ {0} /\ ImageCells \in 2 .. SlotCells
    /\ SlotCells \in Nat /\ SlotCells % PageCells = 0
    /\ AddrMod \in Nat /\ AddrMod > PageCells + 2 * SlotCells
    /\ BlockMod \in Nat \ {0, 1}
    /\ Requests \subseteq (0 .. AddrMod - 1) \X (0 .. AddrMod - 1)

VARIABLES target,    \* s_bl_ctx.target
          journaled, \* bootloader_nvm_save_metadata() does something
          mem,       \* the flash
          srv,       \* UdsServer: session and transfer
          dl,        \* UdsDownload
          bl,        \* s_bl_ctx
          journal,   \* the metadata in non-volatile memory, or NoRecord
          floor,     \* UdsBootFloor: the floor in RAM and in its store
          confirmed, \* history: the highest version ever confirmed
          trial      \* history: how often the image on trial was started

build == <<target, journaled>>

vars == <<build, mem, srv, dl, bl, journal, floor, confirmed, trial>>

-----------------------------------------------------------------------------
(* Memory map and flash. *)

Boot  == [start |-> 0, end |-> PageCells]
SlotA == [start |-> PageCells, end |-> PageCells + SlotCells]
SlotB == [start |-> PageCells + SlotCells, end |-> PageCells + 2 * SlotCells]

In(a, region) == a >= region.start /\ a < region.end

\* A cell holds the number of the version its contents belong to, or:
Erased == 0
Torn   == -1
Other  == -2
Cells  == {Erased, Torn, Other} \cup Versions

\* What erasing length cells from address reaches: all of slot B on the F767,
\* the pages from the one that holds address on the C092.
EraseRange(address, length) ==
    IF target = "F767" THEN {a \in DOMAIN mem : In(a, SlotB)}
    ELSE LET page == address \div PageCells
             n    == (length + PageCells - 1) \div PageCells
         IN  {a \in DOMAIN mem : a \div PageCells \in page .. page + n - 1}

Filled(m, range, c) == [a \in DOMAIN m |-> IF a \in range THEN c ELSE m[a]]

\* An erasure that the HAL reports as failed, or that power interrupts.
HalfErased(m, range) == {m, Filled(m, range, Torn)}

\* Programming a cell: what it then holds and whether HAL_OK is returned.  The
\* C092 refuses a cell that is not erased, the F767 clears further bits in it.
Program(old, new) ==
    LET fails == {[cell |-> old, ok |-> FALSE], [cell |-> Torn, ok |-> FALSE]}
    IN  IF old = Erased THEN fails \cup {[cell |-> new, ok |-> TRUE]}
        ELSE IF target = "F767" THEN fails \cup {[cell |-> Torn, ok |-> TRUE]}
        ELSE fails

\* What CheckMemory hashes: the payload.
Holds(m, slot, v) == \A i \in 1 .. ImageCells - 1 : m[slot.start + i] = v

-----------------------------------------------------------------------------
(* The state of the program. *)

NoRecord == [version |-> 0, status |-> "NONE", attempts |-> 0]

\* bootloader_nvm_save_metadata(); the HAL build keeps nothing, and a record that
\* never held an image (no magic number) is not accepted when it is read.
Saved(meta) == IF journaled /\ meta.version # 0 THEN meta ELSE NoRecord

MaxAttempts == 3

ServerFresh   == [session |-> "DEFAULT", active |-> FALSE, next |-> 1]
DownloadFresh == [state |-> "IDLE", address |-> 0, length |-> 0, received |-> 0,
                  expected |-> 1, crc |-> <<>>, late |-> FALSE]

\* uds_bootloader_set_target(), before the journal is looked at.
BootFresh == [in_progress |-> FALSE, verified |-> FALSE, erase_ok |-> TRUE,
              active_version |-> 1,
              meta |-> [version |-> 0, status |-> "CONFIRMED", attempts |-> 0]]

\* The number of attempts is read of an active image only.
Withdrawn(m) == [version |-> m.version, status |-> "ROLLBACK", attempts |-> 0]

\* Mutant: the attempt is counted in RAM only.
Recorded_NotAttempts(j) == j

\* What uds_bootloader_init() saves when it finds the record j.
Recorded(j) ==
    IF j.status # "ACTIVE" THEN j
    ELSE IF j.attempts + 1 > MaxAttempts THEN Withdrawn(j)
    ELSE [version |-> j.version, status |-> "ACTIVE", attempts |-> j.attempts + 1]

\* uds_bootloader_init() on the record j, given what it saves for it.
Restored(j, saved) ==
    IF j = NoRecord THEN BootFresh
    ELSE [BootFresh EXCEPT
            !.meta = saved,
            !.active_version = IF j.status = "ACTIVE" /\ saved.status = "ROLLBACK"
                               THEN 1 ELSE j.version]

\* uds_c092_app_init() sets the target a second time, which forgets the record
\* and the version that were just restored.
Booted(j, saved) == IF target = "C092" THEN BootFresh ELSE Restored(j, saved)

\* Every program start: RAM is initialised, journal and floor are read.
Start(j) ==
    /\ journal' = Recorded(j) /\ bl' = Booted(j, Recorded(j))
    /\ srv' = ServerFresh /\ dl' = DownloadFresh
    /\ floor' = [ram |-> floor.stored, stored |-> floor.stored]

Init ==
    /\ target \in Targets /\ journaled \in Journals
    /\ mem = [a \in 0 .. AddrMod - 1 |->
                IF In(a, SlotA) THEN 1 ELSE IF In(a, SlotB) THEN Erased ELSE Other]
    /\ srv = ServerFresh /\ dl = DownloadFresh /\ bl = BootFresh
    /\ journal = NoRecord /\ floor = [ram |-> 0, stored |-> 0]
    /\ confirmed = 0 /\ trial = 0

history == <<confirmed, trial>>

-----------------------------------------------------------------------------
(* Sessions. *)

\* Mutant: the counter is reset and the transfer stays open.
EndTransfer_KeepsActive(s, session) ==
    [session |-> session, active |-> s.active, next |-> 1]

\* A session change, or S3, closes the transfer for the server; the download
\* and the bootloader are not told.
EndTransfer(s, session) == [session |-> session, active |-> FALSE, next |-> 1]

SessionChange(to) ==
    /\ TransitionAllowed(srv.session, to)
    /\ srv' = EndTransfer(srv, to)
    /\ UNCHANGED <<build, mem, dl, bl, journal, floor, history>>

S3Expires ==
    /\ srv.session # "DEFAULT"
    /\ srv' = EndTransfer(srv, "DEFAULT")
    /\ UNCHANGED <<build, mem, dl, bl, journal, floor, history>>

-----------------------------------------------------------------------------
(* RequestDownload (0x34). *)

\* range_inside(); the subtraction is unsigned.
RangeInside(region, address, length) ==
    /\ length # 0 /\ address >= region.start
    /\ length <= (region.end - address) % AddrMod

Overlaps(start, end, region) == start < region.end /\ region.start < end

\* Mutant: the end is not looked at for a wrap.
RegionValid_NoWrapCheck(address, length) ==
    LET end == (address + length) % AddrMod
    IN  /\ RangeInside(SlotB, address, length)
        /\ ~Overlaps(address, end, Boot) /\ ~Overlaps(address, end, SlotA)

\* validate_download_region()
RegionValid(address, length) ==
    LET end == (address + length) % AddrMod
    IN  /\ length # 0 /\ end >= address
        /\ RangeInside(SlotB, address, length)
        /\ ~Overlaps(address, end, Boot) /\ ~Overlaps(address, end, SlotA)

\* uds_bootloader_request_download() before uds_download_begin().
TargetsSlotB(address, length) ==
    address >= SlotB.start /\ (address + length) % AddrMod <= SlotB.end

Programming == srv.session = "PROGRAMMING"

Acceptable(address, length) ==
    Programming /\ TargetsSlotB(address, length) /\ RegionValid(address, length)

\* bootloader_flash_erase_poll(): the HAL erases before it returns, so that the
\* flags are clear; the answer is the result of the last EraseMemory routine.
EraseDone == bl.erase_ok

\* The erasure is polled at once, and the answer to the tester is positive in
\* either case.
RequestDownload(address, length) ==
    /\ Acceptable(address, length)
    /\ mem' = Filled(mem, EraseRange(address, length), Erased)
    /\ dl' = [state |-> IF EraseDone THEN "RECEIVING" ELSE "ERASING",
              address |-> address, length |-> length, received |-> 0,
              expected |-> 1, crc |-> <<>>, late |-> FALSE]
    /\ bl' = [bl EXCEPT !.in_progress = TRUE, !.verified = FALSE]
    /\ srv' = [srv EXCEPT !.active = TRUE, !.next = 1]
    /\ UNCHANGED <<build, journal, floor, history>>

\* The erasure fails: a transfer under way and a verified candidate stay.
RequestDownloadFails(address, length) ==
    /\ Acceptable(address, length)
    /\ mem' \in HalfErased(mem, EraseRange(address, length))
    /\ UNCHANGED <<build, srv, dl, bl, journal, floor, history>>

-----------------------------------------------------------------------------
(* TransferData (0x36) and RequestTransferExit (0x37). *)

NextBlock(n) == (n + 1) % BlockMod

\* What the download remembers of a transfer is not read once it has ended.
Ended(state) == [DownloadFresh EXCEPT !.state = state]
Aborted      == Ended("ABORTED")

\* A block that gets as far as the callback.
BlockArrives == Programming /\ srv.active /\ bl.in_progress

\* uds_download_poll_erase() from uds_bootloader_transfer_data().
Polled(d) == IF d.state # "ERASING" THEN d
             ELSE IF d.late THEN Aborted
             ELSE IF EraseDone THEN [d EXCEPT !.state = "RECEIVING"]
             ELSE d

\* Mutant: the length announced is not looked at.
RoomLeft_Unchecked(d) == TRUE

RoomLeft(d) == d.received < d.length

\* uds_download_write() up to the call that programs the flash.
Writable(d) == /\ d.state = "RECEIVING" /\ ~d.late
               /\ d.expected = srv.next /\ RoomLeft(d)

\* The block the server expects, with the contents of version v.
TransferData(v) ==
    /\ BlockArrives /\ Writable(Polled(dl))
    /\ LET a == (dl.address + dl.received) % AddrMod
       IN  \E r \in Program(mem[a], v) :
             /\ mem' = [mem EXCEPT ![a] = r.cell]
             /\ dl' = IF ~r.ok THEN Polled(dl)
                      ELSE [Polled(dl) EXCEPT !.received = @ + 1,
                              !.expected = NextBlock(@), !.crc = Append(@, v)]
             /\ srv' = IF r.ok THEN [srv EXCEPT !.next = NextBlock(@)] ELSE srv
    /\ UNCHANGED <<build, bl, journal, floor, history>>

TransferRefused ==
    /\ BlockArrives /\ ~Writable(Polled(dl))
    /\ dl' = IF Polled(dl).state = "RECEIVING" /\ dl.late
             THEN Aborted ELSE Polled(dl)
    /\ UNCHANGED <<build, mem, srv, bl, journal, floor, history>>

\* Mutant: the checksum of the data received is taken for that of the flash.
FlashMatches_Unread(d) == TRUE

\* bootloader_flash_verify(): the CRC of the flash against that of the data.
FlashMatches(d) == \A i \in 1 .. d.length : mem[(d.address + i - 1) % AddrMod] = d.crc[i]

\* uds_download_finish(); claim says whether the tester's CRC, if any, is right.
Finishes(claim) == /\ dl.state = "RECEIVING" /\ dl.received = dl.length
                   /\ ~dl.late /\ claim /\ FlashMatches(dl)

\* uds_bootloader_transfer_exit(): any failure aborts the download.
ExitResult(claim) == IF Finishes(claim) THEN Ended("COMPLETE") ELSE Aborted

\* After a failure the server goes on taking the transfer for open.
TransferExit(claim) ==
    /\ BlockArrives
    /\ dl' = ExitResult(claim)
    /\ bl' = [bl EXCEPT !.in_progress = FALSE]
    /\ srv' = [srv EXCEPT !.active = ~Finishes(claim)]
    /\ UNCHANGED <<build, mem, journal, floor, history>>

\* UDS_DOWNLOAD_TIMEOUT_MS pass without a block.  uds_download_tick() is called
\* by nobody, so that only the next request notices.
DeadlinePasses ==
    /\ dl.state \in {"ERASING", "RECEIVING"} /\ ~dl.late
    /\ dl' = [dl EXCEPT !.late = TRUE]
    /\ UNCHANGED <<build, mem, srv, bl, journal, floor, history>>

-----------------------------------------------------------------------------
(* RoutineControl (0x31). *)

RoutineSession == srv.session \in {"PROGRAMMING", "EXTENDED"}

\* routine_erase_memory(): a verified candidate stays verified.
EraseMemory ==
    /\ RoutineSession
    /\ LET range == EraseRange(SlotB.start, SlotCells)
       IN  \/ /\ mem' = Filled(mem, range, Erased)
              /\ bl' = [bl EXCEPT !.erase_ok = TRUE]
           \/ /\ mem' \in HalfErased(mem, range)
              /\ bl' = [bl EXCEPT !.erase_ok = FALSE]
    /\ UNCHANGED <<build, srv, dl, journal, floor, history>>

\* Mutant: only the version that runs is taken for the floor.
VersionFloor_ActiveOnly == bl.active_version

\* uds_bootloader_get_version_floor()
VersionFloor == IF floor.ram > bl.active_version THEN floor.ram ELSE bl.active_version

\* routine_check_memory() with the vendor's metadata of version v.
CheckMemory(v) ==
    /\ RoutineSession
    /\ v >= VersionFloor /\ Holds(mem, SlotB, v)
    /\ bl' = [bl EXCEPT !.verified = TRUE,
                !.meta = [version |-> v, status |-> "CANDIDATE", attempts |-> 0]]
    /\ journal' = Saved(bl'.meta) /\ trial' = 0
    /\ UNCHANGED <<build, mem, srv, dl, floor, confirmed>>

-----------------------------------------------------------------------------
(* ECUReset (0x11), confirmation and rollback. *)

Activated(v) == [version |-> v, status |-> "ACTIVE", attempts |-> 1]

StartAgain ==
    /\ Start(journal)
    /\ trial' = IF Recorded(journal).status # "ACTIVE" THEN 0
                ELSE IF trial < MaxAttempts THEN trial + 1 ELSE trial

\* uds_c092_platform_reset_poll() resets in any case: on the C092 nothing calls
\* uds_bootloader_activate_candidate(), and the candidate is forgotten.
ResetOnly ==
    /\ target = "F767" => ~bl.verified
    /\ StartAgain
    /\ UNCHANGED <<build, mem, confirmed>>

\* The activation is recorded, and its image started for the first time.
ActivateAndStart ==
    /\ trial' = 1
    /\ Start(Saved(Activated(bl.meta.version)))
    /\ UNCHANGED <<build, confirmed>>

\* The F767 runs the candidate where it is.  uds_bootloader_jump_to_app() looks
\* at its vector table; with a bad one the ECU resets, which starts it as well.
ActivateInPlace ==
    /\ target = "F767" /\ bl.verified
    /\ mem' = mem /\ ActivateAndStart

\* Power fails; in the middle of a flash operation it leaves what the failure of
\* that operation does.
PowerCycle ==
    /\ StartAgain
    /\ UNCHANGED <<build, mem, confirmed>>

\* uds_bootloader_confirm_active_image(), called by the application.
Confirm ==
    LET v == bl.meta.version
    IN  /\ bl.meta.status = "ACTIVE"
        /\ floor' = IF v <= floor.ram THEN floor ELSE [ram |-> v, stored |-> v]
        /\ bl' = [bl EXCEPT !.meta.status = "CONFIRMED", !.meta.attempts = 0]
        /\ journal' = Saved(bl'.meta)
        /\ confirmed' = IF v > confirmed THEN v ELSE confirmed
        /\ trial' = 0
        /\ UNCHANGED <<build, mem, srv, dl>>

\* boot_floor_raise() fails, with or without the new floor in its store.
ConfirmFails ==
    /\ bl.meta.status = "ACTIVE" /\ bl.meta.version > floor.ram
    /\ floor' \in {floor, [floor EXCEPT !.stored = bl.meta.version]}
    /\ UNCHANGED <<build, mem, srv, dl, bl, journal, history>>

\* uds_bootloader_rollback_candidate(), called by the application.
Rollback ==
    /\ bl' = [bl EXCEPT !.meta = Withdrawn(@), !.active_version = 1, !.verified = FALSE]
    /\ journal' = Saved(bl'.meta) /\ trial' = 0
    /\ UNCHANGED <<build, mem, srv, dl, floor, confirmed>>

Next ==
    \/ \E to \in Sessions : SessionChange(to)
    \/ S3Expires
    \/ \E r \in Requests : RequestDownload(r[1], r[2]) \/ RequestDownloadFails(r[1], r[2])
    \/ \E v \in Versions : TransferData(v) \/ CheckMemory(v)
    \/ \E claim \in BOOLEAN : TransferExit(claim)
    \/ TransferRefused \/ DeadlinePasses \/ EraseMemory
    \/ ResetOnly \/ ActivateInPlace \/ PowerCycle
    \/ Confirm \/ ConfirmFails \/ Rollback

Spec == Init /\ [][Next]_vars

-----------------------------------------------------------------------------
(* Properties. *)

Records == [version : Versions \cup {0}, attempts : 0 .. MaxAttempts + 1,
            status : {"NONE", "CANDIDATE", "ACTIVE", "CONFIRMED", "ROLLBACK"}]

\* Types; no more cells are programmed than RequestDownload announced.
TypeOK ==
    /\ target \in Targets /\ journaled \in Journals
    /\ mem \in [0 .. AddrMod - 1 -> Cells]
    /\ srv \in [session : Sessions, active : BOOLEAN, next : 0 .. BlockMod - 1]
    /\ dl.state \in {"IDLE", "ERASING", "RECEIVING", "COMPLETE", "ABORTED"}
    /\ dl.address \in 0 .. AddrMod - 1 /\ dl.length \in 0 .. AddrMod - 1
    /\ dl.received \in 0 .. dl.length /\ dl.expected \in 0 .. BlockMod - 1
    /\ Len(dl.crc) = dl.received /\ dl.late \in BOOLEAN
    /\ bl \in [in_progress : BOOLEAN, verified : BOOLEAN, erase_ok : BOOLEAN,
               active_version : Versions \cup {1}, meta : Records]
    /\ journal \in Records
    /\ floor \in [ram : Versions \cup {0}, stored : Versions \cup {0}]
    /\ confirmed \in Versions \cup {0} /\ trial \in 0 .. MaxAttempts

\* The server and the download keep a block counter each; while the server has
\* a transfer open that the download is willing to go on with they agree, or
\* the tester could send no block that both accept.
BlocksAgree ==
    srv.active /\ dl.state \in {"ERASING", "RECEIVING"} => srv.next = dl.expected

\* No request, at whichever end of the address space, changes anything outside
\* slot B: not the bootloader, nor the image that runs in slot A.
StaysInSlotB ==
    [][\A a \in DOMAIN mem : mem'[a] = mem[a] \/ In(a, SlotB)]_vars

\* A positive answer to RequestTransferExit means that every cell of the range
\* holds what the tester sent for it, with blocks repeated after a failed
\* programming and slots erased during the transfer.
ExitMeansStored ==
    [][dl.state # "COMPLETE" /\ dl'.state = "COMPLETE" =>
          /\ Len(dl.crc) = dl.length
          /\ \A i \in 1 .. dl.length : mem'[dl.address + i - 1] = dl.crc[i]]_vars

\* No version below one that was ever confirmed is activated, whichever power
\* failures, rollbacks and failed writes of the floor lie in between.
NoDowngrade ==
    [][ActivateInPlace => bl.meta.version >= confirmed]_vars

\* An image that is neither confirmed nor withdrawn is started fewer than
\* MaxAttempts times, however often power fails.
TrialBounded == bl.meta.status = "ACTIVE" => trial < MaxAttempts
=============================================================================
