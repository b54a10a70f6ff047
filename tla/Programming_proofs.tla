------------------------- MODULE Programming_proofs -------------------------
(***************************************************************************)
(* Theorems about Programming for any sizes of pages, slots, images,       *)
(* address space and block counter, any set of versions and any requests.  *)
(***************************************************************************)
EXTENDS Programming, TLAPS

Addresses == 0 .. AddrMod - 1

Servers == [session : Sessions, active : BOOLEAN, next : 0 .. BlockMod - 1]

DownloadStates == {"IDLE", "ERASING", "RECEIVING", "COMPLETE", "ABORTED"}

Downloads == [state : DownloadStates, address : Addresses, length : Addresses,
              received : Nat, expected : 0 .. BlockMod - 1, crc : Seq(Versions),
              late : BOOLEAN]

Loaders == [in_progress : BOOLEAN, verified : BOOLEAN, erase_ok : BOOLEAN,
            active_version : Versions \cup {1}, meta : Records]

Floors == [ram : Versions \cup {0}, stored : Versions \cup {0}]

Building == target \in Targets /\ journaled \in Journals

MemoryTyped == mem \in [Addresses -> Cells]

TransferTyped ==
    /\ srv \in Servers /\ dl \in Downloads
    /\ dl.received <= dl.length /\ Len(dl.crc) = dl.received

BootTyped == bl \in Loaders /\ journal \in Records

HistoryTyped == floor \in Floors /\ confirmed \in Versions \cup {0}
                  /\ trial \in 0 .. MaxAttempts

\* The range of a download that is under way lies in slot B, without a wrap.
Reserved ==
    dl.state \in {"ERASING", "RECEIVING"} =>
        dl.address >= SlotB.start /\ dl.address + dl.length <= SlotB.end

\* The journal, where the build has one, holds what RAM holds; the C092 forgets
\* at every start what it holds, and never activates anything.
JournalCurrent ==
    /\ journal = NoRecord \/ (journaled /\ journal.version # 0)
    /\ IF target = "C092" THEN journal.status # "ACTIVE" /\ bl.meta.status # "ACTIVE"
       ELSE journal = Saved(bl.meta)

\* Each start of an image on trial is counted in its record, and the activation
\* itself counts as one.
OnTrial ==
    bl.meta.status = "ACTIVE" =>
        /\ journaled /\ bl.meta.version # 0
        /\ bl.meta.attempts = trial + 1 /\ bl.meta.attempts <= MaxAttempts

\* The floor is never below a version that was confirmed, and a restart does
\* not lower it.
FloorCovers == confirmed <= floor.ram /\ floor.ram <= floor.stored

\* What is verified is a candidate that was not below the floor, and nothing is
\* confirmed before it is gone.
VerifiedIsNew ==
    bl.verified => bl.meta.status = "CANDIDATE" /\ bl.meta.version >= confirmed

Transfer == TransferTyped /\ Reserved /\ BlocksAgree

Booting == /\ BootTyped /\ HistoryTyped /\ JournalCurrent /\ OnTrial
           /\ FloorCovers /\ VerifiedIsNew

IInv == Building /\ MemoryTyped /\ Transfer /\ Booting

-----------------------------------------------------------------------------
(* Arithmetic of addresses and pages. *)

\* Division of an address by the size of a page.
LEMMA Division ==
  ASSUME NEW P \in Nat \ {0}, NEW x \in Nat
  PROVE  /\ x \div P \in Nat /\ x % P \in 0 .. P - 1
         /\ x = P * (x \div P) + (x % P)
  OBVIOUS

\* Multiplication by the size of a page keeps the order, in both directions.
LEMMA PagesGrow ==
  ASSUME NEW P \in Nat \ {0}, NEW x \in Int, NEW y \in Int, x < y
  PROVE  P * x + P <= P * y
  OBVIOUS

\* Fewer pages, fewer cells.
LEMMA PagesOrdered ==
  ASSUME NEW P \in Nat \ {0}, NEW x \in Int, NEW y \in Int, P * x < P * y
  PROVE  x < y
  OBVIOUS

\* What fits uint32_t is not changed by it, and a sum that does not fit is
\* below both summands.
LEMMA Fits ==
  ASSUME NEW M \in Nat \ {0}, NEW x \in 0 .. M - 1
  PROVE  x % M = x
  OBVIOUS

\* A sum below twice the modulus wraps once.
LEMMA Wraps ==
  ASSUME NEW M \in Nat \ {0}, NEW x \in M .. 2 * M - 1
  PROVE  x % M = x - M
<1>1. x \in Nat
  OBVIOUS
<1> DEFINE q == x \div M
           r == x % M
<1>2. q \in Nat /\ r \in 0 .. M - 1 /\ x = M * q + r
  BY <1>1, Division
<1> HIDE DEF q, r
<1>3. q = 1
  <2>1. M * q \in Int /\ M * 0 < M * q /\ M * q < M * 2
    BY ONLY <1>2, M \in Nat \ {0}, x \in M .. 2 * M - 1
  <2> QED
    BY ONLY <1>2, <2>1, M \in Nat \ {0}, PagesOrdered
<1> QED
  BY <1>2, <1>3 DEF q, r

\* The pages that are erased for a range that starts no earlier than page lo and
\* ends no later than page hi are some of those pages.
LEMMA ErasedPages ==
  ASSUME NEW P \in Nat \ {0}, NEW lo \in Nat, NEW hi \in Nat,
         NEW address \in Nat, NEW length \in Nat, NEW a \in Nat,
         P * lo <= address, address + length <= P * hi,
         a \div P \in (address \div P)
                        .. (address \div P) + ((length + P - 1) \div P) - 1
  PROVE  P * lo <= a /\ a < P * hi
<1> DEFINE q == address \div P
           m == (length + P - 1) \div P
           b == a \div P
<1>1. q \in Nat /\ P * q <= address /\ address < P * q + P
  BY Division
<1>2. m \in Nat /\ P * m <= length + P - 1
  <2>1. length + P - 1 \in Nat
    OBVIOUS
  <2> QED
    BY <2>1, Division
<1>3. b \in Nat /\ P * b <= a /\ a < P * b + P
  BY Division
<1>4. b >= q /\ b <= q + m - 1
  BY <1>1, <1>2, <1>3
<1> HIDE DEF q, m, b
<1>5. P * (q + m - 1) = P * q + P * m - P
  BY <1>1, <1>2
<1>6. P * (q + m - 1) < P * hi
  BY <1>1, <1>2, <1>5
<1>7. q + m - 1 < hi
  BY ONLY <1>6, <1>1, <1>2, PagesOrdered, P \in Nat \ {0}, hi \in Nat
<1>8. P * b + P <= P * hi
  <2>1. b < hi
    BY <1>4, <1>7, <1>1, <1>2, <1>3
  <2> QED
    BY ONLY <2>1, <1>3, PagesGrow, P \in Nat \ {0}, hi \in Nat
<1>9. P * lo <= P * b
  <2>1. P * lo < P * (q + 1)
    BY <1>1
  <2>2. lo < q + 1
    BY ONLY <2>1, <1>1, PagesOrdered, P \in Nat \ {0}, lo \in Nat
  <2>3. lo < b + 1
    BY <2>2, <1>4, <1>1, <1>2, <1>3
  <2>4. P * lo + P <= P * (b + 1)
    BY ONLY <2>3, <1>3, PagesGrow, P \in Nat \ {0}, lo \in Nat
  <2> QED
    BY <2>4, <1>3
<1> QED
  BY <1>3, <1>8, <1>9

-----------------------------------------------------------------------------
(* The operators the handlers are built from. *)

\* Where the slots lie.
LEMMA Map ==
  /\ PageCells \in Nat \ {0} /\ SlotCells \in Nat /\ SlotCells >= 2
  /\ ImageCells \in Nat /\ ImageCells >= 2 /\ ImageCells <= SlotCells
  /\ AddrMod \in Nat \ {0} /\ AddrMod > PageCells + 2 * SlotCells
  /\ SlotA.start = PageCells /\ SlotA.end = PageCells + SlotCells
  /\ SlotB.start = PageCells + SlotCells /\ SlotB.end = PageCells + 2 * SlotCells
  BY ProgrammingAssumption DEF SlotA, SlotB

\* Slots begin and end with a page.
LEMMA SlotPages ==
  \E k \in Nat : /\ SlotA.start = PageCells * 1
                 /\ SlotA.end = PageCells * (1 + k)
                 /\ SlotB.start = PageCells * (1 + k)
                 /\ SlotB.end = PageCells * (1 + 2 * k)
<1> DEFINE k == SlotCells \div PageCells
<1>1. k \in Nat /\ SlotCells = PageCells * k + (SlotCells % PageCells)
  BY Division, Map
<1>2. SlotCells % PageCells = 0
  BY ProgrammingAssumption
<1> HIDE DEF k
<1>3. SlotCells = PageCells * k
  BY <1>1, <1>2, Map
<1>4. /\ PageCells * (1 + k) = PageCells + PageCells * k
      /\ PageCells * (1 + 2 * k) = PageCells + 2 * (PageCells * k)
  BY ONLY <1>1, Map
<1> QED
  BY <1>1, <1>3, <1>4, Map

\* A range that uds_bootloader_request_download() and validate_download_region()
\* both let pass lies in slot B: neither check alone excludes a range that
\* begins beyond the end of the slot.
LEMMA AcceptedInside ==
  ASSUME NEW address \in Addresses, NEW length \in Addresses,
         Acceptable(address, length)
  PROVE  /\ address >= SlotB.start /\ address + length <= SlotB.end
         /\ length # 0
<1> DEFINE sum == address + length
<1>1. /\ address \in Nat /\ length \in Nat /\ address < AddrMod /\ length < AddrMod
      /\ sum \in Nat
  BY Map DEF Addresses
<1>2. /\ length # 0 /\ sum % AddrMod >= address /\ address >= SlotB.start
      /\ sum % AddrMod <= SlotB.end
  BY DEF Acceptable, TargetsSlotB, RegionValid, RangeInside
<1> HIDE DEF sum
<1>3. CASE sum < AddrMod
  <2>1. sum % AddrMod = sum
    BY <1>1, <1>3, Fits, Map
  <2> QED
    BY <1>2, <2>1 DEF sum
<1>4. CASE ~(sum < AddrMod)
  <2>1. sum \in AddrMod .. 2 * AddrMod - 1
    BY <1>1, <1>4, Map DEF sum
  <2>2. sum % AddrMod = sum - AddrMod
    BY <2>1, Wraps, Map
  <2> QED
    BY <1>1, <1>2, <2>2, Map DEF sum
<1> QED
  BY <1>3, <1>4

\* An erasure for a range of slot B stays in slot B.
LEMMA EraseInB ==
  ASSUME NEW address \in Nat, NEW length \in Nat, MemoryTyped,
         address >= SlotB.start, address + length <= SlotB.end
  PROVE  \A a \in EraseRange(address, length) : a \in Addresses /\ In(a, SlotB)
<1> SUFFICES ASSUME NEW a \in EraseRange(address, length)
             PROVE  a \in Addresses /\ In(a, SlotB)
  OBVIOUS
<1>1. DOMAIN mem = Addresses
  BY DEF MemoryTyped
<1>2. CASE target = "F767"
  BY <1>1, <1>2 DEF EraseRange
<1>3. CASE target # "F767"
  <2>1. /\ a \in Addresses
        /\ a \div PageCells \in (address \div PageCells)
              .. (address \div PageCells)
                   + ((length + PageCells - 1) \div PageCells) - 1
    BY <1>1, <1>3 DEF EraseRange
  <2>2. a \in Nat
    BY <2>1, Map DEF Addresses
  <2>3. PICK k \in Nat : /\ SlotB.start = PageCells * (1 + k)
                         /\ SlotB.end = PageCells * (1 + 2 * k)
    BY SlotPages
  <2>4. 1 + k \in Nat /\ 1 + 2 * k \in Nat /\ PageCells \in Nat \ {0}
    BY Map
  <2>5. /\ PageCells * (1 + k) <= address
        /\ address + length <= PageCells * (1 + 2 * k)
    BY <2>3
  <2>6. PageCells * (1 + k) <= a /\ a < PageCells * (1 + 2 * k)
    BY ONLY <2>1, <2>2, <2>4, <2>5, address \in Nat, length \in Nat, ErasedPages
  <2> QED
    BY <2>1, <2>2, <2>3, <2>6, Map DEF In
<1> QED
  BY <1>2, <1>3

\* Filling part of the memory.
LEMMA FilledIs ==
  ASSUME NEW m \in [Addresses -> Cells], NEW range, NEW c \in Cells
  PROVE  /\ Filled(m, range, c) \in [Addresses -> Cells]
         /\ \A a \in Addresses :
               Filled(m, range, c)[a] = IF a \in range THEN c ELSE m[a]
  BY DEF Filled

\* What programming a cell leaves in it.
LEMMA ProgramLeaves ==
  ASSUME NEW old \in Cells, NEW new \in Versions, NEW r \in Program(old, new)
  PROVE  r.cell \in Cells
<1>1. \/ r = [cell |-> old, ok |-> FALSE] \/ r = [cell |-> Torn, ok |-> FALSE]
      \/ r = [cell |-> new, ok |-> TRUE] \/ r = [cell |-> Torn, ok |-> TRUE]
  BY Zenon DEF Program
<1>2. Torn \in Cells /\ new \in Cells
  BY DEF Cells
<1>3. r.cell = old \/ r.cell = Torn \/ r.cell = new
  BY <1>1
<1> QED
  BY <1>2, <1>3

-----------------------------------------------------------------------------
(* What a step may write. *)

MayChange(a) == In(a, SlotB)

\* The memory m is what the present one may be turned into.
Written(m) == /\ m \in [Addresses -> Cells]
              /\ \A a \in Addresses : m[a] = mem[a] \/ MayChange(a)

\* Erasing, or failing to erase, cells that may change.
LEMMA EraseWrites ==
  ASSUME MemoryTyped, NEW range,
         \A a \in range : MayChange(a)
  PROVE  /\ Written(Filled(mem, range, Erased))
         /\ \A m \in HalfErased(mem, range) : Written(m)
<1>1. Erased \in Cells /\ Torn \in Cells
  BY DEF Cells
<1>2. mem \in [Addresses -> Cells]
  BY DEF MemoryTyped
<1>3. Written(Filled(mem, range, Erased)) /\ Written(Filled(mem, range, Torn))
  BY <1>1, <1>2, FilledIs DEF Written
<1>4. Written(mem)
  BY <1>2 DEF Written
<1> QED
  BY <1>3, <1>4 DEF HalfErased

\* Every step leaves a memory of cells, and what it writes lies in slot B.
LEMMA StepWrites ==
  ASSUME IInv, Next
  PROVE  Written(mem')
<1> USE DEF IInv
<1>1. mem' = mem => Written(mem')
  BY DEF Written, MemoryTyped
<1>2. CASE \E r \in Requests : RequestDownload(r[1], r[2]) \/ RequestDownloadFails(r[1], r[2])
  <2>1. PICK r \in Requests : RequestDownload(r[1], r[2]) \/ RequestDownloadFails(r[1], r[2])
    BY <1>2
  <2>2. r[1] \in Addresses /\ r[2] \in Addresses
    BY ProgrammingAssumption DEF Addresses
  <2>3. r[1] \in Nat /\ r[2] \in Nat
    BY <2>2, Map DEF Addresses
  <2>4. Acceptable(r[1], r[2])
    BY <2>1 DEF RequestDownload, RequestDownloadFails
  <2>5. r[1] >= SlotB.start /\ r[1] + r[2] <= SlotB.end
    BY <2>2, <2>4, AcceptedInside
  <2>6. \A a \in EraseRange(r[1], r[2]) : MayChange(a)
    BY <2>3, <2>5, EraseInB DEF MayChange
  <2> QED
    BY <2>1, <2>6, EraseWrites DEF RequestDownload, RequestDownloadFails
<1>3. ASSUME NEW v \in Versions, TransferData(v)
      PROVE  Written(mem')
  <2> DEFINE a == (dl.address + dl.received) % AddrMod
  <2>1. PICK r \in Program(mem[a], v) : mem' = [mem EXCEPT ![a] = r.cell]
    BY <1>3 DEF TransferData
  <2>2. /\ dl.state \in {"ERASING", "RECEIVING"} /\ dl.received < dl.length
    <3>1. Writable(Polled(dl))
      BY <1>3 DEF TransferData
    <3>2. CASE dl.state # "ERASING"
      BY <3>1, <3>2 DEF Polled, Writable, RoomLeft
    <3>3. CASE dl.state = "ERASING"
      <4>1. Polled(dl).state = "RECEIVING" /\ Polled(dl).received < Polled(dl).length
        BY <3>1 DEF Writable, RoomLeft
      <4>2. ~dl.late /\ EraseDone
        BY <4>1, <3>3 DEF Polled, Aborted, Ended, DownloadFresh
      <4>3. Polled(dl) = [dl EXCEPT !.state = "RECEIVING"]
        BY <4>2, <3>3 DEF Polled
      <4> QED
        BY <4>1, <4>3, <3>3 DEF Transfer, TransferTyped, Downloads
    <3> QED
      BY <3>2, <3>3
  <2>3. dl.address \in Nat /\ dl.length \in Nat /\ dl.received \in Nat
    BY Map DEF Transfer, TransferTyped, Downloads, Addresses
  <2>4. dl.address >= SlotB.start /\ dl.address + dl.received < SlotB.end
    BY <2>2, <2>3, Map DEF Transfer, Reserved
  <2>5. a = dl.address + dl.received
    <3>1. dl.address + dl.received \in 0 .. AddrMod - 1
      BY <2>3, <2>4, Map
    <3> QED
      BY <3>1, Fits, Map
  <2>6. a \in Addresses /\ MayChange(a)
    BY <2>3, <2>4, <2>5, Map DEF Addresses, MayChange, In
  <2> HIDE DEF a
  <2>7. r.cell \in Cells
    BY <2>6, ProgramLeaves DEF MemoryTyped
  <2> QED
    BY <2>1, <2>6, <2>7 DEF Written, MemoryTyped
<1>4. CASE EraseMemory
  <2>1. \A a \in EraseRange(SlotB.start, SlotCells) : MayChange(a)
    BY EraseInB, Map DEF MayChange
  <2> QED
    BY <1>4, <2>1, EraseWrites DEF EraseMemory
<1> QED
  BY <1>1, <1>2, <1>3, <1>4
  DEF Next, SessionChange, S3Expires, CheckMemory, TransferExit, TransferRefused,
      DeadlinePasses, ResetOnly, ActivateInPlace, PowerCycle, Confirm,
      ConfirmFails, Rollback

-----------------------------------------------------------------------------
(* The transfer: the server's view of it and the download's. *)

\* A download that is not under way asks nothing of the rest.
LEMMA EndedIdle ==
  ASSUME NEW state \in {"IDLE", "COMPLETE", "ABORTED"}
  PROVE  /\ Ended(state) \in Downloads /\ Ended(state).state = state
         /\ Ended(state).received = 0 /\ Ended(state).length = 0
         /\ Len(Ended(state).crc) = 0
<1>1. 0 \in Addresses /\ 1 \in 0 .. BlockMod - 1
  BY Map, ProgrammingAssumption DEF Addresses
<1> DEFINE d == DownloadFresh
<1>2. d \in Downloads /\ d.received = 0 /\ d.length = 0 /\ d.crc = <<>>
  BY <1>1 DEF DownloadFresh, Downloads, DownloadStates
<1> HIDE DEF d
<1> DEFINE e == [d EXCEPT !.state = state]
<1>3. /\ e \in Downloads /\ e.state = state /\ e.received = 0 /\ e.length = 0
      /\ e.crc = <<>>
  BY <1>2 DEF Downloads, DownloadStates
<1>4. Ended(state) = e
  BY Zenon DEF Ended, d
<1> HIDE DEF e
<1> QED
  BY <1>3, <1>4

\* Polling the erasure ends the download or leaves it with what it was asked for.
LEMMA PolledIs ==
  ASSUME TransferTyped
  PROVE  /\ Polled(dl) \in Downloads
         /\ \/ Polled(dl) = Aborted
            \/ /\ Polled(dl).state = dl.state
                    \/ (dl.state = "ERASING" /\ Polled(dl).state = "RECEIVING")
               /\ Polled(dl).address = dl.address /\ Polled(dl).length = dl.length
               /\ Polled(dl).received = dl.received
               /\ Polled(dl).expected = dl.expected
               /\ Polled(dl).crc = dl.crc /\ Polled(dl).late = dl.late
<1> DEFINE u == [dl EXCEPT !.state = "RECEIVING"]
<1>1. dl \in Downloads
  BY DEF TransferTyped
<1>2. /\ u \in Downloads /\ u.state = "RECEIVING"
      /\ u.address = dl.address /\ u.length = dl.length /\ u.received = dl.received
      /\ u.expected = dl.expected /\ u.crc = dl.crc /\ u.late = dl.late
  BY <1>1 DEF Downloads, DownloadStates
<1> HIDE DEF u
<1>3. Aborted \in Downloads
  BY EndedIdle DEF Aborted
<1>4. \/ dl.state # "ERASING" /\ Polled(dl) = dl
      \/ Polled(dl) = Aborted
      \/ dl.state = "ERASING" /\ Polled(dl) = u
      \/ Polled(dl) = dl
  BY Zenon DEF Polled, u
<1> QED
  BY <1>1, <1>2, <1>3, <1>4

\* The transfer's conditions do not depend on anything but srv and dl.
LEMMA TransferUnchanged ==
  ASSUME Transfer, srv' = srv, dl' = dl
  PROVE  Transfer'
  BY DEF Transfer, TransferTyped, Reserved, BlocksAgree

\* A download that is over, whatever the server takes it for.
LEMMA TransferOver ==
  ASSUME NEW state \in {"IDLE", "COMPLETE", "ABORTED"}, dl' = Ended(state),
         srv' \in Servers
  PROVE  Transfer'
<1>1. /\ dl' \in Downloads /\ dl'.state = state /\ dl'.received = 0
      /\ dl'.length = 0 /\ Len(dl'.crc) = 0
  BY EndedIdle
<1>2. ~(dl'.state \in {"ERASING", "RECEIVING"})
  BY <1>1
<1> QED
  BY <1>1, <1>2 DEF Transfer, TransferTyped, Reserved, BlocksAgree

\* The transfer after a program start.
LEMMA TransferStarts ==
  ASSUME NEW j, Start(j)
  PROVE  Transfer'
<1>1. dl' = Ended("IDLE")
  BY DEF Start, Ended, DownloadFresh
<1>2. 1 \in 0 .. BlockMod - 1
  BY ProgrammingAssumption
<1>3. srv' \in Servers
  BY <1>2 DEF Start, ServerFresh, Servers, Sessions
<1> QED
  BY <1>1, <1>3, TransferOver

\* Closing the transfer for the server only.
LEMMA TransferClosed ==
  ASSUME Transfer, dl' = dl, NEW to \in Sessions, srv' = EndTransfer(srv, to)
  PROVE  Transfer'
<1>1. 1 \in 0 .. BlockMod - 1
  BY ProgrammingAssumption
<1>2. srv' \in Servers /\ ~srv'.active
  BY <1>1 DEF EndTransfer, Servers
<1> QED
  BY <1>2 DEF Transfer, TransferTyped, Reserved, BlocksAgree

\* A block that both sides accept advances both counters.
LEMMA BlockStep ==
  ASSUME Transfer, NEW v \in Versions, TransferData(v)
  PROVE  Transfer'
<1> DEFINE d == Polled(dl)
           n == NextBlock(srv.next)
           u == [d EXCEPT !.received = @ + 1, !.expected = NextBlock(@),
                          !.crc = Append(@, v)]
           w == [srv EXCEPT !.next = NextBlock(@)]
<1>1. Writable(d)
  BY DEF TransferData
<1>2. d.state = "RECEIVING" /\ d.expected = srv.next /\ d.received < d.length
  BY <1>1 DEF Writable, RoomLeft
<1>3. d # Aborted
  BY <1>2, EndedIdle DEF Aborted
<1>4. /\ d \in Downloads /\ d.address = dl.address /\ d.length = dl.length
      /\ d.received = dl.received /\ d.crc = dl.crc
      /\ dl.state \in {"ERASING", "RECEIVING"}
  <2> HIDE DEF d
  <2>1. TransferTyped
    BY DEF Transfer
  <2> QED
    BY <2>1, <1>2, <1>3, PolledIs DEF d
<1>5. \/ dl' = d /\ srv' = srv
      \/ dl' = u /\ srv' = w
  BY DEF TransferData
<1>6. srv \in Servers
  BY DEF Transfer, TransferTyped
<1> HIDE DEF d
<1>7. n \in 0 .. BlockMod - 1
  BY <1>6, ProgrammingAssumption DEF NextBlock, Servers
<1>8. /\ w \in Servers /\ w.next = n
  BY <1>6, <1>7 DEF Servers
<1>9. /\ u \in Downloads /\ u.address = d.address /\ u.length = d.length
      /\ u.received = d.received + 1 /\ u.crc = Append(d.crc, v)
      /\ u.expected = n /\ u.state = "RECEIVING"
  <2> DEFINE c == Append(d.crc, v)
             k == d.received + 1
  <2>1. c \in Seq(Versions) /\ k \in Nat
    BY <1>4 DEF Downloads
  <2>2. u = [d EXCEPT !.received = k, !.expected = n, !.crc = c]
    BY <1>2, Zenon DEF n
  <2> HIDE DEF c, k, n, u
  <2>3. /\ u \in Downloads /\ u.address = d.address /\ u.length = d.length
        /\ u.received = k /\ u.crc = c /\ u.expected = n /\ u.state = d.state
    BY <1>4, <1>7, <2>1, <2>2 DEF Downloads
  <2> QED
    BY <1>2, <2>3 DEF c, k
<1>10. /\ dl.received \in Nat /\ dl.length \in Nat /\ dl.crc \in Seq(Versions)
       /\ Len(dl.crc) = dl.received /\ dl.received < dl.length
  BY <1>2, <1>4, Map DEF Transfer, TransferTyped, Downloads, Addresses
<1>11. dl.address >= SlotB.start /\ dl.address + dl.length <= SlotB.end
  BY <1>4 DEF Transfer, Reserved
<1>12. Len(Append(dl.crc, v)) = dl.received + 1
  BY <1>10
<1> HIDE DEF u, w, n
<1>13. CASE dl' = d /\ srv' = srv
  BY <1>2, <1>4, <1>6, <1>10, <1>11, <1>13
  DEF Transfer, TransferTyped, Reserved, BlocksAgree
<1>14. CASE dl' = u /\ srv' = w
  <2>1. /\ dl' \in Downloads /\ dl'.address = dl.address /\ dl'.length = dl.length
        /\ dl'.received = dl.received + 1 /\ Len(dl'.crc) = dl.received + 1
        /\ dl'.expected = n
    BY <1>4, <1>9, <1>12, <1>14
  <2>2. srv' \in Servers /\ srv'.next = n
    BY <1>8, <1>14
  <2> QED
    BY <2>1, <2>2, <1>10, <1>11
    DEF Transfer, TransferTyped, Reserved, BlocksAgree
<1> QED
  BY <1>5, <1>13, <1>14

\* Every step keeps the transfer's two sides in agreement and its range in slot B.
LEMMA StepTransfer ==
  ASSUME IInv, Next
  PROVE  Transfer'
<1>1. Transfer /\ TransferTyped /\ srv \in Servers /\ dl \in Downloads
  BY DEF IInv, Transfer, TransferTyped
<1>2. srv' = srv /\ dl' = dl => Transfer'
  BY <1>1, TransferUnchanged
<1>3. CASE \E to \in Sessions : SessionChange(to)
  BY <1>1, <1>3, TransferClosed DEF SessionChange
<1>4. CASE S3Expires
  BY <1>1, <1>4, TransferClosed DEF S3Expires, Sessions
<1>5. ASSUME NEW r \in Requests, RequestDownload(r[1], r[2])
      PROVE  Transfer'
  <2>1. r[1] \in Addresses /\ r[2] \in Addresses
    BY ProgrammingAssumption DEF Addresses
  <2>2. r[1] >= SlotB.start /\ r[1] + r[2] <= SlotB.end
    BY <2>1, <1>5, AcceptedInside DEF RequestDownload
  <2>3. 1 \in 0 .. BlockMod - 1
    BY ProgrammingAssumption
  <2>4. /\ dl' \in Downloads /\ dl'.address = r[1] /\ dl'.length = r[2]
        /\ dl'.received = 0 /\ dl'.expected = 1 /\ dl'.crc = <<>>
    BY <2>1, <2>3, <1>5 DEF RequestDownload, Downloads, DownloadStates
  <2>5. srv' \in Servers /\ srv'.next = 1
    BY <2>3, <1>1, <1>5 DEF RequestDownload, Servers
  <2>6. 0 <= r[2]
    BY <2>1, Map DEF Addresses
  <2> QED
    BY <2>2, <2>4, <2>5, <2>6 DEF Transfer, TransferTyped, Reserved, BlocksAgree
<1>6. ASSUME NEW r \in Requests, RequestDownloadFails(r[1], r[2])
      PROVE  Transfer'
  BY <1>2, <1>6 DEF RequestDownloadFails
<1>7. ASSUME NEW v \in Versions, TransferData(v)
      PROVE  Transfer'
  BY <1>1, <1>7, BlockStep
<1>8. ASSUME NEW claim \in BOOLEAN, TransferExit(claim)
      PROVE  Transfer'
  <2>1. dl' = Ended("COMPLETE") \/ dl' = Ended("ABORTED")
    BY <1>8 DEF TransferExit, ExitResult, Aborted
  <2>2. srv' \in Servers
    <3>1. (~Finishes(claim)) \in BOOLEAN
      BY Zenon DEF Finishes
    <3> QED
      BY <1>1, <1>8, <3>1 DEF TransferExit, Servers
  <2> QED
    BY <2>1, <2>2, TransferOver
<1>9. CASE TransferRefused
  <2>1. srv' = srv /\ (dl' = Aborted \/ dl' = Polled(dl))
    BY <1>9 DEF TransferRefused
  <2>2. CASE dl' = Aborted
    BY <2>1, <2>2, <1>1, TransferOver DEF Aborted
  <2>3. CASE dl' # Aborted
    <3> DEFINE d == Polled(dl)
    <3>1. /\ d \in Downloads
          /\ d.state = dl.state \/ (dl.state = "ERASING" /\ d.state = "RECEIVING")
          /\ d.address = dl.address /\ d.length = dl.length
          /\ d.received = dl.received /\ d.expected = dl.expected
          /\ d.crc = dl.crc /\ d.late = dl.late
      BY <2>1, <2>3, <1>1, PolledIs
    <3> HIDE DEF d
    <3>2. dl' = d
      BY <2>1, <2>3 DEF d
    <3> QED
      BY <3>1, <3>2, <2>1, <1>1 DEF Transfer, TransferTyped, Reserved, BlocksAgree
  <2> QED
    BY <2>2, <2>3
<1>10. CASE DeadlinePasses
  <2>1. /\ dl' \in Downloads /\ dl'.state = dl.state
        /\ dl'.address = dl.address /\ dl'.length = dl.length
        /\ dl'.received = dl.received /\ dl'.expected = dl.expected
        /\ dl'.crc = dl.crc /\ srv' = srv
    BY <1>1, <1>10 DEF DeadlinePasses, Downloads
  <2> QED
    BY <2>1, <1>1 DEF Transfer, TransferTyped, Reserved, BlocksAgree
<1>11. ASSUME NEW j, Start(j)
       PROVE  Transfer'
  BY <1>11, TransferStarts
<1>12. CASE ResetOnly \/ PowerCycle
  BY <1>11, <1>12 DEF ResetOnly, PowerCycle, StartAgain
<1>13. CASE ActivateInPlace
  BY <1>11, <1>13 DEF ActivateInPlace, ActivateAndStart
<1>14. CASE EraseMemory \/ (\E v \in Versions : CheckMemory(v))
  BY <1>2, <1>14 DEF EraseMemory, CheckMemory
<1>15. CASE Confirm \/ ConfirmFails \/ Rollback
  BY <1>2, <1>15 DEF Confirm, ConfirmFails, Rollback
<1> QED
  BY <1>3, <1>4, <1>5, <1>6, <1>7, <1>8, <1>9, <1>10, <1>12, <1>13, <1>14, <1>15
  DEF Next

-----------------------------------------------------------------------------
(* The bootloader: candidate, journal, floor and attempts. *)

\* What a start makes of the record it finds.
LEMMA RecordedIs ==
  ASSUME NEW j \in Records
  PROVE  /\ Recorded(j) \in Records /\ Recorded(j).version = j.version
         /\ Recorded(j).status = "ACTIVE" =>
              /\ j.status = "ACTIVE" /\ Recorded(j).attempts = j.attempts + 1
              /\ Recorded(j).attempts <= MaxAttempts
<1>1. j.attempts \in 0 .. MaxAttempts + 1 /\ MaxAttempts = 3
  BY DEF Records, MaxAttempts
<1>2. CASE j.status # "ACTIVE"
  BY <1>2 DEF Recorded
<1>3. CASE j.status = "ACTIVE" /\ j.attempts + 1 > MaxAttempts
  <2>1. Recorded(j) = Withdrawn(j)
    BY <1>3 DEF Recorded
  <2> QED
    BY <2>1, <1>1 DEF Withdrawn, Records
<1>4. CASE j.status = "ACTIVE" /\ ~(j.attempts + 1 > MaxAttempts)
  <2>1. Recorded(j) = [version |-> j.version, status |-> "ACTIVE",
                       attempts |-> j.attempts + 1]
    BY <1>4 DEF Recorded
  <2> QED
    BY <2>1, <1>1, <1>4 DEF Records
<1> QED
  BY <1>2, <1>3, <1>4

\* Versions are numbers.
LEMMA VersionsNat ==
  \A v \in Versions \cup {0, 1} : v \in Nat
  BY ProgrammingAssumption

\* The state of the bootloader before it looks at the journal.
LEMMA BootFreshTyped ==
  /\ BootFresh \in Loaders /\ BootFresh.verified = FALSE
  /\ BootFresh.meta.version = 0 /\ BootFresh.meta.status = "CONFIRMED"
  BY DEF BootFresh, Loaders, Records, MaxAttempts

\* What uds_bootloader_init() makes of the bootloader's state.
LEMMA RestoredIs ==
  ASSUME NEW j \in Records, NEW saved \in Records, j.version # 0
  PROVE  /\ Restored(j, saved) \in Loaders /\ Restored(j, saved).verified = FALSE
         /\ Restored(j, saved).meta = saved
<1> DEFINE b == BootFresh
           v == IF j.status = "ACTIVE" /\ saved.status = "ROLLBACK" THEN 1 ELSE j.version
           u == [b EXCEPT !.meta = saved, !.active_version = v]
<1>1. j # NoRecord
  BY DEF NoRecord
<1>2. Restored(j, saved) = u
  BY <1>1 DEF Restored
<1>3. v \in Versions \cup {1}
  BY DEF Records
<1>4. b \in Loaders /\ b.verified = FALSE
  BY BootFreshTyped
<1> HIDE DEF b, v
<1>5. u \in Loaders /\ u.verified = FALSE /\ u.meta = saved
  BY <1>3, <1>4 DEF Loaders
<1> QED
  BY <1>2, <1>5

\* A program start on a record that the journal can hold, with the attempts
\* counted so far.
LEMMA BootStarts ==
  ASSUME HistoryTyped, FloorCovers, UNCHANGED <<build, confirmed>>,
         NEW j \in Records, j = NoRecord \/ (journaled /\ j.version # 0),
         Start(j), trial' \in 0 .. MaxAttempts,
         Recorded(j).status = "ACTIVE" => trial' = j.attempts,
         target = "C092" => j.status # "ACTIVE"
  PROVE  Booting'
<1> DEFINE r == Recorded(j)
<1>1. /\ r \in Records /\ r.version = j.version
      /\ r.status = "ACTIVE" => /\ j.status = "ACTIVE" /\ r.attempts = j.attempts + 1
                                /\ r.attempts <= MaxAttempts
  BY RecordedIs
<1>2. journal' = r /\ bl' = Booted(j, r) /\ floor' = [ram |-> floor.stored, stored |-> floor.stored]
  BY DEF Start
<1>3. journaled' = journaled /\ target' = target /\ confirmed' = confirmed
  BY DEF build
<1>0. j = NoRecord => r = NoRecord
  BY DEF Recorded, NoRecord
<1> HIDE DEF r
<1>4. HistoryTyped' /\ FloorCovers'
  <2>1. /\ floor \in Floors /\ confirmed \in Versions \cup {0}
        /\ confirmed <= floor.ram /\ floor.ram <= floor.stored
    BY DEF HistoryTyped, FloorCovers
  <2>2. floor.ram \in Nat /\ floor.stored \in Nat /\ confirmed \in Nat
    BY <2>1, VersionsNat DEF Floors
  <2>3. floor' \in Floors /\ floor'.ram = floor.stored /\ floor'.stored = floor.stored
    BY <2>1, <1>2 DEF Floors
  <2> QED
    BY <2>1, <2>2, <2>3, <1>3 DEF HistoryTyped, FloorCovers
<1>5. CASE j = NoRecord \/ target = "C092"
  <2>1. bl' = BootFresh
    BY <1>0, <1>2, <1>5 DEF Booted, Restored
  <2>2. /\ bl' \in Loaders /\ ~bl'.verified /\ bl'.meta.version = 0
        /\ bl'.meta.status = "CONFIRMED"
    BY <2>1, BootFreshTyped
  <2>3. BootTyped' /\ OnTrial' /\ VerifiedIsNew'
    BY <1>1, <1>2, <2>2 DEF BootTyped, OnTrial, VerifiedIsNew
  <2>4. r = NoRecord \/ (journaled /\ r.version # 0)
    BY <1>0, <1>1
  <2>5. target = "C092" => r.status # "ACTIVE"
    BY <1>1
  <2>6. target # "C092" => r = NoRecord
    BY <1>0, <1>5
  <2>7. Saved(bl.meta)' = NoRecord
    BY <2>2 DEF Saved
  <2>8. JournalCurrent'
    BY <1>2, <1>3, <2>2, <2>4, <2>5, <2>6, <2>7 DEF JournalCurrent
  <2> QED
    BY <1>4, <2>3, <2>8 DEF Booting
<1>6. CASE j # NoRecord /\ target # "C092"
  <2>0. journaled /\ j.version # 0
    BY <1>6
  <2>1. bl' \in Loaders /\ bl'.verified = FALSE /\ bl'.meta = r
    BY <1>1, <1>2, <1>6, <2>0, RestoredIs DEF Booted
  <2>2. BootTyped' /\ VerifiedIsNew'
    BY <1>1, <1>2, <2>1 DEF BootTyped, VerifiedIsNew
  <2>3. JournalCurrent'
    BY <1>1, <1>2, <1>3, <1>6, <2>0, <2>1 DEF JournalCurrent, Saved
  <2>4. OnTrial'
    <3>1. j.attempts \in Nat
      BY DEF Records, MaxAttempts
    <3>2. r.status = "ACTIVE" => trial' = j.attempts
      BY DEF r
    <3> QED
      BY <1>1, <1>3, <2>0, <2>1, <3>1, <3>2 DEF OnTrial
  <2> QED
    BY <1>4, <2>2, <2>3, <2>4 DEF Booting
<1> QED
  BY <1>5, <1>6

\* A start on the journal as it is.
LEMMA StartsAgain ==
  ASSUME Booting, StartAgain, UNCHANGED <<build, confirmed>>
  PROVE  Booting'
<1>1. /\ HistoryTyped /\ FloorCovers /\ bl \in Loaders /\ journal \in Records
      /\ JournalCurrent /\ OnTrial /\ trial \in 0 .. MaxAttempts
  BY DEF Booting, BootTyped, HistoryTyped
<1>2. /\ journal = NoRecord \/ (journaled /\ journal.version # 0)
      /\ target = "C092" => journal.status # "ACTIVE"
  BY <1>1 DEF JournalCurrent
<1>3. Start(journal)
  BY DEF StartAgain
<1>4. Recorded(journal).status = "ACTIVE" => trial' = journal.attempts
  <2> HAVE Recorded(journal).status = "ACTIVE"
  <2>1. journal.status = "ACTIVE"
    BY <1>1, RecordedIs
  <2>2. journal = bl.meta
    BY <1>1, <1>2, <2>1 DEF JournalCurrent, Saved, NoRecord
  <2>3. journal.attempts = trial + 1 /\ journal.attempts <= MaxAttempts
    BY <1>1, <2>1, <2>2 DEF OnTrial
  <2>4. trial' = IF trial < MaxAttempts THEN trial + 1 ELSE trial
    BY DEF StartAgain
  <2> QED
    BY <1>1, <2>3, <2>4 DEF MaxAttempts
<1>5. trial' \in 0 .. MaxAttempts
  BY <1>1 DEF StartAgain, MaxAttempts
<1> QED
  BY <1>1, <1>2, <1>3, <1>4, <1>5, BootStarts

\* The first start of an image that was just activated.
LEMMA StartsFirst ==
  ASSUME Booting, target = "F767", ActivateAndStart
  PROVE  Booting'
<1> DEFINE w == Activated(bl.meta.version)
           j == Saved(w)
<1>1. HistoryTyped /\ FloorCovers /\ bl \in Loaders
  BY DEF Booting, BootTyped
<1>2. w \in Records /\ w.attempts = 1 /\ NoRecord \in Records
  BY <1>1 DEF Loaders, Records, Activated, NoRecord, MaxAttempts
<1>3. j = NoRecord \/ (j = w /\ journaled /\ w.version # 0)
  BY DEF Saved
<1>4. Start(j) /\ trial' = 1 /\ UNCHANGED <<build, confirmed>>
  BY DEF ActivateAndStart
<1> HIDE DEF w, j
<1>5. j \in Records /\ (j = NoRecord \/ (journaled /\ j.version # 0))
  BY <1>2, <1>3
<1>6. Recorded(j).status = "ACTIVE" => trial' = j.attempts
  <2> HAVE Recorded(j).status = "ACTIVE"
  <2>1. j.status = "ACTIVE"
    BY <1>5, RecordedIs
  <2>2. j = w
    BY <2>1, <1>3 DEF NoRecord
  <2> QED
    BY <2>2, <1>2, <1>4
<1>7. trial' \in 0 .. MaxAttempts
  BY <1>4 DEF MaxAttempts
<1> QED
  BY <1>1, <1>4, <1>5, <1>6, <1>7, BootStarts

\* A step that writes the journal and does not activate leaves it current.
LEMMA JournalWritten ==
  ASSUME UNCHANGED build, journal' = Saved(bl'.meta), bl'.meta.status # "ACTIVE"
  PROVE  JournalCurrent' /\ OnTrial'
<1> DEFINE m == bl'.meta
<1>1. target' = target /\ journaled' = journaled
  BY DEF build
<1>2. journal' = IF journaled /\ m.version # 0 THEN m ELSE NoRecord
  BY DEF Saved
<1>3. NoRecord.status # "ACTIVE" /\ m.status # "ACTIVE"
  BY DEF NoRecord
<1>4. journal'.status # "ACTIVE"
  BY <1>2, <1>3
<1>5. Saved(bl.meta)' = journal'
  BY <1>1, <1>2 DEF Saved
<1>6. journal' = NoRecord \/ (journaled' /\ journal'.version # 0)
  BY <1>1, <1>2
<1> QED
  BY <1>3, <1>4, <1>5, <1>6 DEF JournalCurrent, OnTrial

\* A step that changes flags of the bootloader only, and verifies nothing.
LEMMA BootFlags ==
  ASSUME Booting, UNCHANGED <<build, journal, floor, history>>,
         bl' \in Loaders, bl'.meta = bl.meta, bl'.verified => bl.verified
  PROVE  Booting'
<1>1. /\ target' = target /\ journaled' = journaled /\ journal' = journal
      /\ floor' = floor /\ confirmed' = confirmed /\ trial' = trial
  BY DEF build, history
<1>2. BootTyped' /\ HistoryTyped' /\ FloorCovers'
  BY <1>1 DEF Booting, BootTyped, HistoryTyped, FloorCovers
<1>3. JournalCurrent' /\ OnTrial'
  BY <1>1 DEF Booting, JournalCurrent, OnTrial, Saved
<1>4. VerifiedIsNew'
  BY <1>1 DEF Booting, VerifiedIsNew
<1> QED
  BY <1>2, <1>3, <1>4 DEF Booting

\* Every step keeps journal, attempts, floor and candidate consistent.
LEMMA StepBooting ==
  ASSUME IInv, Next
  PROVE  Booting'
<1>1. /\ Booting /\ bl \in Loaders /\ journal \in Records /\ bl.meta \in Records
      /\ floor \in Floors /\ confirmed \in Versions \cup {0}
      /\ floor.ram \in Versions \cup {0} /\ floor.stored \in Versions \cup {0}
      /\ bl.meta.version \in Versions \cup {0} /\ bl.active_version \in Versions \cup {1}
  BY DEF IInv, Booting, BootTyped, HistoryTyped, Loaders, Floors, Records
<1>2. /\ floor.ram \in Nat /\ floor.stored \in Nat /\ confirmed \in Nat
      /\ bl.meta.version \in Nat /\ bl.active_version \in Nat
      /\ confirmed <= floor.ram /\ floor.ram <= floor.stored
  BY <1>1, VersionsNat DEF Booting, FloorCovers
<1>3. UNCHANGED <<build, bl, journal, floor, history>> => Booting'
  BY <1>1, BootFlags
<1>4. CASE \/ \E to \in Sessions : SessionChange(to)
           \/ \E v \in Versions : TransferData(v)
           \/ \E r \in Requests : RequestDownloadFails(r[1], r[2])
           \/ S3Expires \/ TransferRefused \/ DeadlinePasses
  BY <1>3, <1>4 DEF SessionChange, TransferData, RequestDownloadFails, S3Expires,
                    TransferRefused, DeadlinePasses
<1>5. ASSUME NEW r \in Requests, RequestDownload(r[1], r[2])
      PROVE  Booting'
  <2>1. bl' \in Loaders /\ bl'.meta = bl.meta /\ ~bl'.verified
    BY <1>1, <1>5 DEF RequestDownload, Loaders
  <2> QED
    BY <1>1, <1>5, <2>1, BootFlags DEF RequestDownload
<1>6. ASSUME NEW claim \in BOOLEAN, TransferExit(claim)
      PROVE  Booting'
  <2>1. bl' \in Loaders /\ bl'.meta = bl.meta /\ bl'.verified = bl.verified
    BY <1>1, <1>6 DEF TransferExit, Loaders
  <2> QED
    BY <1>1, <1>6, <2>1, BootFlags DEF TransferExit
<1>7. CASE EraseMemory
  <2>1. bl' = [bl EXCEPT !.erase_ok = TRUE] \/ bl' = [bl EXCEPT !.erase_ok = FALSE]
    BY <1>7 DEF EraseMemory
  <2>2. bl' \in Loaders /\ bl'.meta = bl.meta /\ bl'.verified = bl.verified
    BY <1>1, <2>1 DEF Loaders
  <2> QED
    BY <1>1, <1>7, <2>2, BootFlags DEF EraseMemory
<1>8. ASSUME NEW v \in Versions, CheckMemory(v)
      PROVE  Booting'
  <2> DEFINE c == [version |-> v, status |-> "CANDIDATE", attempts |-> 0]
  <2>1. c \in Records /\ c.version = v /\ c.status = "CANDIDATE" /\ v \in Nat
    BY VersionsNat DEF Records, MaxAttempts
  <2>2. /\ bl' = [bl EXCEPT !.verified = TRUE, !.meta = c]
        /\ journal' = Saved(bl'.meta) /\ trial' = 0
        /\ floor' = floor /\ confirmed' = confirmed /\ journaled' = journaled
        /\ v >= VersionFloor
    BY <1>8 DEF CheckMemory, build
  <2> HIDE DEF c
  <2>3. bl' \in Loaders /\ bl'.meta = c
    BY <1>1, <2>1, <2>2 DEF Loaders
  <2>4. journal' = c \/ journal' = NoRecord
    BY <2>2, <2>3 DEF Saved
  <2>5. BootTyped' /\ HistoryTyped' /\ FloorCovers'
    <3>1. NoRecord \in Records /\ 0 \in 0 .. MaxAttempts
      BY DEF NoRecord, Records, MaxAttempts
    <3> QED
      BY <1>1, <1>2, <2>1, <2>2, <2>3, <2>4, <3>1
      DEF BootTyped, HistoryTyped, FloorCovers
  <2>6. JournalCurrent' /\ OnTrial'
    BY <1>8, <2>1, <2>2, <2>3, JournalWritten DEF CheckMemory
  <2>7. v >= confirmed
    BY <1>2, <2>1, <2>2 DEF VersionFloor
  <2>8. VerifiedIsNew'
    BY <2>1, <2>2, <2>3, <2>7 DEF VerifiedIsNew
  <2> QED
    BY <2>5, <2>6, <2>8 DEF Booting
<1>9. CASE Confirm
  <2> DEFINE v == bl.meta.version
             m == [bl.meta EXCEPT !.status = "CONFIRMED", !.attempts = 0]
  <2>1. /\ bl.meta.status = "ACTIVE"
        /\ floor' = IF v <= floor.ram THEN floor ELSE [ram |-> v, stored |-> v]
        /\ bl' = [bl EXCEPT !.meta.status = "CONFIRMED", !.meta.attempts = 0]
        /\ journal' = Saved(bl'.meta)
        /\ confirmed' = IF v > confirmed THEN v ELSE confirmed
        /\ trial' = 0 /\ journaled' = journaled
    BY <1>9 DEF Confirm, build
  <2>2. m \in Records /\ m.status = "CONFIRMED" /\ m.version = v
    <3> DEFINE o == bl.meta
    <3>1. o \in Records /\ 0 \in 0 .. MaxAttempts + 1
      BY <1>1 DEF MaxAttempts
    <3> HIDE DEF o
    <3>2. \A e \in Records : e = [o EXCEPT !.status = "CONFIRMED", !.attempts = 0]
                             => e.status = "CONFIRMED" /\ e.version = o.version
      BY <3>1 DEF Records
    <3>3. [o EXCEPT !.status = "CONFIRMED", !.attempts = 0] \in Records
      BY <3>1 DEF Records
    <3> QED
      BY <3>2, <3>3 DEF o
  <2>3. bl' = [bl EXCEPT !.meta = m]
    BY <2>1, <1>1 DEF Loaders, Records
  <2> HIDE DEF m
  <2>4. bl' \in Loaders /\ bl'.meta = m /\ bl'.verified = bl.verified
    BY <1>1, <2>2, <2>3 DEF Loaders
  <2>5. ~bl.verified
    BY <1>1, <2>1 DEF Booting, VerifiedIsNew
  <2>6. BootTyped'
    <3>1. NoRecord \in Records
      BY DEF NoRecord, Records, MaxAttempts
    <3> QED
      BY <2>1, <2>2, <2>4, <3>1 DEF BootTyped, Saved
  <2>7. /\ floor' \in Floors
        /\ floor'.ram = IF v <= floor.ram THEN floor.ram ELSE v
        /\ floor'.stored = IF v <= floor.ram THEN floor.stored ELSE v
    BY <1>1, <2>1 DEF Floors
  <2>8. HistoryTyped' /\ FloorCovers'
    <3>1. confirmed' \in Versions \cup {0} /\ trial' \in 0 .. MaxAttempts
      BY <1>1, <2>1 DEF MaxAttempts
    <3> QED
      BY <1>2, <2>1, <2>7, <3>1 DEF HistoryTyped, FloorCovers
  <2>9. JournalCurrent' /\ OnTrial' /\ VerifiedIsNew'
    <3>1. VerifiedIsNew'
      BY <2>4, <2>5 DEF VerifiedIsNew
    <3> QED
      BY <1>9, <2>1, <2>2, <2>4, <3>1, JournalWritten DEF Confirm
  <2> QED
    BY <2>6, <2>8, <2>9 DEF Booting
<1>10. CASE ConfirmFails
  <2>1. /\ bl' = bl /\ journal' = journal /\ confirmed' = confirmed /\ trial' = trial
        /\ target' = target /\ journaled' = journaled /\ bl.meta.version > floor.ram
        /\ floor' = floor \/ floor' = [floor EXCEPT !.stored = bl.meta.version]
    BY <1>10 DEF ConfirmFails, build, history
  <2>2. /\ floor' \in Floors /\ floor'.ram = floor.ram
        /\ floor'.stored = floor.stored \/ floor'.stored = bl.meta.version
    BY <1>1, <2>1 DEF Floors
  <2>3. HistoryTyped' /\ FloorCovers'
    BY <1>1, <1>2, <2>1, <2>2 DEF Booting, HistoryTyped, FloorCovers
  <2> QED
    BY <1>1, <2>1, <2>3
    DEF Booting, BootTyped, JournalCurrent, Saved, OnTrial, VerifiedIsNew
<1>11. CASE Rollback
  <2> DEFINE w == Withdrawn(bl.meta)
  <2>1. w \in Records /\ w.status = "ROLLBACK" /\ NoRecord \in Records
    BY <1>1 DEF Withdrawn, NoRecord, Records, MaxAttempts
  <2>2. /\ bl' = [bl EXCEPT !.meta = w, !.active_version = 1, !.verified = FALSE]
        /\ journal' = Saved(bl'.meta) /\ trial' = 0
        /\ floor' = floor /\ confirmed' = confirmed /\ journaled' = journaled
    BY <1>11 DEF Rollback, build
  <2> HIDE DEF w
  <2>3. bl' \in Loaders /\ bl'.meta = w /\ ~bl'.verified
    BY <1>1, <2>1, <2>2 DEF Loaders
  <2>4. BootTyped' /\ VerifiedIsNew'
    BY <2>1, <2>2, <2>3 DEF BootTyped, Saved, VerifiedIsNew
  <2>5. HistoryTyped' /\ FloorCovers'
    BY <1>1, <1>2, <2>2 DEF HistoryTyped, FloorCovers, MaxAttempts
  <2>6. JournalCurrent' /\ OnTrial'
    BY <1>11, <2>1, <2>2, <2>3, JournalWritten DEF Rollback
  <2> QED
    BY <2>4, <2>5, <2>6 DEF Booting
<1>12. CASE ResetOnly \/ PowerCycle
  BY <1>1, <1>12, StartsAgain DEF ResetOnly, PowerCycle
<1>13. CASE ActivateInPlace
  <2>1. target = "F767" /\ ActivateAndStart
    BY <1>13 DEF ActivateInPlace
  <2> QED
    BY <1>1, <2>1, StartsFirst
<1> QED
  BY <1>4, <1>5, <1>6, <1>7, <1>8, <1>9, <1>10, <1>11, <1>12, <1>13 DEF Next

-----------------------------------------------------------------------------
(* The theorems. *)

\* The initial state, and every step, keep the invariant.
LEMMA InitIInv ==
  ASSUME Init
  PROVE  IInv
<1> USE DEF Init
<1>1. Building
  BY DEF Building
<1>2. MemoryTyped
  <2>1. 1 \in Cells /\ Erased \in Cells /\ Other \in Cells
    BY ProgrammingAssumption DEF Cells
  <2> QED
    BY <2>1 DEF MemoryTyped, Addresses
<1>3. Transfer
  <2>1. 1 \in 0 .. BlockMod - 1 /\ 0 \in Addresses
    BY ProgrammingAssumption, Map DEF Addresses
  <2>2. srv \in Servers
    BY <2>1 DEF ServerFresh, Servers, Sessions
  <2>3. /\ dl \in Downloads /\ dl.state = "IDLE" /\ dl.received = 0
        /\ dl.length = 0 /\ dl.crc = <<>>
    BY <2>1 DEF DownloadFresh, Downloads, DownloadStates
  <2> QED
    BY <2>2, <2>3 DEF Transfer, TransferTyped, Reserved, BlocksAgree
<1>4. Booting
  <2>1. /\ bl \in Loaders /\ bl.verified = FALSE /\ bl.meta.version = 0
        /\ bl.meta.status = "CONFIRMED"
    BY BootFreshTyped
  <2>2. journal \in Records /\ journal = NoRecord /\ NoRecord.status # "ACTIVE"
    BY DEF NoRecord, Records, MaxAttempts
  <2>3. HistoryTyped /\ FloorCovers
    BY DEF HistoryTyped, Floors, MaxAttempts, FloorCovers
  <2>4. JournalCurrent
    BY <2>1, <2>2 DEF JournalCurrent, Saved
  <2> QED
    BY <2>1, <2>2, <2>3, <2>4 DEF Booting, BootTyped, OnTrial, VerifiedIsNew
<1> QED
  BY <1>1, <1>2, <1>3, <1>4 DEF IInv

\* Every step keeps the invariant.
LEMMA StepIInv ==
  ASSUME IInv, [Next]_vars
  PROVE  IInv'
<1>1. CASE Next
  <2>1. MemoryTyped'
    BY <1>1, StepWrites DEF Written, MemoryTyped
  <2>2. Building'
    <3>1. UNCHANGED build
      BY <1>1
      DEF Next, SessionChange, S3Expires, RequestDownload, RequestDownloadFails,
          TransferData, CheckMemory, TransferExit, TransferRefused,
          DeadlinePasses, EraseMemory, ResetOnly, ActivateInPlace,
          ActivateAndStart, PowerCycle, Confirm, ConfirmFails, Rollback
    <3> QED
      BY <3>1 DEF build, IInv, Building
  <2> QED
    BY <1>1, <2>1, <2>2, StepTransfer, StepBooting DEF IInv
<1>2. CASE UNCHANGED vars
  <2>1. /\ target' = target /\ journaled' = journaled /\ mem' = mem
        /\ srv' = srv /\ dl' = dl
        /\ UNCHANGED <<build, bl, journal, floor, history>>
    BY <1>2 DEF vars, build, history
  <2>2. Booting'
    BY <2>1, BootFlags DEF IInv, Booting, BootTyped
  <2> QED
    BY <2>1, <2>2, TransferUnchanged DEF IInv, Building, MemoryTyped
<1> QED
  BY <1>1, <1>2

\* The invariant of a reprogramming holds in every reachable state.
THEOREM InvariantHolds == Spec => []IInv
<1>1. Init => IInv
  BY InitIInv
<1>2. IInv /\ [Next]_vars => IInv'
  BY StepIInv
<1> QED
  BY <1>1, <1>2, PTL DEF Spec

\* Everything keeps its type, and no more cells are programmed than
\* RequestDownload announced.
THEOREM TypeCorrect == Spec => []TypeOK
<1>1. IInv => TypeOK
  <2> SUFFICES ASSUME IInv
               PROVE  TypeOK
    OBVIOUS
  <2>1. dl \in Downloads /\ dl.received <= dl.length /\ Len(dl.crc) = dl.received
    BY DEF IInv, Transfer, TransferTyped
  <2>2. dl.length \in 0 .. AddrMod - 1 /\ dl.received \in Nat
    BY <2>1 DEF Downloads, Addresses
  <2>3. dl.received \in 0 .. dl.length
    BY <2>1, <2>2, Map
  <2>4. /\ dl.state \in DownloadStates /\ dl.address \in Addresses
        /\ dl.expected \in 0 .. BlockMod - 1 /\ dl.late \in BOOLEAN
    BY <2>1 DEF Downloads
  <2> QED
    BY <2>1, <2>2, <2>3, <2>4, Zenon
    DEF IInv, Building, MemoryTyped, Transfer, TransferTyped, Servers, Booting,
        BootTyped, HistoryTyped, Loaders, Floors, DownloadStates, Addresses, TypeOK
<1> QED
  BY <1>1, InvariantHolds, PTL

\* The two block counters agree while a transfer can go on.
THEOREM BlocksAlwaysAgree == Spec => []BlocksAgree
<1>1. IInv => BlocksAgree
  BY DEF IInv, Transfer
<1> QED
  BY <1>1, InvariantHolds, PTL

\* An image is started fewer than MaxAttempts times before it is confirmed or
\* withdrawn.
THEOREM TrialAlwaysBounded == Spec => []TrialBounded
<1>1. IInv => TrialBounded
  BY DEF IInv, Booting, HistoryTyped, OnTrial, TrialBounded, MaxAttempts
<1> QED
  BY <1>1, InvariantHolds, PTL

\* Whatever is requested, only slot B is written.
THEOREM AlwaysStaysInSlotB == Spec => StaysInSlotB
<1> DEFINE Step == \A a \in DOMAIN mem : mem'[a] = mem[a] \/ In(a, SlotB)
<1>1. IInv /\ [Next]_vars => [Step]_vars
  <2> SUFFICES ASSUME IInv, Next
               PROVE  Step
    OBVIOUS
  <2>1. DOMAIN mem = Addresses
    BY DEF IInv, MemoryTyped
  <2> QED
    BY <2>1, StepWrites DEF Written, MayChange
<1> QED
  BY <1>1, InvariantHolds, PTL DEF Spec, StaysInSlotB

\* A completed download is in the flash as it was sent.
THEOREM ExitAlwaysMeansStored == Spec => ExitMeansStored
<1> DEFINE Step == dl.state # "COMPLETE" /\ dl'.state = "COMPLETE" =>
                      /\ Len(dl.crc) = dl.length
                      /\ \A i \in 1 .. dl.length : mem'[dl.address + i - 1] = dl.crc[i]
<1>1. IInv /\ [Next]_vars => [Step]_vars
  <2> SUFFICES ASSUME IInv, Next, dl.state # "COMPLETE", dl'.state = "COMPLETE"
               PROVE  Step
    OBVIOUS
  <2>1. /\ dl \in Downloads /\ Len(dl.crc) = dl.received
    BY DEF IInv, Transfer, TransferTyped
  <2>2. Aborted.state = "ABORTED" /\ Ended("IDLE").state = "IDLE"
    BY EndedIdle DEF Aborted
  <2>3. Polled(dl).state # "COMPLETE"
    BY <2>2, PolledIs DEF IInv, Transfer
  <2>4. \E claim \in BOOLEAN : TransferExit(claim)
    <3>1. dl' # dl /\ dl' # Polled(dl) /\ dl' # Aborted
      BY <2>2, <2>3
    <3>2. ~TransferRefused
      BY <3>1 DEF TransferRefused
    <3>3. \A v \in Versions : ~TransferData(v)
      <4> SUFFICES ASSUME NEW v \in Versions, TransferData(v)
                   PROVE  FALSE
        OBVIOUS
      <4> DEFINE d == Polled(dl)
                 u == [d EXCEPT !.received = @ + 1, !.expected = NextBlock(@),
                                !.crc = Append(@, v)]
      <4>1. dl' = u
        BY <3>1 DEF TransferData
      <4>2. d \in Downloads
        BY PolledIs DEF IInv, Transfer
      <4> HIDE DEF d
      <4>3. u.state = d.state
        BY <4>2 DEF Downloads
      <4> QED
        BY <4>1, <4>3, <2>3 DEF d
    <3>4. ~DeadlinePasses
      BY <2>1 DEF DeadlinePasses, Downloads
    <3>5. \A r \in Requests : ~RequestDownload(r[1], r[2])
      BY DEF RequestDownload
    <3>6. \A j : ~Start(j)
      BY DEF Start, DownloadFresh
    <3>7. ~(ResetOnly \/ PowerCycle \/ ActivateInPlace)
      BY <3>6 DEF ResetOnly, PowerCycle, StartAgain,
                  ActivateInPlace, ActivateAndStart
    <3> QED
      BY <3>1, <3>2, <3>3, <3>4, <3>5, <3>7
      DEF Next, SessionChange, S3Expires, RequestDownloadFails, CheckMemory,
          EraseMemory, Confirm, ConfirmFails, Rollback
  <2>5. PICK claim \in BOOLEAN : TransferExit(claim)
    BY <2>4
  <2>6. Finishes(claim) /\ mem' = mem
    BY <2>2, <2>5 DEF TransferExit, ExitResult
  <2>7. /\ dl.state = "RECEIVING" /\ dl.received = dl.length /\ FlashMatches(dl)
    BY <2>6 DEF Finishes
  <2>8. /\ dl.address \in Nat /\ dl.length \in Nat
        /\ dl.address >= SlotB.start /\ dl.address + dl.length <= SlotB.end
    BY <2>1, <2>7, Map DEF Downloads, Addresses, IInv, Transfer, Reserved
  <2>9. ASSUME NEW i \in 1 .. dl.length
        PROVE  mem'[dl.address + i - 1] = dl.crc[i]
    <3>1. dl.address + i - 1 \in 0 .. AddrMod - 1
      BY <2>8, Map
    <3>2. (dl.address + i - 1) % AddrMod = dl.address + i - 1
      BY <3>1, Fits, Map
    <3>3. mem[(dl.address + i - 1) % AddrMod] = dl.crc[i]
      BY <2>7 DEF FlashMatches
    <3> QED
      BY <3>2, <3>3, <2>6
  <2> QED
    BY <2>1, <2>7, <2>9
<1> QED
  BY <1>1, InvariantHolds, PTL DEF Spec, ExitMeansStored

\* What is activated is not below anything that was confirmed.
THEOREM NeverDowngrades == Spec => NoDowngrade
<1>1. IInv => [ActivateInPlace => bl.meta.version >= confirmed]_vars
  BY DEF IInv, Booting, VerifiedIsNew, ActivateInPlace
<1> QED
  BY <1>1, InvariantHolds, PTL DEF NoDowngrade
=============================================================================
