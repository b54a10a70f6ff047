-------------------------- MODULE DtcStore_proofs --------------------------
(***************************************************************************)
(* Theorems about DtcStore for any ROM table, any size of the arrays of     *)
(* dynamic records and of snapshots, any counter limits and any number of   *)
(* calls, restarts and failed saves.                                        *)
(***************************************************************************)
EXTENDS DtcStore, FiniteSetTheorems, TLAPS

USE DtcAssumption, InputAssumption

-----------------------------------------------------------------------------
(* The invariant. *)

\* A record that failed or is confirmed is active.
Listed(r) == r.status \cap {"testFailed", "confirmed"} # {} => r.active

\* Records and their order that belong together.
Good(r, dy) ==
    /\ dy \in Seq(OtherDtcs) /\ IsInjective(dy) /\ Len(dy) <= MaxDynamic
    /\ r \in [StaticDtcs \cup ToSet(dy) -> RamStatus]
    /\ \A d \in StaticDtcs \cup ToSet(dy) : Listed(r[d])

\* A block is good, and a start keeps every snapshot it holds in its place.
GoodBlock(b) ==
    /\ b.valid \in BOOLEAN
    /\ b.valid => /\ Good(b.rec, b.dynamic)
                  /\ DOMAIN b.snapshot \subseteq DOMAIN b.rec
                  /\ \A d \in DOMAIN b.snapshot : b.snapshot[d] \in Snapshots
                  /\ DOMAIN b.snapshot \subseteq
                       StoredSnapshots(Booted(b).ram, Booted(b).dynamic)

IInv == /\ Good(ram, dynamic) /\ GoodBlock(nvm)
        /\ server \in BOOLEAN /\ setting = server /\ missed \in BOOLEAN
        /\ ops \in 0 .. MaxOps /\ reports \in 0 .. MaxReports
        /\ failures \in 0 .. MaxFailures
        /\ RestartAgrees

\* An aging counter is not ahead of the passing reports, up to the limit.
Ages(n, q) == n <= q \/ q = AgingLimit

\* The codes whose aging was counted report by report are not ahead of the
\* reports, neither in RAM nor in what a restart would bring back.
Earned ==
    /\ quiet \in [Dtcs -> 0 .. AgingLimit]
    /\ granted \subseteq Dtcs /\ unsaved \subseteq Dtcs
    /\ \A d \in DOMAIN ram \ granted : Ages(ram[d].aging, quiet[d])
    /\ \A d \in DOMAIN Booted(nvm).ram \ (granted \cup unsaved) :
          Ages(Booted(nvm).ram[d].aging, quiet[d])

-----------------------------------------------------------------------------
(* One record. *)

\* What clearing a code leaves is a record that need not be listed.
LEMMA ClearedGood ==
  ClearedRecord \in RamStatus /\ Listed(ClearedRecord) /\ ClearedRecord.aging = 0
  BY DEF ClearedRecord, RamStatus, Counter, Cleared, NotCompleted, Bits, Snapshots,
         NoSnapshot, Listed

\* The ROM table's records are good, the baseline ones active and aged.
LEMMA RomGood ==
  ASSUME NEW d \in StaticDtcs
  PROVE  /\ RomStatus(d) \in RamStatus /\ Listed(RomStatus(d))
         /\ d \notin Baseline => RomStatus(d).aging = 0
<1>1. CASE d \in Baseline
  <2>1. /\ RomFault[d].status \in SUBSET Bits /\ RomFault[d].fault \in FdcMin .. FdcMax
        /\ RomFault[d].occurrence \in Counter
    BY <1>1 DEF Counter
  <2> QED
    BY <1>1, <2>1 DEF RomStatus, RamStatus, Counter, Snapshots, Listed
<1>2. CASE d \notin Baseline
  BY <1>2 DEF RomStatus, RamStatus, Counter, Cleared, NotCompleted, Bits, Snapshots,
              NoSnapshot, Listed
<1> QED
  BY <1>1, <1>2

\* The counters stop at the largest value of their byte.
LEMMA BumpTyped ==
  ASSUME NEW n \in Counter
  PROVE  Bump(n) \in Counter /\ n <= Bump(n) /\ Bump(n) <= n + 1
         /\ (n >= AgingLimit => Bump(n) >= AgingLimit)
         /\ (Bump(n) >= AgingLimit => n >= AgingLimit - 1)
  BY DEF Bump, Counter

\* The fields of a record.
LEMMA Fields ==
  ASSUME NEW r \in RamStatus
  PROVE  /\ r.status \in SUBSET Bits /\ r.fault \in FdcMin .. FdcMax
         /\ r.occurrence \in Counter /\ r.pending \in Counter
         /\ r.aging \in Counter /\ r.aged \in Counter /\ r.active \in BOOLEAN
         /\ r.snapshot \in Snapshots \cup {NoSnapshot}
  BY DEF RamStatus

\* A record that needs a snapshot has one of its own or the default.
LEMMA WithSnapshotTyped ==
  ASSUME NEW r \in RamStatus
  PROVE  WithSnapshot(r) \in Snapshots
  BY Fields DEF WithSnapshot, Snapshots, NoSnapshot

\* set_fault() on a record: it is active, and a failure restarts the ageing.
LEMMA FaultedGood ==
  ASSUME NEW r \in RamStatus, NEW s \in SUBSET Bits, NEW f \in FdcMin .. FdcMax
  PROVE  /\ Faulted(r, s, f) \in RamStatus /\ Listed(Faulted(r, s, f))
         /\ Faulted(r, s, f).aging = IF "testFailed" \in s THEN 0 ELSE r.aging
<1> DEFINE failed == "testFailed" \in s
           occurrence == IF failed THEN Bump(r.occurrence) ELSE r.occurrence
           aging == IF failed THEN 0 ELSE r.aging
           pending == IF "pending" \in s THEN Bump(r.pending) ELSE r.pending
           new == [r EXCEPT !.active = TRUE, !.status = s, !.fault = f,
                            !.occurrence = occurrence, !.aging = aging,
                            !.pending = pending, !.snapshot = WithSnapshot(r)]
<1>1. Faulted(r, s, f) = new
  BY DEF Faulted, RamStatus
<1>2. /\ occurrence \in Counter /\ pending \in Counter /\ aging \in Counter
      /\ WithSnapshot(r) \in Snapshots
  <2>1. 0 \in Counter
    BY DEF Counter
  <2> QED
    BY <2>1, Fields, BumpTyped, WithSnapshotTyped
<1>3. aging = IF failed THEN 0 ELSE r.aging
  OBVIOUS
<1> HIDE DEF occurrence, pending, aging
<1>4. new \in RamStatus /\ new.active = TRUE /\ new.aging = aging
  BY <1>2 DEF RamStatus
<1>5. Listed(new)
  BY <1>4 DEF Listed
<1> QED
  BY <1>1, <1>3, <1>4, <1>5

\* The record set_fault() appends.
LEMMA NewRecordGood ==
  ASSUME NEW s \in SUBSET Bits, NEW f \in FdcMin .. FdcMax
  PROVE  /\ NewRecord(s, f) \in RamStatus /\ Listed(NewRecord(s, f))
         /\ NewRecord(s, f).aging = 0
  BY DEF NewRecord, RamStatus, Counter, Snapshots, Listed

\* The step up of the fault counter stays within its range.
LEMMA StepUpTyped ==
  ASSUME NEW n \in FdcMin .. FdcMax
  PROVE  StepUp(n) \in FdcMin .. FdcMax
  BY DEF StepUp

\* A code that matures is active, and ages from the start again.
LEMMA MaturedGood ==
  ASSUME NEW r \in RamStatus
  PROVE  LET new == Matured(r) IN
         new \in RamStatus /\ Listed(new) /\ new.aging = 0 /\ new.fault = r.fault
<1> DEFINE status == (r.status \cup FailedMask) \ NotCompleted
           new == [r EXCEPT !.active = TRUE, !.aging = 0, !.status = status,
                            !.occurrence = Bump(r.occurrence), !.snapshot = WithSnapshot(r)]
<1>1. Matured(r) = new
  BY DEF Matured
<1>2. /\ status \in SUBSET Bits /\ Bump(r.occurrence) \in Counter /\ 0 \in Counter
      /\ WithSnapshot(r) \in Snapshots
  <2>1. 0 \in Counter
    BY DEF Counter
  <2>2. FailedMask \subseteq Bits
    BY DEF FailedMask, Bits
  <2>3. status \in SUBSET Bits
    BY <2>2, Fields
  <2> QED
    BY <2>1, <2>3, Fields, BumpTyped, WithSnapshotTyped
<1> HIDE DEF status
<1>3. new \in RamStatus /\ new.active = TRUE /\ new.aging = 0 /\ new.fault = r.fault
  BY <1>2 DEF RamStatus
<1>4. Listed(new)
  BY <1>3 DEF Listed
<1> QED
  BY <1>1, <1>3, <1>4

\* A failing report: the code matures exactly when its counter is at its end,
\* and is only marked pending before.
LEMMA DebounceFailedGood ==
  ASSUME NEW r \in RamStatus, Listed(r)
  PROVE  LET new == DebounceFailed(r) IN
         /\ new \in RamStatus /\ Listed(new)
         /\ new.fault = FdcMax => new.aging = 0
         /\ new.fault # FdcMax => new.aging = r.aging
<1> DEFINE fault == StepUp(r.fault)
           early == IF fault > 0
                    THEN [r EXCEPT !.fault = fault, !.pending = Bump(r.pending),
                                   !.status = r.status \cup {"pending"}]
                    ELSE [r EXCEPT !.fault = fault]
<1>1. /\ fault \in FdcMin .. FdcMax /\ Bump(r.pending) \in Counter
      /\ r.status \cup {"pending"} \in SUBSET Bits
  BY Fields, BumpTyped, StepUpTyped DEF Bits
<1>2. DebounceFailed(r) = IF fault >= FdcMax THEN Matured(early) ELSE early
  BY Zenon DEF DebounceFailed
<1>3. /\ early \in RamStatus /\ early.fault = fault /\ early.aging = r.aging
      /\ early.active = r.active
      /\ early.status \cap {"testFailed", "confirmed"} = r.status \cap {"testFailed", "confirmed"}
  <2> HIDE DEF fault
  <2>1. CASE fault > 0
    <3> DEFINE e == [r EXCEPT !.fault = fault, !.pending = Bump(r.pending),
                              !.status = r.status \cup {"pending"}]
    <3>1. early = e
      BY <2>1
    <3> HIDE DEF early
    <3>2. /\ e \in RamStatus /\ e.fault = fault /\ e.aging = r.aging
          /\ e.active = r.active /\ e.status = r.status \cup {"pending"}
      BY <1>1 DEF RamStatus
    <3> HIDE DEF e
    <3> QED
      BY <3>1, <3>2
  <2>2. CASE ~(fault > 0)
    <3> DEFINE e == [r EXCEPT !.fault = fault]
    <3>1. early = e
      BY <2>2
    <3> HIDE DEF early
    <3>2. /\ e \in RamStatus /\ e.fault = fault /\ e.aging = r.aging
          /\ e.active = r.active /\ e.status = r.status
      BY <1>1 DEF RamStatus
    <3> HIDE DEF e
    <3> QED
      BY <3>1, <3>2
  <2> QED
    BY <2>1, <2>2
<1> HIDE DEF early, fault
<1>4. Listed(early)
  BY <1>3 DEF Listed
<1>5. CASE fault >= FdcMax
  BY <1>1, <1>2, <1>3, <1>5, MaturedGood
<1>6. CASE ~(fault >= FdcMax)
  BY <1>1, <1>2, <1>3, <1>4, <1>6
<1> QED
  BY <1>5, <1>6

\* A passing report: off the floor of the counter nothing else moves; at the
\* floor the code ages, and loses the confirmed bit at the limit only.
LEMMA DebouncePassedGood ==
  ASSUME NEW r \in RamStatus, Listed(r)
  PROVE  LET new == DebouncePassed(r) IN
         /\ new \in RamStatus /\ Listed(new)
         /\ new.fault # FdcMin => new.aging = r.aging
         /\ new.fault = FdcMin => new.aging = Bump(r.aging)
         /\ "confirmed" \in r.status /\ "confirmed" \notin new.status =>
              new.fault = FdcMin /\ new.aging >= AgingLimit
<1> DEFINE fault == IF r.fault >= FdcMin + FdcStep THEN r.fault - FdcStep ELSE FdcMin
           aging == Bump(r.aging)
           old == aging >= AgingLimit
           aged == IF old THEN Bump(r.aged) ELSE r.aged
           status == (r.status \ ({"testFailed"} \cup NotCompleted))
                       \ (IF old THEN {"confirmed"} ELSE {})
<1>1. /\ fault \in FdcMin .. FdcMax /\ aging \in Counter /\ aged \in Counter
      /\ status \in SUBSET Bits
  BY Fields, BumpTyped
<1>2. CASE fault > FdcMin
  <2> DEFINE new == [r EXCEPT !.fault = fault]
  <2>1. DebouncePassed(r) = new
    BY <1>2 DEF DebouncePassed
  <2> HIDE DEF fault
  <2>2. /\ new \in RamStatus /\ new.status = r.status /\ new.active = r.active
        /\ new.fault = fault /\ new.aging = r.aging
    BY <1>1 DEF RamStatus
  <2> HIDE DEF new
  <2>3. Listed(new)
    BY <2>2 DEF Listed
  <2> QED
    BY <1>1, <1>2, <2>1, <2>2, <2>3
<1>3. CASE ~(fault > FdcMin)
  <2> DEFINE new == [r EXCEPT !.fault = fault, !.aging = aging, !.aged = aged,
                              !.status = status]
  <2>1. DebouncePassed(r) = new
    BY <1>3 DEF DebouncePassed
  <2>2. fault = FdcMin
    BY <1>1, <1>3
  <2>3. "confirmed" \in r.status /\ "confirmed" \notin status => old
    BY DEF NotCompleted
  <2>4. status \subseteq r.status
    OBVIOUS
  <2> HIDE DEF fault, aging, old, aged, status
  <2>5. /\ new \in RamStatus /\ new.status = status /\ new.active = r.active
        /\ new.fault = fault /\ new.aging = aging
    BY <1>1 DEF RamStatus
  <2> HIDE DEF new
  <2>6. Listed(new)
    BY <2>4, <2>5 DEF Listed
  <2> QED
    BY <2>1, <2>2, <2>3, <2>5, <2>6 DEF old, aging
<1> QED
  BY <1>2, <1>3
-----------------------------------------------------------------------------
(* The table of records. *)

\* A good record in the place of another leaves a good table.
LEMMA UpdateGood ==
  ASSUME NEW r, NEW dy, Good(r, dy), NEW d \in DOMAIN r, NEW new \in RamStatus, Listed(new)
  PROVE  Good([r EXCEPT ![d] = new], dy)
  BY DEF Good

\* Appending a code outside the table gives it a place of its own.
LEMMA AppendGood ==
  ASSUME NEW r, NEW dy, Good(r, dy), NEW d \in OtherDtcs, d \notin DOMAIN r,
         Len(dy) < MaxDynamic, NEW s \in [DOMAIN r \cup {d} -> RamStatus],
         Listed(s[d]), \A c \in DOMAIN r : s[c] = r[c]
  PROVE  Good(s, Append(dy, d))
<1> DEFINE dz == Append(dy, d)
<1>0. /\ dy \in Seq(OtherDtcs) /\ IsInjective(dy) /\ Len(dy) \in Nat
      /\ d \notin ToSet(dy) /\ DOMAIN r = StaticDtcs \cup ToSet(dy)
  BY DEF Good
<1>1. /\ dz \in Seq(OtherDtcs) /\ Len(dz) = Len(dy) + 1 /\ dz[Len(dy) + 1] = d
      /\ \A i \in 1 .. Len(dy) : dz[i] = dy[i]
  BY <1>0
<1>2. \A i \in 1 .. Len(dy) : dy[i] \in ToSet(dy)
  BY <1>0 DEF ToSet
<1>3. IsInjective(dz)
  <2> SUFFICES ASSUME NEW i \in DOMAIN dz, NEW j \in DOMAIN dz, dz[i] = dz[j]
               PROVE  i = j
    BY DEF IsInjective
  <2>1. i \in 1 .. Len(dy) + 1 /\ j \in 1 .. Len(dy) + 1
    BY <1>1
  <2>2. \A k, l \in 1 .. Len(dy) : dy[k] = dy[l] => k = l
    BY <1>0 DEF IsInjective
  <2> HIDE DEF dz
  <2> QED
    BY ONLY <1>0, <1>1, <1>2, <2>1, <2>2, dz[i] = dz[j]
<1>4. ToSet(dz) = ToSet(dy) \cup {d}
  <2>1. DOMAIN dz = 1 .. Len(dy) + 1 /\ DOMAIN dy = 1 .. Len(dy)
    BY <1>0, <1>1
  <2> HIDE DEF dz
  <2>2. \A x \in ToSet(dz) : x \in ToSet(dy) \cup {d}
    <3> TAKE x \in ToSet(dz)
    <3>1. PICK i \in 1 .. Len(dy) + 1 : x = dz[i]
      BY <2>1 DEF ToSet
    <3>2. CASE i = Len(dy) + 1
      BY <1>1, <3>1, <3>2
    <3>3. CASE i # Len(dy) + 1
      <4>0. Len(dy) \in Nat
        BY <1>0
      <4>1. i \in 1 .. Len(dy)
        BY ONLY <3>3, <4>0, i \in 1 .. Len(dy) + 1
      <4> QED
        BY <1>1, <1>2, <3>1, <4>1
    <3> QED
      BY <3>2, <3>3
  <2>3. \A x \in ToSet(dy) : x \in ToSet(dz)
    <3> TAKE x \in ToSet(dy)
    <3>1. PICK i \in 1 .. Len(dy) : x = dy[i]
      BY <2>1 DEF ToSet
    <3>2. x = dz[i] /\ i \in DOMAIN dz
      BY <1>0, <1>1, <2>1, <3>1
    <3> QED
      BY <3>2 DEF ToSet
  <2>4. d \in ToSet(dz)
    <3>1. Len(dy) + 1 \in DOMAIN dz
      BY <1>0, <2>1
    <3> QED
      BY <1>1, <3>1 DEF ToSet
  <2> QED
    BY <2>2, <2>3, <2>4
<1> HIDE DEF dz
<1>5. \A c \in DOMAIN r : r[c] \in RamStatus /\ Listed(r[c])
  BY DEF Good
<1> QED
  BY <1>0, <1>1, <1>3, <1>4, <1>5 DEF Good, dz

-----------------------------------------------------------------------------
(* The block. *)

\* The order of the records names codes that have one.
LEMMA OrderedCodes ==
  ASSUME NEW dy \in Seq(OtherDtcs), NEW i \in DOMAIN Order(dy)
  PROVE  Order(dy)[i] \in StaticDtcs \cup ToSet(dy)
<1>1. StaticOrder \in Seq(StaticDtcs)
  OBVIOUS
<1>2. i \in 1 .. Len(StaticOrder) + Len(dy)
  BY <1>1 DEF Order
<1>3. CASE i <= Len(StaticOrder)
  BY <1>1, <1>2, <1>3 DEF Order
<1>4. CASE i > Len(StaticOrder)
  <2>1. i - Len(StaticOrder) \in DOMAIN dy /\ Order(dy)[i] = dy[i - Len(StaticOrder)]
    BY <1>1, <1>2, <1>4 DEF Order
  <2> QED
    BY <2>1 DEF ToSet
<1> QED
  BY <1>1, <1>2, <1>3, <1>4

\* What is stored is in the table and has a snapshot to show.
LEMMA StoredMeans ==
  ASSUME NEW r, NEW dy \in Seq(OtherDtcs), NEW d \in StoredSnapshots(r, dy)
  PROVE  Shown(r[d], d) # NoSnapshot /\ d \in StaticDtcs \cup ToSet(dy)
<1>1. PICK i \in DOMAIN Order(dy) :
         d = Order(dy)[i] /\ Shown(r[Order(dy)[i]], Order(dy)[i]) # NoSnapshot
  BY DEF StoredSnapshots
<1>2. Order(dy)[i] \in StaticDtcs \cup ToSet(dy)
  BY OrderedCodes
<1> QED
  BY <1>1, <1>2

\* When fewer codes have a snapshot to show, those that have one and were
\* stored still are: the array of snapshots is filled in table order.
LEMMA StoredStays ==
  ASSUME NEW r, NEW s, NEW dy \in Seq(OtherDtcs),
         \A d \in StaticDtcs \cup ToSet(dy) :
            Shown(s[d], d) # NoSnapshot => Shown(r[d], d) # NoSnapshot,
         NEW d \in StoredSnapshots(r, dy), Shown(s[d], d) # NoSnapshot
  PROVE  d \in StoredSnapshots(s, dy)
<1> DEFINE O == Order(dy)
           dom == DOMAIN O
           W(t) == {i \in dom : Shown(t[O[i]], O[i]) # NoSnapshot}
<1>1. StoredSnapshots(r, dy) =
        {O[i] : i \in {i \in W(r) : Cardinality({j \in W(r) : j < i}) < MaxSnapshots}}
  BY DEF StoredSnapshots
<1>2. StoredSnapshots(s, dy) =
        {O[i] : i \in {i \in W(s) : Cardinality({j \in W(s) : j < i}) < MaxSnapshots}}
  BY DEF StoredSnapshots
<1>3. PICK i \in W(r) : d = O[i] /\ Cardinality({j \in W(r) : j < i}) < MaxSnapshots
  BY <1>1
<1>4. dom = 1 .. Len(StaticOrder) + Len(dy) /\ Len(StaticOrder) + Len(dy) \in Nat
  BY DEF Order
<1>5. \A j \in dom : O[j] \in StaticDtcs \cup ToSet(dy)
  BY OrderedCodes
<1>6. W(s) \subseteq W(r)
  BY <1>5
<1>7. i \in W(s)
  BY <1>3
<1>8. IsFiniteSet(dom)
  BY <1>4, FS_Interval
<1> HIDE DEF O, dom
<1>9. IsFiniteSet({j \in W(r) : j < i})
  BY <1>8, FS_Subset
<1> DEFINE before == {j \in W(r) : j < i}
           now == {j \in W(s) : j < i}
<1>10. now \in SUBSET before
  BY <1>6
<1> HIDE DEF W
<1>11. Cardinality(now) <= Cardinality(before) /\ IsFiniteSet(now)
  BY <1>9, <1>10, FS_Subset
<1>12. Cardinality(now) < MaxSnapshots
  <2>1. Cardinality(now) \in Nat /\ Cardinality(before) \in Nat
    BY <1>9, <1>11, FS_CardinalityType
  <2> HIDE DEF before, now
  <2>2. Cardinality(before) < MaxSnapshots
    BY <1>3 DEF before
  <2> QED
    BY <1>11, <2>1, <2>2
<1> QED
  BY <1>2, <1>3, <1>7, <1>12

\* The sequence of a block fits its array, so a start takes all of it.
LEMMA BootedDynamic ==
  ASSUME NEW b, b.valid, b.dynamic \in Seq(OtherDtcs), Len(b.dynamic) <= MaxDynamic
  PROVE  /\ Booted(b).dynamic = b.dynamic
         /\ Booted(b).ram = [d \in StaticDtcs \cup ToSet(b.dynamic) |->
                               [b.rec[d] EXCEPT !.snapshot =
                                  IF d \in DOMAIN b.snapshot THEN b.snapshot[d]
                                                             ELSE RomSnapshot(d)]]
<1> DEFINE n == IF Len(b.dynamic) < MaxDynamic THEN Len(b.dynamic) ELSE MaxDynamic
           dy == SubSeq(b.dynamic, 1, n)
<1>1. n = Len(b.dynamic)
  OBVIOUS
<1>2. dy = b.dynamic
  BY <1>1
<1>3. Booted(b) = [dynamic |-> dy,
                   ram |-> [d \in StaticDtcs \cup ToSet(dy) |->
                             [b.rec[d] EXCEPT !.snapshot =
                                IF d \in DOMAIN b.snapshot THEN b.snapshot[d]
                                                           ELSE RomSnapshot(d)]]]
  BY DEF Booted
<1> HIDE DEF dy
<1> QED
  BY <1>2, <1>3

\* A start makes a good table of a good block, and of none.
LEMMA BootGood ==
  ASSUME NEW b, GoodBlock(b)
  PROVE  Good(Booted(b).ram, Booted(b).dynamic)
<1>1. CASE ~b.valid
  <2>1. Booted(b).dynamic = <<>> /\ Booted(b).ram = InitialRam
    BY <1>1 DEF Booted
  <2>2. /\ <<>> \in Seq(OtherDtcs) /\ IsInjective(<<>>) /\ Len(<<>>) <= MaxDynamic
        /\ ToSet(<<>>) = {}
    BY DEF IsInjective, ToSet
  <2>4. ASSUME NEW d \in StaticDtcs
        PROVE  InitialRam[d] \in RamStatus /\ Listed(InitialRam[d])
    <3>1. InitialRam[d] = RomStatus(d)
      BY DEF InitialRam
    <3> QED
      BY <3>1, RomGood
  <2>5. InitialRam \in [StaticDtcs -> RamStatus]
    BY <2>4 DEF InitialRam
  <2> QED
    BY <2>1, <2>2, <2>4, <2>5 DEF Good
<1>2. CASE b.valid
  <2>1. /\ Good(b.rec, b.dynamic) /\ b.dynamic \in Seq(OtherDtcs)
        /\ Len(b.dynamic) <= MaxDynamic
        /\ \A d \in DOMAIN b.snapshot : b.snapshot[d] \in Snapshots
    BY <1>2 DEF GoodBlock, Good
  <2> DEFINE snap(d) == IF d \in DOMAIN b.snapshot THEN b.snapshot[d] ELSE RomSnapshot(d)
             dtcs == StaticDtcs \cup ToSet(b.dynamic)
             r == [d \in dtcs |-> [b.rec[d] EXCEPT !.snapshot = snap(d)]]
  <2>2. Booted(b).dynamic = b.dynamic /\ Booted(b).ram = r
    BY <1>2, <2>1, BootedDynamic
  <2>3. ASSUME NEW d \in dtcs
        PROVE  r[d] \in RamStatus /\ Listed(r[d])
    <3>1. b.rec[d] \in RamStatus /\ Listed(b.rec[d])
      BY <2>1 DEF Good
    <3>2. snap(d) \in Snapshots \cup {NoSnapshot}
      BY <2>1 DEF RomSnapshot, Snapshots
    <3>3. r[d] = [b.rec[d] EXCEPT !.snapshot = snap(d)]
      OBVIOUS
    <3> HIDE DEF r, snap
    <3>4. /\ r[d] \in RamStatus /\ r[d].status = b.rec[d].status
          /\ r[d].active = b.rec[d].active
      BY <3>1, <3>2, <3>3 DEF RamStatus
    <3> QED
      BY <3>1, <3>4 DEF Listed
  <2>4. r \in [dtcs -> RamStatus]
    BY <2>3
  <2> HIDE DEF r
  <2> QED
    BY <2>1, <2>2, <2>3, <2>4 DEF Good
<1> QED
  BY <1>1, <1>2

\* A record without its snapshot is the same record in everything else.
LEMMA PersistentFields ==
  ASSUME NEW r \in RamStatus
  PROVE  /\ Persistent(r) \in RamStatus /\ Persistent(r).status = r.status
         /\ Persistent(r).active = r.active /\ Persistent(r).aging = r.aging
         /\ Persistent(r).snapshot = NoSnapshot
  BY DEF Persistent, RamStatus

\* A start after a save finds what was saved: the codes, their records but for
\* the snapshot, and the snapshots that fitted or those of the ROM table.
LEMMA BootedBlock ==
  ASSUME NEW r, NEW dy, Good(r, dy)
  PROVE  LET b == Booted(Block(r, dy)) IN
         /\ b.dynamic = dy /\ DOMAIN b.ram = DOMAIN r
         /\ \A d \in DOMAIN r :
              /\ Persistent(b.ram[d]) = Persistent(r[d])
              /\ Shown(b.ram[d], d) = IF d \in StoredSnapshots(r, dy)
                                      THEN Shown(r[d], d) ELSE RomSnapshot(d)
<1> DEFINE b == Block(r, dy)
           snap(d) == IF d \in DOMAIN b.snapshot THEN b.snapshot[d] ELSE RomSnapshot(d)
<1>1. /\ dy \in Seq(OtherDtcs) /\ Len(dy) <= MaxDynamic
      /\ r \in [StaticDtcs \cup ToSet(dy) -> RamStatus]
  BY DEF Good
<1>2. /\ Booted(b).dynamic = dy
      /\ Booted(b).ram = [d \in StaticDtcs \cup ToSet(dy) |->
                            [b.rec[d] EXCEPT !.snapshot = snap(d)]]
  <2>1. b.valid = TRUE /\ b.dynamic = dy
    BY DEF Block
  <2> HIDE DEF b
  <2> QED
    BY <1>1, <2>1, BootedDynamic
<1>3. ASSUME NEW d \in DOMAIN r
      PROVE  /\ Persistent(Booted(b).ram[d]) = Persistent(r[d])
             /\ Shown(Booted(b).ram[d], d) = IF d \in StoredSnapshots(r, dy)
                                             THEN Shown(r[d], d) ELSE RomSnapshot(d)
  <2>1. Booted(b).ram[d] = [Persistent(r[d]) EXCEPT !.snapshot = snap(d)]
    <3>1. b.rec[d] = Persistent(r[d])
      BY DEF Block
    <3> HIDE DEF b, snap
    <3> QED
      BY <1>1, <1>2, <3>1
  <2>2. r[d] \in RamStatus
    BY <1>1
  <2>3. Persistent(Booted(b).ram[d]) = Persistent(r[d])
    <3> HIDE DEF b, snap
    <3> QED
      BY <2>1, <2>2 DEF Persistent, RamStatus
  <2>4. Booted(b).ram[d].snapshot = snap(d)
    <3> HIDE DEF b, snap
    <3> QED
      BY <2>1, <2>2, PersistentFields DEF RamStatus
  <2>5. snap(d) = IF d \in StoredSnapshots(r, dy) THEN Shown(r[d], d) ELSE RomSnapshot(d)
    BY DEF Block
  <2>6. d \in StoredSnapshots(r, dy) => Shown(r[d], d) # NoSnapshot
    BY <1>1, StoredMeans
  <2>7. Shown(Booted(b).ram[d], d) = snap(d)
    <3> HIDE DEF b, snap
    <3> QED
      BY <2>4, <2>5, <2>6 DEF Shown
  <2> HIDE DEF b, snap
  <2> QED
    BY <2>3, <2>5, <2>7
<1> HIDE DEF b, snap
<1>4. DOMAIN Booted(b).ram = DOMAIN r
  BY <1>1, <1>2
<1> QED
  BY <1>2, <1>3, <1>4 DEF b

\* The block of a good table is good: a second save would store the same
\* snapshots again.
LEMMA BlockGood ==
  ASSUME NEW r, NEW dy, Good(r, dy)
  PROVE  GoodBlock(Block(r, dy))
<1> DEFINE b == Block(r, dy)
<1>1. /\ b.valid = TRUE /\ b.dynamic = dy
      /\ b.rec = [d \in DOMAIN r |-> Persistent(r[d])]
      /\ DOMAIN b.snapshot = StoredSnapshots(r, dy)
      /\ \A d \in StoredSnapshots(r, dy) : b.snapshot[d] = Shown(r[d], d)
  BY DEF Block
<1> HIDE DEF b
<1>2. /\ dy \in Seq(OtherDtcs) /\ DOMAIN r = StaticDtcs \cup ToSet(dy)
      /\ \A d \in DOMAIN r : r[d] \in RamStatus
  BY DEF Good
<1>3. Good(b.rec, b.dynamic)
  <2>1. ASSUME NEW d \in DOMAIN r
        PROVE  b.rec[d] \in RamStatus /\ Listed(b.rec[d])
    <3>1. b.rec[d] = Persistent(r[d]) /\ r[d] \in RamStatus /\ Listed(r[d])
      BY <1>1 DEF Good
    <3> QED
      BY <3>1, PersistentFields DEF Listed
  <2>2. b.rec \in [DOMAIN r -> RamStatus]
    BY <1>1, <2>1
  <2> QED
    BY <1>1, <1>2, <2>1, <2>2 DEF Good
<1>4. \A d \in StoredSnapshots(r, dy) : d \in DOMAIN r /\ Shown(r[d], d) # NoSnapshot
  BY <1>2, StoredMeans
<1>5. \A d \in StoredSnapshots(r, dy) : b.snapshot[d] \in Snapshots
  <2> TAKE d \in StoredSnapshots(r, dy)
  <2>1. b.snapshot[d] = Shown(r[d], d) /\ Shown(r[d], d) # NoSnapshot /\ r[d] \in RamStatus
    BY <1>1, <1>2, <1>4
  <2>2. Shown(r[d], d) \in Snapshots \cup {NoSnapshot}
    BY <2>1, Fields DEF Shown, RomSnapshot, Snapshots, NoSnapshot
  <2> QED
    BY <2>1, <2>2
<1>6. StoredSnapshots(r, dy) \subseteq StoredSnapshots(Booted(b).ram, Booted(b).dynamic)
  <2> DEFINE s == Booted(b).ram
  <2>1. /\ Booted(b).dynamic = dy
        /\ \A d \in DOMAIN r : Shown(s[d], d) = IF d \in StoredSnapshots(r, dy)
                                               THEN Shown(r[d], d) ELSE RomSnapshot(d)
    BY BootedBlock DEF b
  <2>2. \A d \in DOMAIN r : RomSnapshot(d) # NoSnapshot => Shown(r[d], d) # NoSnapshot
    BY DEF Shown
  <2> HIDE DEF s
  <2>3. \A d \in DOMAIN r : Shown(s[d], d) # NoSnapshot => Shown(r[d], d) # NoSnapshot
    BY <2>1, <2>2
  <2>4. \A d \in StoredSnapshots(r, dy) : Shown(s[d], d) # NoSnapshot
    BY <1>4, <2>1
  <2>5. \A d \in StoredSnapshots(r, dy) : d \in StoredSnapshots(s, dy)
    BY <1>2, <2>3, <2>4, StoredStays
  <2> QED
    BY <2>1, <2>5 DEF s
<1>7. GoodBlock(b)
  <2>1. DOMAIN b.rec = DOMAIN r
    BY <1>1
  <2> QED
    BY <1>1, <1>3, <1>4, <1>5, <1>6, <2>1 DEF GoodBlock
<1> QED
  BY <1>7 DEF b

-----------------------------------------------------------------------------
(* The steps. *)

\* A save, successful or not, keeps the invariant when the table is good.
LEMMA SaveIInv ==
  ASSUME IInv, NEW r, NEW dy, Good(r, dy), Save(r, dy),
         ops' \in 0 .. MaxOps, reports' \in 0 .. MaxReports
  PROVE  IInv'
<1>1. /\ ram' = r /\ dynamic' = dy /\ setting' = setting /\ server' = server
  BY DEF Save
<1>2. Good(ram', dynamic')
  BY <1>1
<1>3. /\ failures' \in 0 .. MaxFailures /\ missed' \in BOOLEAN /\ GoodBlock(nvm')
      /\ missed' = TRUE \/ nvm' = Block(r, dy)
  <2>1. GoodBlock(Block(r, dy)) /\ GoodBlock(nvm)
    BY BlockGood DEF IInv
  <2>2. CASE nvm' = Block(r, dy) /\ missed' = FALSE /\ UNCHANGED failures
    BY <2>1, <2>2 DEF IInv
  <2>3. CASE failures < MaxFailures /\ failures' = failures + 1 /\ nvm' = nvm /\ missed' = TRUE
    BY <2>1, <2>3 DEF IInv
  <2> QED
    BY <2>2, <2>3 DEF Save
<1>4. RestartAgrees'
  <2> SUFFICES ASSUME ~missed'
               PROVE  RestartAgrees'
    BY DEF RestartAgrees
  <2>1. nvm' = Block(ram', dynamic')
    BY <1>1, <1>3
  <2>2. nvm'.valid = TRUE
    BY <2>1 DEF Block
  <2> DEFINE b == Booted(nvm')
  <2>3. /\ b.dynamic = dynamic'
        /\ \A d \in DOMAIN ram' :
             /\ Persistent(b.ram[d]) = Persistent(ram'[d])
             /\ Shown(b.ram[d], d) = IF d \in StoredSnapshots(ram', dynamic')
                                     THEN Shown(ram'[d], d) ELSE RomSnapshot(d)
    BY <1>1, <2>1, BootedBlock
  <2> QED
    BY <2>2, <2>3, Zenon DEF RestartAgrees
<1>5. Good(ram, dynamic)' /\ GoodBlock(nvm)'
  BY <1>2, <1>3 DEF Good, GoodBlock
<1> QED
  BY <1>1, <1>3, <1>4, <1>5 DEF IInv

\* A start shows the snapshots of the block and, for the other codes, those of
\* the ROM table, whatever it does not find room for in a later save.
LEMMA BootAgrees ==
  ASSUME NEW b, GoodBlock(b), NEW d \in DOMAIN Booted(b).ram
  PROVE  LET s == Booted(b) IN
         Shown(s.ram[d], d) = IF ~b.valid \/ d \in StoredSnapshots(s.ram, s.dynamic)
                              THEN Shown(s.ram[d], d) ELSE RomSnapshot(d)
<1> SUFFICES ASSUME b.valid, d \notin StoredSnapshots(Booted(b).ram, Booted(b).dynamic)
             PROVE  Shown(Booted(b).ram[d], d) = RomSnapshot(d)
  BY DEF GoodBlock
<1>1. /\ b.dynamic \in Seq(OtherDtcs) /\ Len(b.dynamic) <= MaxDynamic
      /\ b.rec \in [StaticDtcs \cup ToSet(b.dynamic) -> RamStatus]
      /\ d \notin DOMAIN b.snapshot
  BY DEF GoodBlock, Good
<1>2. /\ DOMAIN Booted(b).ram = StaticDtcs \cup ToSet(b.dynamic)
      /\ Booted(b).ram[d] = [b.rec[d] EXCEPT !.snapshot = RomSnapshot(d)]
  BY <1>1, BootedDynamic
<1>3. b.rec[d] \in RamStatus
  BY <1>1, <1>2
<1>4. Booted(b).ram[d].snapshot = RomSnapshot(d)
  BY <1>2, <1>3 DEF RamStatus
<1> QED
  BY <1>4 DEF Shown

\* A restart keeps the invariant, and loses the memory of a failed save.
LEMMA BootIInv ==
  ASSUME IInv, PowerCycle
  PROVE  IInv'
<1>1. /\ ram' = Booted(nvm).ram /\ dynamic' = Booted(nvm).dynamic
      /\ setting' = TRUE /\ server' = TRUE
      /\ nvm' = nvm /\ missed' = FALSE /\ UNCHANGED <<ops, reports, failures>>
  BY DEF PowerCycle, Boot
<1>2. GoodBlock(nvm) /\ GoodBlock(nvm)'
  BY <1>1 DEF IInv, GoodBlock
<1>3. Good(ram', dynamic')
  BY <1>1, <1>2, BootGood
<1>4. Good(ram, dynamic)'
  BY <1>3 DEF Good
<1>5. RestartAgrees'
  <2>1. \A d \in DOMAIN ram' :
          Shown(ram'[d], d) = IF ~nvm.valid \/ d \in StoredSnapshots(ram', dynamic')
                              THEN Shown(ram'[d], d) ELSE RomSnapshot(d)
    BY <1>1, <1>2, BootAgrees
  <2> QED
    BY <1>1, <2>1, Zenon DEF RestartAgrees
<1> QED
  BY <1>1, <1>2, <1>4, <1>5 DEF IInv

\* uds_dtc_app_init() on a memory without a block establishes the invariant.
LEMMA InitIInv == Init => IInv
<1> SUFFICES ASSUME Init PROVE IInv
  OBVIOUS
<1>1. GoodBlock(NoBlock) /\ ~NoBlock.valid
  BY DEF GoodBlock, NoBlock
<1>2. Good(Booted(NoBlock).ram, Booted(NoBlock).dynamic)
  BY <1>1, BootGood
<1>3. RestartAgrees
  <2>1. /\ ram = Booted(nvm).ram /\ dynamic = Booted(nvm).dynamic /\ ~nvm.valid
    BY <1>1 DEF Init
  <2> QED
    BY <2>1, Zenon DEF RestartAgrees
<1>4. Good(ram, dynamic) /\ GoodBlock(nvm)
  BY <1>1, <1>2 DEF Init
<1>5. server \in BOOLEAN /\ setting = server /\ missed \in BOOLEAN
  BY DEF Init
<1>6. /\ ops \in 0 .. MaxOps /\ reports \in 0 .. MaxReports
      /\ failures \in 0 .. MaxFailures
  BY DEF Init
<1> QED
  BY <1>3, <1>4, <1>5, <1>6 DEF IInv

\* The table of the present state.
LEMMA TableFacts ==
  ASSUME IInv
  PROVE  /\ Good(ram, dynamic) /\ DOMAIN ram = StaticDtcs \cup ToSet(dynamic)
         /\ DOMAIN ram \subseteq Dtcs
         /\ \A d \in DOMAIN ram : ram[d] \in RamStatus /\ Listed(ram[d])
         /\ \A d \in Dtcs : Known(d) <=> d \in DOMAIN ram
  BY DEF IInv, Good, Dtcs, ToSet, Known

\* Every call counts, up to its bound.
LEMMA CallsTyped ==
  ASSUME IInv, Call \/ ReportCall
  PROVE  ops' \in 0 .. MaxOps /\ reports' \in 0 .. MaxReports
  BY DEF IInv, Call, ReportCall

\* set_fault() on a record and on a code that gets one.
LEMMA SetFaultIInv ==
  ASSUME IInv, NEW d \in Dtcs, NEW f \in Faults, SetFault(d, f.status, f.fault)
  PROVE  IInv'
<1> DEFINE s == f.status
<1>1. s \in SUBSET Bits /\ f.fault \in FdcMin .. FdcMax
  OBVIOUS
<1>2. ops' \in 0 .. MaxOps /\ reports' \in 0 .. MaxReports
  BY CallsTyped DEF SetFault
<1>4. CASE Known(d) /\ Save([ram EXCEPT ![d] = Faulted(@, s, f.fault)], dynamic)
  <2>1. d \in DOMAIN ram /\ ram[d] \in RamStatus
    BY <1>4, TableFacts
  <2> DEFINE new == Faulted(ram[d], s, f.fault)
  <2>2. new \in RamStatus /\ Listed(new)
    BY <1>1, <2>1, FaultedGood
  <2>4. Save([ram EXCEPT ![d] = new], dynamic)
    BY <1>4
  <2> HIDE DEF new
  <2>3. Good([ram EXCEPT ![d] = new], dynamic)
    BY <2>1, <2>2, UpdateGood, TableFacts
  <2> QED
    BY <1>2, <2>3, <2>4, SaveIInv
<1>5. CASE /\ ~Known(d) /\ Len(dynamic) < MaxDynamic
           /\ Save([c \in DOMAIN ram \cup {d} |->
                      IF c = d THEN NewRecord(s, f.fault) ELSE ram[c]],
                   Append(dynamic, d))
  <2>1. d \in OtherDtcs /\ d \notin DOMAIN ram
    BY <1>5, TableFacts DEF Dtcs
  <2> DEFINE new == NewRecord(s, f.fault)
             r == [c \in DOMAIN ram \cup {d} |-> IF c = d THEN new ELSE ram[c]]
  <2>3. new \in RamStatus /\ Listed(new)
    BY <1>1, NewRecordGood
  <2>4. Good(r, Append(dynamic, d))
    <3> HIDE DEF new
    <3>1. r = [c \in DOMAIN ram \cup {d} |-> IF c = d THEN new ELSE ram[c]]
      OBVIOUS
    <3>2. Good(ram, dynamic) /\ Len(dynamic) < MaxDynamic
      BY <1>5, TableFacts
    <3>3. /\ r \in [DOMAIN ram \cup {d} -> RamStatus] /\ r[d] = new
          /\ \A c \in DOMAIN ram : r[c] = ram[c]
      BY <2>1, <2>3, <3>1, TableFacts
    <3> HIDE DEF r
    <3> QED
      BY <2>1, <2>3, <3>2, <3>3, AppendGood
  <2>5. Save(r, Append(dynamic, d))
    BY <1>5
  <2> HIDE DEF r
  <2> QED
    BY <1>2, <2>4, <2>5, SaveIInv
<1> QED
  BY <1>4, <1>5 DEF SetFault

\* A reported event leaves a good record.
LEMMA ReportEventIInv ==
  ASSUME IInv, NEW d \in Dtcs, NEW failed \in BOOLEAN, ReportEvent(d, failed)
  PROVE  IInv'
<1> DEFINE new == IF failed THEN DebounceFailed(ram[d]) ELSE DebouncePassed(ram[d])
<1>1. ops' \in 0 .. MaxOps /\ reports' \in 0 .. MaxReports
  BY CallsTyped DEF ReportEvent
<1>2. d \in DOMAIN ram /\ ram[d] \in RamStatus /\ Listed(ram[d])
  BY TableFacts DEF ReportEvent
<1>3. Save([ram EXCEPT ![d] = new], dynamic)
  BY DEF ReportEvent
<1>5. new \in RamStatus /\ Listed(new)
  BY <1>2, DebounceFailedGood, DebouncePassedGood
<1> HIDE DEF new
<1>6. Good([ram EXCEPT ![d] = new], dynamic)
  BY <1>2, <1>5, UpdateGood, TableFacts
<1> QED
  BY <1>1, <1>3, <1>6, SaveIInv

\* Clearing some codes leaves the others as they are.
LEMMA ClearIInv ==
  ASSUME IInv, NEW t, Clear(t)
  PROVE  IInv'
<1> DEFINE r == [d \in DOMAIN ram |-> IF d \in ClearSet(t) THEN ClearedRecord ELSE ram[d]]
<1>1. ops' \in 0 .. MaxOps /\ reports' \in 0 .. MaxReports /\ Save(r, dynamic)
  BY CallsTyped DEF Clear
<1>2. \A d \in DOMAIN ram : r[d] \in RamStatus /\ Listed(r[d])
  BY TableFacts, ClearedGood
<1>3. r \in [DOMAIN ram -> RamStatus]
  BY <1>2
<1> HIDE DEF r
<1>4. Good(r, dynamic)
  BY <1>2, <1>3, TableFacts DEF Good
<1> QED
  BY <1>1, <1>4, SaveIInv

\* Recording a snapshot, and dictating the counters.
LEMMA RecordIInv ==
  ASSUME IInv, NEW d \in Dtcs,
         \/ SetSnapshot(d) \/ SetGlobalSnapshot(d)
         \/ \E n \in ExtValues : SetExtendedData(d, n)
  PROVE  IInv'
<1>1. /\ d \in DOMAIN ram /\ ram[d] \in RamStatus /\ Listed(ram[d])
      /\ ops' \in 0 .. MaxOps /\ reports' \in 0 .. MaxReports
  BY TableFacts, CallsTyped DEF SetSnapshot, SetGlobalSnapshot, SetExtendedData
<1>0. ASSUME NEW new \in RamStatus, new.status = ram[d].status, new.active = ram[d].active,
             Save([ram EXCEPT ![d] = new], dynamic)
      PROVE  IInv'
  <2>1. Listed(new)
    BY <1>0, <1>1 DEF Listed
  <2>2. Good([ram EXCEPT ![d] = new], dynamic)
    BY <1>1, <2>1, UpdateGood, TableFacts
  <2> QED
    BY <1>0, <1>1, <2>2, SaveIInv
<1>2. CASE SetSnapshot(d) \/ SetGlobalSnapshot(d)
  <2> DEFINE new == [ram[d] EXCEPT !.snapshot = "recorded"]
  <2>1. Save([ram EXCEPT ![d] = new], dynamic)
    BY <1>2 DEF SetSnapshot, SetGlobalSnapshot
  <2>2. new \in RamStatus /\ new.status = ram[d].status /\ new.active = ram[d].active
    BY <1>1 DEF RamStatus, Snapshots
  <2> HIDE DEF new
  <2> QED
    BY <1>0, <2>1, <2>2
<1>3. ASSUME NEW n \in ExtValues, SetExtendedData(d, n)
      PROVE  IInv'
  <2> DEFINE new == [ram[d] EXCEPT !.occurrence = n, !.pending = n, !.aged = n, !.aging = n]
  <2>1. Save([ram EXCEPT ![d] = new], dynamic)
    BY <1>3 DEF SetExtendedData
  <2>2. new \in RamStatus /\ new.status = ram[d].status /\ new.active = ram[d].active
    <3>1. n \in Counter
      BY DEF Counter
    <3> QED
      BY <1>1, <3>1 DEF RamStatus
  <2> HIDE DEF new
  <2> QED
    BY <1>0, <2>1, <2>2
<1> QED
  BY <1>2, <1>3

\* Switching the recording on or off, and a step that changes nothing.
LEMMA SettingIInv ==
  ASSUME IInv, \/ \E on \in BOOLEAN : ControlDtcSetting(on)
               \/ UNCHANGED vars
  PROVE  IInv'
<1>1. /\ UNCHANGED <<ram, dynamic, nvm, missed, ops, reports, failures>>
      /\ server' \in BOOLEAN /\ setting' = server'
  BY DEF IInv, ControlDtcSetting, vars
<1>2. RestartAgrees' /\ GoodBlock(nvm)' /\ Good(ram, dynamic)'
  BY <1>1 DEF IInv, RestartAgrees, GoodBlock, Good
<1> QED
  BY <1>1, <1>2 DEF IInv

\* Every call and every restart keeps the invariant.
LEMMA NextIInv == IInv /\ [Next]_vars => IInv'
  BY SetFaultIInv, ReportEventIInv, ClearIInv, RecordIInv, SettingIInv, BootIInv DEF Next

-----------------------------------------------------------------------------
(* Aging. *)

\* What an observer of a call notes keeps pace with the aging of the table that
\* the call saves, when the call ages only codes it counted a report of.
LEMMA SaveEarned ==
  ASSUME IInv, Earned, NEW r, NEW dy, Good(r, dy), Save(r, dy),
         NEW anew \in SUBSET Dtcs, NEW passed \in SUBSET Dtcs, NEW dictated \in SUBSET Dtcs,
         Observe(anew, passed, dictated),
         \A d \in DOMAIN r \ dictated :
            \/ r[d].aging = 0
            \/ /\ d \in DOMAIN ram \ anew
               /\ \/ r[d].aging = ram[d].aging
                  \/ d \in passed /\ r[d].aging <= ram[d].aging + 1
  PROVE  Earned'
<1>1. /\ quiet \in [Dtcs -> 0 .. AgingLimit]
      /\ \A d \in DOMAIN ram \ granted : Ages(ram[d].aging, quiet[d])
      /\ \A d \in DOMAIN Booted(nvm).ram \ (granted \cup unsaved) :
            Ages(Booted(nvm).ram[d].aging, quiet[d])
      /\ granted \subseteq Dtcs /\ unsaved \subseteq Dtcs
  BY DEF Earned
<1>2. /\ quiet' = [d \in Dtcs |-> IF d \in anew THEN 0
                                 ELSE IF d \in passed /\ quiet[d] < AgingLimit
                                      THEN quiet[d] + 1 ELSE quiet[d]]
      /\ granted' = (granted \ anew) \cup dictated
      /\ unsaved' = IF missed' THEN unsaved \cup anew ELSE {}
  BY DEF Observe
<1>3. /\ quiet' \in [Dtcs -> 0 .. AgingLimit]
      /\ granted' \subseteq Dtcs /\ unsaved' \subseteq Dtcs
  BY <1>1, <1>2
<1>4. /\ GoodBlock(nvm) /\ DOMAIN ram \subseteq Dtcs /\ DOMAIN r \subseteq Dtcs
      /\ \A d \in DOMAIN ram : ram[d].aging \in Nat
      /\ \A d \in DOMAIN r : r[d] \in RamStatus /\ r[d].aging \in Nat
  <2>1. GoodBlock(nvm) /\ Good(ram, dynamic)
    BY DEF IInv
  <2>2. /\ DOMAIN ram \subseteq Dtcs /\ DOMAIN r \subseteq Dtcs
        /\ \A d \in DOMAIN ram : ram[d] \in RamStatus
        /\ \A d \in DOMAIN r : r[d] \in RamStatus
    BY <2>1 DEF Good, Dtcs, ToSet
  <2> QED
    BY <2>1, <2>2, Fields DEF Counter
<1>5. ASSUME NEW d \in Dtcs, d \notin anew, NEW n \in Nat, Ages(n, quiet[d])
      PROVE  Ages(n, quiet'[d]) /\ (d \in passed => Ages(n + 1, quiet'[d]))
  <2>1. /\ quiet[d] \in 0 .. AgingLimit
        /\ quiet'[d] = IF d \in passed /\ quiet[d] < AgingLimit
                       THEN quiet[d] + 1 ELSE quiet[d]
    BY <1>1, <1>2, <1>5
  <2> QED
    BY <1>5, <2>1 DEF Ages
<1>6. \A d \in DOMAIN r \ granted' : Ages(r[d].aging, quiet'[d])
  <2> TAKE d \in DOMAIN r \ granted'
  <2>0. d \in Dtcs /\ d \notin dictated /\ quiet'[d] \in Nat /\ r[d].aging \in Nat
    BY <1>2, <1>3, <1>4
  <2>1. CASE r[d].aging = 0
    BY <2>0, <2>1 DEF Ages
  <2>2. CASE d \in DOMAIN ram \ anew /\ r[d].aging = ram[d].aging
    BY <1>1, <1>2, <1>4, <1>5, <2>0, <2>2
  <2>3. CASE d \in DOMAIN ram \ anew /\ d \in passed /\ r[d].aging <= ram[d].aging + 1
    <3>1. ram[d].aging \in Nat /\ Ages(ram[d].aging, quiet[d])
      BY <1>1, <1>2, <1>4, <2>3
    <3>2. Ages(ram[d].aging + 1, quiet'[d])
      BY <1>5, <2>0, <2>3, <3>1
    <3> QED
      BY <2>0, <2>3, <3>1, <3>2 DEF Ages
  <2> QED
    BY <2>0, <2>1, <2>2, <2>3
<1>7. ram' = r
  BY DEF Save
<1>8. \A d \in DOMAIN Booted(nvm').ram \ (granted' \cup unsaved') :
         Ages(Booted(nvm').ram[d].aging, quiet'[d])
  <2>1. CASE nvm' = Block(r, dy) /\ missed' = FALSE
    <3> DEFINE b == Booted(Block(r, dy))
    <3>1. DOMAIN b.ram = DOMAIN r
          /\ \A d \in DOMAIN r : Persistent(b.ram[d]) = Persistent(r[d])
      BY BootedBlock
    <3>2. Good(b.ram, b.dynamic)
      BY BlockGood, BootGood
    <3>3. Booted(nvm') = b
      BY <2>1
    <3> HIDE DEF b
    <3>4. \A d \in DOMAIN r : b.ram[d] \in RamStatus
      BY <3>1, <3>2 DEF Good
    <3>5. \A d \in DOMAIN r : b.ram[d].aging = r[d].aging
      <4> TAKE d \in DOMAIN r
      <4>1. /\ Persistent(b.ram[d]).aging = b.ram[d].aging
            /\ Persistent(r[d]).aging = r[d].aging
        BY <1>4, <3>4, PersistentFields
      <4> QED
        BY <3>1, <4>1
    <3> QED
      BY <1>6, <3>1, <3>3, <3>5
  <2>2. CASE nvm' = nvm /\ missed' = TRUE
    <3> DEFINE b == Booted(nvm)
    <3>1. Good(b.ram, b.dynamic)
      BY <1>4, BootGood
    <3>2. Booted(nvm') = b
      BY <2>2
    <3>3. \A d \in DOMAIN b.ram \ (granted \cup unsaved) : Ages(b.ram[d].aging, quiet[d])
      BY <1>1
    <3> HIDE DEF b
    <3>4. DOMAIN b.ram \subseteq Dtcs /\ \A d \in DOMAIN b.ram : b.ram[d] \in RamStatus
      BY <3>1 DEF Good, Dtcs, ToSet
    <3>5. \A d \in DOMAIN b.ram : b.ram[d].aging \in Nat
      BY <3>4, Fields DEF Counter
    <3>6. \A d \in DOMAIN b.ram \ (granted' \cup unsaved') :
             d \notin anew /\ d \notin granted /\ d \notin unsaved
      BY <1>2, <2>2
    <3> QED
      BY <1>5, <3>2, <3>3, <3>4, <3>5, <3>6
  <2> QED
    BY <2>1, <2>2 DEF Save
<1> QED
  BY <1>3, <1>6, <1>7, <1>8 DEF Earned

\* At the first start only the baseline codes have an aging.
LEMMA InitEarned == Init => Earned
<1> SUFFICES ASSUME Init PROVE Earned
  OBVIOUS
<1>1. /\ ram = InitialRam /\ Booted(nvm).ram = InitialRam
      /\ quiet = [d \in Dtcs |-> 0] /\ granted = Baseline /\ unsaved = {}
  BY DEF Init, Booted, NoBlock
<1>2. \A d \in StaticDtcs \ Baseline : InitialRam[d].aging = 0
  BY RomGood DEF InitialRam
<1>3. DOMAIN InitialRam = StaticDtcs /\ StaticDtcs \subseteq Dtcs /\ Baseline \subseteq Dtcs
  BY DEF InitialRam, Dtcs
<1> QED
  BY <1>1, <1>2, <1>3 DEF Earned, Ages

\* A restart takes the aging of the block, and grants what that has too much.
LEMMA BootEarned ==
  ASSUME Earned, PowerCycle
  PROVE  Earned'
  BY DEF Earned, PowerCycle, Boot

\* Every call and every restart keeps the aging earned.
LEMMA NextEarned ==
  ASSUME IInv, IInv', Earned, [Next]_vars
  PROVE  Earned'
<1>0. Good(ram', dynamic')
  BY DEF IInv, Good
<1>1. \A d \in DOMAIN ram : ram[d] \in RamStatus /\ ram[d].aging \in Nat
  BY TableFacts, Fields DEF Counter
<1>2. ASSUME NEW d \in Dtcs, NEW f \in Faults, SetFault(d, f.status, f.fault)
      PROVE  Earned'
  <2> DEFINE anew == IF "testFailed" \in f.status THEN {d} ELSE {}
  <2>1. Save(ram', dynamic') /\ Observe(anew, {}, {}) /\ anew \in SUBSET Dtcs
    BY <1>2 DEF SetFault, Save
  <2>2. f.status \in SUBSET Bits /\ f.fault \in FdcMin .. FdcMax
    OBVIOUS
  <2>3. \A c \in DOMAIN ram' : \/ ram'[c].aging = 0
                               \/ c \in DOMAIN ram \ anew /\ ram'[c].aging = ram[c].aging
    <3>1. CASE Known(d) /\ Save([ram EXCEPT ![d] = Faulted(@, f.status, f.fault)], dynamic)
      <4>1. d \in DOMAIN ram /\ ram[d] \in RamStatus
        BY <3>1, TableFacts
      <4> DEFINE new == Faulted(ram[d], f.status, f.fault)
      <4>2. ram' = [ram EXCEPT ![d] = new]
        BY <3>1 DEF Save
      <4>3. new.aging = IF "testFailed" \in f.status THEN 0 ELSE ram[d].aging
        <5>1. \A s \in SUBSET Bits, x \in FdcMin .. FdcMax :
                 Faulted(ram[d], s, x).aging = IF "testFailed" \in s THEN 0 ELSE ram[d].aging
          BY <4>1, FaultedGood
        <5> QED
          BY <2>2, <5>1, Zenon
      <4> HIDE DEF new
      <4> QED
        BY <4>1, <4>2, <4>3
    <3>2. CASE /\ ~Known(d)
               /\ Save([c \in DOMAIN ram \cup {d} |->
                          IF c = d THEN NewRecord(f.status, f.fault) ELSE ram[c]],
                       Append(dynamic, d))
      <4> DEFINE new == NewRecord(f.status, f.fault)
      <4>1. ram' = [c \in DOMAIN ram \cup {d} |-> IF c = d THEN new ELSE ram[c]]
        BY <3>2 DEF Save
      <4>2. new.aging = 0
        BY <2>2, NewRecordGood
      <4> HIDE DEF new
      <4> QED
        BY <4>1, <4>2
    <3> QED
      BY <1>2, <3>1, <3>2 DEF SetFault
  <2> HIDE DEF anew
  <2> QED
    BY <1>0, <2>1, <2>3, SaveEarned
<1>3. ASSUME NEW d \in Dtcs, NEW failed \in BOOLEAN, ReportEvent(d, failed)
      PROVE  Earned'
  <2> DEFINE new == IF failed THEN DebounceFailed(ram[d]) ELSE DebouncePassed(ram[d])
             anew == IF failed /\ new.fault = FdcMax THEN {d} ELSE {}
             passed == IF ~failed /\ new.fault = FdcMin THEN {d} ELSE {}
  <2>1. /\ Save(ram', dynamic') /\ Observe(anew, passed, {})
        /\ anew \in SUBSET Dtcs /\ passed \in SUBSET Dtcs
        /\ ram' = [ram EXCEPT ![d] = new]
    BY <1>3 DEF ReportEvent, Save
  <2>2. d \in DOMAIN ram /\ ram[d] \in RamStatus /\ Listed(ram[d])
    BY <1>3, TableFacts DEF ReportEvent
  <2>3. ram[d].aging \in Counter /\ Bump(ram[d].aging) <= ram[d].aging + 1
    BY <2>2, Fields, BumpTyped
  <2>4. \/ new.aging = 0
        \/ d \notin anew /\ new.aging = ram[d].aging
        \/ d \notin anew /\ d \in passed /\ new.aging <= ram[d].aging + 1
    <3>1. CASE failed
      <4>1. /\ new.fault = FdcMax => new.aging = 0
            /\ new.fault # FdcMax => new.aging = ram[d].aging
        BY <2>2, <3>1, DebounceFailedGood
      <4> HIDE DEF new
      <4> QED
        BY <3>1, <4>1
    <3>2. CASE ~failed
      <4>1. /\ new.fault # FdcMin => new.aging = ram[d].aging
            /\ new.fault = FdcMin => new.aging = Bump(ram[d].aging)
        BY <2>2, <3>2, DebouncePassedGood
      <4> HIDE DEF new
      <4> QED
        BY <2>3, <3>2, <4>1
    <3> QED
      BY <3>1, <3>2
  <2>5. \A c \in anew \cup passed : c = d
    OBVIOUS
  <2> HIDE DEF new, anew, passed
  <2>6. \A c \in DOMAIN ram' :
          \/ ram'[c].aging = 0
          \/ /\ c \in DOMAIN ram \ anew
             /\ \/ ram'[c].aging = ram[c].aging
                \/ c \in passed /\ ram'[c].aging <= ram[c].aging + 1
    BY <2>1, <2>2, <2>4, <2>5
  <2> QED
    BY <1>0, <2>1, <2>6, SaveEarned
<1>4. ASSUME NEW t, Clear(t)
      PROVE  Earned'
  <2>1. /\ Save(ram', dynamic') /\ Observe(ClearSet(t), {}, {})
        /\ ram' = [d \in DOMAIN ram |-> IF d \in ClearSet(t) THEN ClearedRecord ELSE ram[d]]
    BY <1>4 DEF Clear, Save
  <2>2. ClearSet(t) \in SUBSET Dtcs
    BY TableFacts DEF ClearSet
  <2>3. \A c \in DOMAIN ram' : \/ ram'[c].aging = 0
                               \/ c \in DOMAIN ram \ ClearSet(t)
                                    /\ ram'[c].aging = ram[c].aging
    BY <2>1, ClearedGood
  <2> QED
    BY <1>0, <2>1, <2>2, <2>3, SaveEarned
<1>5. ASSUME NEW d \in Dtcs, SetSnapshot(d) \/ SetGlobalSnapshot(d)
      PROVE  Earned'
  <2>1. /\ Save(ram', dynamic') /\ Observe({}, {}, {})
        /\ ram' = [ram EXCEPT ![d].snapshot = "recorded"]
    BY <1>5 DEF SetSnapshot, SetGlobalSnapshot, Save
  <2>2. \A c \in DOMAIN ram' : c \in DOMAIN ram /\ ram'[c].aging = ram[c].aging
    BY <1>1, <2>1 DEF RamStatus
  <2> QED
    BY <1>0, <2>1, <2>2, SaveEarned
<1>6. ASSUME NEW d \in Dtcs, NEW n \in ExtValues, SetExtendedData(d, n)
      PROVE  Earned'
  <2>1. /\ Save(ram', dynamic') /\ Observe({}, {}, {d})
        /\ ram' = [ram EXCEPT ![d].occurrence = n, ![d].pending = n, ![d].aged = n,
                              ![d].aging = n]
    BY <1>6 DEF SetExtendedData, Save
  <2>2. \A c \in DOMAIN ram' \ {d} : c \in DOMAIN ram /\ ram'[c].aging = ram[c].aging
    BY <1>1, <2>1
  <2> DEFINE dictated == {d}
  <2>3. dictated \in SUBSET Dtcs /\ {} \in SUBSET Dtcs /\ Observe({}, {}, dictated)
    BY <2>1
  <2>4. \A c \in DOMAIN ram' \ dictated :
          c \in DOMAIN ram \ {} /\ ram'[c].aging = ram[c].aging
    BY <2>2
  <2>5. Save(ram', dynamic')
    BY <2>1
  <2> HIDE DEF dictated
  <2> QED
    BY <1>0, <2>3, <2>4, <2>5, SaveEarned
<1>7. CASE UNCHANGED <<ram, nvm, history>>
  BY <1>7 DEF Earned, history
<1> QED
  BY <1>2, <1>3, <1>4, <1>5, <1>6, <1>7, BootEarned DEF Next, ControlDtcSetting, vars

-----------------------------------------------------------------------------
(* Theorems *)

\* The inductive invariant holds in every reachable state.
THEOREM InvariantHolds == Spec => []IInv
  BY InitIInv, NextIInv, PTL DEF Spec

\* No aging counter, in RAM or in the block, is ahead of the passing reports.
LEMMA AgingEarned == Spec => []Earned
<1>1. IInv /\ IInv' /\ Earned /\ [Next]_vars => Earned'
  BY NextEarned
<1> QED
  BY <1>1, InitEarned, InvariantHolds, PTL DEF Spec

\* Every field keeps its type, in RAM and in the block: counters stay within
\* their bytes, and the dynamic records within their array.
THEOREM TypeCorrect == Spec => []TypeOK
<1>1. IInv /\ Earned => TypeOK
  BY DEF IInv, Earned, TypeOK, Good, GoodBlock
<1> QED
  BY <1>1, InvariantHolds, AgingEarned, PTL

\* Unless the last save failed, a restart changes nothing a tester can read but
\* the snapshots that did not fit (uds_dtc_app_load_from_nvm()).
THEOREM RestartAlwaysAgrees == Spec => []RestartAgrees
  BY InvariantHolds, PTL DEF IInv

\* Failed and confirmed codes are always in the reports a tester asks for them
\* with (dtc_report_list_by_mask(), dtc_report_wwh_obd_by_mask()).
THEOREM FailedAlwaysListed == Spec => []FailedIsListed
<1>1. ASSUME IInv PROVE FailedIsListed
  <2> SUFFICES ASSUME NEW d \in DOMAIN ram,
                      ram[d].status \cap {"testFailed", "confirmed"} # {}
               PROVE  ram[d].active
    BY DEF FailedIsListed, ReportByMask, ReportConfirmed
  <2> QED
    BY <1>1, TableFacts DEF Listed
<1> QED
  BY <1>1, InvariantHolds, PTL

\* A passing report takes the confirmed bit away only when AgingLimit of them were
\* made at the floor of the counter since the last failure or clear, unless the
\* aging was granted (debounce_fault_passed()).
THEOREM ConfirmedAlwaysAgesOut == Spec => ConfirmedAgesOut
<1> DEFINE Aged(d) == \/ "confirmed" \notin ram[d].status \/ "confirmed" \in ram'[d].status
                      \/ d \in granted \/ quiet'[d] >= AgingLimit
           AgesOut == \A d \in DOMAIN ram : ReportEvent(d, FALSE) => Aged(d)
<1>1. ASSUME IInv, Earned PROVE AgesOut
  <2> SUFFICES ASSUME NEW d \in DOMAIN ram, ReportEvent(d, FALSE), d \notin granted,
                      "confirmed" \in ram[d].status, "confirmed" \notin ram'[d].status
               PROVE  quiet'[d] >= AgingLimit
    OBVIOUS
  <2> DEFINE new == DebouncePassed(ram[d])
  <2>1. /\ ram[d] \in RamStatus /\ Listed(ram[d]) /\ d \in Dtcs
        /\ quiet[d] \in 0 .. AgingLimit /\ Ages(ram[d].aging, quiet[d])
    BY <1>1, TableFacts DEF Earned
  <2>2. /\ ram' = [ram EXCEPT ![d] = new]
        /\ Observe({}, IF new.fault = FdcMin THEN {d} ELSE {}, {})
    BY DEF ReportEvent, Save
  <2>3. ram'[d] = new
    BY <2>1, <2>2
  <2>4. new.fault = FdcMin /\ new.aging = Bump(ram[d].aging) /\ new.aging >= AgingLimit
    BY <2>1, <2>3, DebouncePassedGood
  <2> HIDE DEF new
  <2>5. ram[d].aging \in Counter /\ ram[d].aging >= AgingLimit - 1
    BY <2>1, <2>4, Fields, BumpTyped
  <2>6. quiet'[d] = IF quiet[d] < AgingLimit THEN quiet[d] + 1 ELSE quiet[d]
    BY <2>1, <2>2, <2>4 DEF Observe
  <2> QED
    BY <2>1, <2>5, <2>6 DEF Ages, Counter
<1>2. IInv /\ Earned => [AgesOut]_vars
  BY <1>1
<1>3. Spec => [][AgesOut]_vars
  BY <1>2, InvariantHolds, AgingEarned, PTL
<1> QED
  BY <1>3 DEF ConfirmedAgesOut

\* While the server reports the setting off, no status changes except by being
\* cleared, and no code is registered (uds_dtc_app_control_setting()).
THEOREM SettingOffAlwaysFreezes == Spec => SettingOffFreezes
<1> DEFINE Frozen == /\ dynamic' = dynamic
                     /\ \A d \in DOMAIN ram : ram'[d].status \in {ram[d].status, Cleared}
           Freezes == ~server /\ ~server' => Frozen
<1>1. ASSUME IInv, [Next]_vars PROVE Freezes
  <2> SUFFICES ASSUME ~server, ~server' PROVE Frozen
    OBVIOUS
  <2>0. ~setting
    BY <1>1 DEF IInv
  <2>1. ASSUME NEW t, Clear(t) PROVE Frozen
    BY <2>1 DEF Clear, Save, ClearedRecord
  <2>2. ASSUME NEW d \in Dtcs,
               \/ SetSnapshot(d) \/ SetGlobalSnapshot(d)
               \/ \E n \in ExtValues : SetExtendedData(d, n)
        PROVE  Frozen
    <3>1. \A c \in DOMAIN ram : ram[c] \in RamStatus
      BY <1>1, TableFacts
    <3>2. dynamic' = dynamic
      BY <2>2 DEF SetSnapshot, SetGlobalSnapshot, SetExtendedData, Save
    <3>3. CASE ram' = [ram EXCEPT ![d].snapshot = "recorded"]
      BY <3>1, <3>2, <3>3 DEF RamStatus
    <3>4. ASSUME NEW n, ram' = [ram EXCEPT ![d].occurrence = n, ![d].pending = n,
                                           ![d].aged = n, ![d].aging = n]
          PROVE  Frozen
      BY <3>1, <3>2, <3>4 DEF RamStatus
    <3> HIDE DEF Frozen
    <3> QED
      BY <2>2, <3>3, <3>4 DEF SetSnapshot, SetGlobalSnapshot, SetExtendedData, Save
  <2>3. CASE UNCHANGED <<ram, dynamic>>
    BY <2>3
  <2> HIDE DEF Frozen
  <2> QED
    BY <1>1, <2>0, <2>1, <2>2, <2>3
       DEF Next, vars, SetFault, ReportEvent, ControlDtcSetting, PowerCycle, Boot
<1>2. IInv /\ [Next]_vars => [Freezes]_vars
  BY <1>1
<1>3. Spec => [][Freezes]_vars
  BY <1>2, InvariantHolds, PTL DEF Spec
<1> QED
  BY <1>3 DEF SettingOffFreezes
=============================================================================
