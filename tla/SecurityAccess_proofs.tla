----------------------- MODULE SecurityAccess_proofs -----------------------
(***************************************************************************)
(* Theorems about SecurityAccess for any number of levels and attempts, any *)
(* lockout time, clock width and number of storage faults.                 *)
(***************************************************************************)
EXTENDS SecurityAccess, TLAPS

USE SecurityAssumption, S3Assumption

\* A number less than the modulus is its own remainder.
LEMMA ModSmall == \A a \in Int : 0 <= a /\ a < S3Mod => a % S3Mod = a
  OBVIOUS

\* One turn of the clock too many is taken off.
LEMMA ModOver == \A a \in Int : S3Mod <= a /\ a < 2 * S3Mod => a % S3Mod = a - S3Mod
  OBVIOUS

\* A difference that went below zero comes back from the top of the clock.
LEMMA ModUnder == \A a \in Int : -S3Mod <= a /\ a < 0 => a % S3Mod = a + S3Mod
  OBVIOUS

-----------------------------------------------------------------------------
(* What the functions of the gate return. *)

\* A lockout started at this moment has not ended at this moment.
LEMMA JustLocked ==
  ASSUME now \in Time
  PROVE  LockedFor(LockoutMs, now) \in Locks /\ LockedFor(LockoutMs, now).active
         /\ ~Expired(LockedFor(LockoutMs, now).until)
<1> DEFINE u == (now + LockoutMs) % S3Mod
<1>1. u \in Time
  BY DEF Time
<1>2. CASE now + LockoutMs < S3Mod
  <2>1. u = now + LockoutMs
    BY <1>2, ModSmall DEF Time
  <2>2. (now - u) % S3Mod = S3Mod - LockoutMs
    BY <2>1, ModUnder DEF Time
  <2> QED
    BY <1>1, <2>2 DEF LockedFor, Locks, Expired
<1>3. CASE now + LockoutMs >= S3Mod
  <2>1. u = now + LockoutMs - S3Mod
    BY <1>3, ModOver DEF Time
  <2>2. (now - u) % S3Mod = S3Mod - LockoutMs
    BY <2>1, ModSmall DEF Time
  <2> QED
    BY <1>1, <2>2 DEF LockedFor, Locks, Expired
<1> QED
  BY <1>2, <1>3 DEF Time

\* Dropping a seed keeps the flags consistent.
LEMMA InvalidateKeeps ==
  ASSUME NEW g \in Gates, Consistent(g)
  PROVE  Invalidate(g) \in Gates /\ Consistent(Invalidate(g))
<1>1. NoSeed \in Seeds
  BY DEF NoSeed, Seeds, Time
<1>2. Settled(g.state) \in States
  BY DEF Settled, States, Gates
<1> QED
  BY <1>1, <1>2 DEF Invalidate, Gates, Consistent, Settled, NoSeed, States

\* The tick keeps the flags consistent and leaves no lockout that is over: a
\* gate that shows no delay afterwards is not locked.
LEMMA TickKeeps ==
  ASSUME now \in Time, NEW g \in Gates, Consistent(g), NEW ok \in BOOLEAN
  PROVE  /\ GateTick(g, ok) \in Gates /\ Consistent(GateTick(g, ok))
         /\ ~DelayActive(GateTick(g, ok)) => ~GateTick(g, ok).lock.active
<1> DEFINE u == IF ~LockoutDue(g) THEN g
                ELSE IF ok THEN Release(g) ELSE Prolong(g)
<1>1. Release(g) \in Gates /\ (g.lock.active => Consistent(Release(g)))
  BY DEF Release, Gates, Consistent, NotLocked, Locks, Time, States
<1>2. Prolong(g) \in Gates /\ (g.lock.active => Consistent(Prolong(g)))
  BY JustLocked DEF Prolong, Gates, Consistent
<1>3. u \in Gates /\ Consistent(u)
  BY <1>1, <1>2 DEF LockoutDue
<1>4. u.lock.active => ~Expired(u.lock.until)
  BY JustLocked DEF Release, Prolong, LockoutDue, NotLocked
<1>5. GateTick(g, ok) = IF u.seed.timer /\ Expired(u.seed.expiry)
                        THEN Invalidate(u) ELSE u
  BY DEF GateTick
<1> HIDE DEF u
<1>6. GateTick(g, ok).lock = u.lock
  BY <1>5 DEF Invalidate
<1>7. GateTick(g, ok) \in Gates /\ Consistent(GateTick(g, ok))
  BY <1>3, <1>5, InvalidateKeeps
<1> QED
  BY <1>4, <1>6, <1>7 DEF DelayActive

\* The end of a session keeps the flags consistent.
LEMMA ResetKeeps ==
  ASSUME NEW g \in Gates, Consistent(g)
  PROVE  /\ ResetSession(g) \in Gates /\ Consistent(ResetSession(g))
         /\ ResetEcu(g) \in Gates /\ Consistent(ResetEcu(g))
<1>1. NoSeed \in Seeds
  BY DEF NoSeed, Seeds, Time
<1>2. ResetSession(g) \in Gates /\ Consistent(ResetSession(g))
  BY <1>1 DEF ResetSession, Gates, Consistent, NoSeed, States
<1>3. ResetEcu(g) \in Gates /\ Consistent(ResetEcu(g))
  BY <1>1 DEF ResetEcu, Gates, Consistent, NoSeed, States, Settled
<1> QED
  BY <1>2, <1>3

\* A gate restored from a record is consistent, and carries its counter.
LEMMA RestoreKeeps ==
  ASSUME NEW r \in Records
  PROVE  /\ Restore(r, 0) \in Gates /\ Consistent(Restore(r, 0))
         /\ Restore(r, 0).failed = r.failed
<1>1. NoSeed \in Seeds
  BY DEF NoSeed, Seeds, Time
<1>2. \A ms \in Int : LockedFor(ms, 0) \in Locks /\ LockedFor(ms, 0).active
  BY DEF LockedFor, Locks, Time
<1>3. NotLocked \in Locks
  BY DEF NotLocked, Locks, Time
<1> QED
  BY <1>1, <1>2, <1>3 DEF Restore, Gates, Records, Consistent, NoSeed, NotLocked, States

-----------------------------------------------------------------------------
(* The inductive invariant. *)

\* No wrong key goes uncounted, neither in RAM nor in storage, except one for
\* each write the storage refused.
Counted == Persistent => /\ wrong <= stored.failed + faults
                         /\ wrong <= gate.failed + faults

IInv == TypeOK /\ GateConsistent /\ AccessNeedsSession /\ Counted

\* A key that reaches the callback finds the gate as it was, with a seed and
\* without a lockout: a lockout that is over leaves no seed to answer.
LEMMA KeyFacts ==
  ASSUME IInv, NEW ok \in BOOLEAN, NEW level \in Levels, KeyChecked(level, ok)
  PROVE  /\ KeyGate(ok) = gate /\ gate.seed.valid
         /\ ~gate.lock.active /\ gate.failed < MaxAttempts
<1> USE DEF IInv, GateConsistent
<1>1. KeyGate(ok).seed.valid
  BY DEF KeyChecked
<1>2. ~LockoutDue(gate)
  <2> SUFFICES ASSUME LockoutDue(gate) PROVE FALSE
    OBVIOUS
  <2>1. ~gate.seed.valid
    BY DEF LockoutDue, Consistent
  <2>2. KeyGate(ok).seed \in {gate.seed, NoSeed}
    BY DEF KeyGate, GateTick, Release, Prolong, Invalidate
  <2> QED
    BY <1>1, <2>1, <2>2 DEF NoSeed
<1>3. KeyGate(ok) = gate
  BY <1>1, <1>2 DEF KeyGate, GateTick, Invalidate, NoSeed
<1>4. ~gate.lock.active
  BY <1>1, <1>3 DEF Consistent
<1>5. gate.failed < MaxAttempts
  BY <1>4 DEF Consistent, TypeOK, Gates
<1> QED
  BY <1>1, <1>3, <1>4, <1>5

\* The remaining time stored with a failure is the whole lockout, or 0 where no
\* lockout starts or the plain comparison meets the wrap of the clock.
LEMMA FailureRemaining ==
  ASSUME IInv, ~gate.lock.active
  PROVE  FailureRecord(gate).remaining \in {0, LockoutMs}
<1> DEFINE k == Failure(gate, TRUE).lock
<1>0. now \in Time
  BY DEF IInv, TypeOK
<1>1. FailureRecord(gate).remaining
        = IF k.active /\ k.until > now THEN k.until - now ELSE 0
  BY DEF FailureRecord
<1>2. k \in {gate.lock, LockedFor(LockoutMs, now)}
  BY DEF Failure
<1>3. (now + LockoutMs) % S3Mod > now => (now + LockoutMs) % S3Mod = now + LockoutMs
  <2>1. CASE now + LockoutMs < S3Mod
    BY <1>0, <2>1, ModSmall DEF Time
  <2>2. CASE now + LockoutMs >= S3Mod
    BY <1>0, <2>2, ModOver DEF Time
  <2> QED
    BY <1>0, <2>1, <2>2 DEF Time
<1> HIDE DEF k
<1>4. CASE k = gate.lock
  <2>1. ~k.active
    BY <1>4
  <2> QED
    BY <1>1, <2>1
<1>5. CASE k = LockedFor(LockoutMs, now)
  <2>1. k.until > now => k.until - now = LockoutMs
    BY <1>0, <1>3, <1>5 DEF LockedFor, Time
  <2> QED
    BY <1>1, <2>1
<1> QED
  BY <1>2, <1>4, <1>5

\* A wrong key leaves a consistent gate and a record of it that can be stored.
LEMMA FailureKeeps ==
  ASSUME IInv, NEW ok \in BOOLEAN,
         gate.seed.valid, ~gate.lock.active, gate.failed < MaxAttempts
  PROVE  /\ Failure(gate, ok) \in Gates /\ Consistent(Failure(gate, ok))
         /\ Failure(gate, ok).failed = gate.failed + 1
         /\ FailureRecord(gate) \in Records
         /\ FailureRecord(gate).failed = gate.failed + 1
<1> USE DEF IInv, TypeOK, GateConsistent
<1>1. NoSeed \in Seeds
  BY DEF NoSeed, Seeds, Time
<1>2. Failure(gate, ok) \in Gates
  BY <1>1, JustLocked DEF Failure, Gates, States, Settled
<1>3. Consistent(Failure(gate, ok))
  <2> DEFINE locks == gate.failed + 1 >= MaxAttempts \/ ~ok
  <2>1. CASE locks
    <3>1. Failure(gate, ok) = [failed |-> gate.failed + 1, level |-> 0,
            state |-> "LOCKOUT", seed |-> NoSeed, lock |-> LockedFor(LockoutMs, now)]
      BY <2>1 DEF Failure
    <3> QED
      BY <3>1, JustLocked DEF Consistent, NoSeed
  <2>2. CASE ~locks
    <3>1. Failure(gate, ok) = [failed |-> gate.failed + 1, level |-> 0,
            state |-> Settled(gate.state), seed |-> NoSeed, lock |-> gate.lock]
      BY <2>2 DEF Failure
    <3>2. gate.failed + 1 # MaxAttempts
      BY <2>2 DEF Gates
    <3>3. Settled(gate.state) = "LOCKED_READY"
      BY DEF Settled, Consistent
    <3> QED
      BY <3>1, <3>2, <3>3 DEF Consistent, NoSeed
  <2> QED
    BY <2>1, <2>2
<1>4. Failure(gate, ok).failed = gate.failed + 1
  BY DEF Failure
<1>5. FailureRecord(gate).remaining \in 0 .. LockoutMs
  BY FailureRemaining
<1>6. FailureRecord(gate).failed = gate.failed + 1
  BY DEF FailureRecord
<1>7. FailureRecord(gate) \in Records
  <2>1. FailureRecord(gate) = [failed    |-> FailureRecord(gate).failed,
                               remaining |-> FailureRecord(gate).remaining]
    BY DEF FailureRecord
  <2>2. FailureRecord(gate).failed \in 0 .. MaxAttempts
    BY <1>6 DEF Gates
  <2> QED
    BY <1>5, <2>1, <2>2 DEF Records
<1> QED
  BY <1>2, <1>3, <1>4, <1>6, <1>7

\* security_tick() at the head of a handler keeps the counts.
LEMMA TickStoresKeeps ==
  ASSUME IInv, NEW ok \in BOOLEAN, TickStores(ok)
  PROVE  /\ stored' \in Records /\ wrong' \in Nat /\ faults' \in 0 .. MaxFaults
         /\ left' \in 0 .. LockoutMs
         /\ Persistent => /\ wrong' <= stored'.failed + faults'
                          /\ wrong' <= GateTick(gate, ok).failed + faults'
<1> USE DEF IInv, TypeOK
<1>1. Clean \in Records /\ Clean.failed = 0
  BY DEF Clean, Records
<1>2. CASE ~LockoutDue(gate)
  <2>1. GateTick(gate, ok).failed = gate.failed
    BY <1>2 DEF GateTick, Invalidate
  <2> QED
    BY <1>2, <2>1 DEF TickStores, Counted
<1>3. CASE LockoutDue(gate) /\ ok
  <2>1. GateTick(gate, ok).failed = 0
    BY <1>3 DEF GateTick, Invalidate, Release
  <2>2. wrong' = 0 /\ faults' = 0 /\ left' = left /\ stored' = Written(Clean, ok)
    BY <1>3 DEF TickStores
  <2> QED
    <3>1. stored' \in Records
      BY <1>1, <2>2 DEF Written
    <3>2. Persistent => stored'.failed = 0
      BY <1>1, <1>3, <2>2 DEF Written
    <3> QED
      BY <2>1, <2>2, <3>1, <3>2
<1>4. CASE LockoutDue(gate) /\ ~ok
  <2>1. GateTick(gate, ok).failed = gate.failed
    BY <1>4 DEF GateTick, Invalidate, Prolong
  <2>2. wrong' = wrong /\ faults' = faults + 1 /\ left' = left /\ stored' = stored
    BY <1>4 DEF TickStores, Written
  <2>3. faults < MaxFaults
    BY <1>4 DEF TickStores, Accepts
  <2> QED
    BY <2>1, <2>2, <2>3 DEF Counted, Records, Gates
<1> QED
  BY <1>2, <1>3, <1>4

\* What the tick leaves behind was there before it.
LEMMA TickAccess ==
  ASSUME NEW ok \in BOOLEAN
  PROVE  /\ GateTick(gate, ok).level = gate.level
         /\ GateTick(gate, ok).seed \in {gate.seed, NoSeed}
  BY DEF GateTick, Release, Prolong, Invalidate

\* A restart leaves the invariant to what is stored.
LEMMA StartKeeps ==
  ASSUME IInv, NEW r \in Records, Start(r)
  PROVE  /\ gate' \in Gates /\ Consistent(gate') /\ gate'.failed = r.failed
         /\ session' \in Sessions /\ now' \in Time /\ activity' \in Time
         /\ late' \in BOOLEAN /\ left' \in 0 .. LockoutMs /\ age' \in 0 .. SeedTimeout
         /\ gate'.level = 0 /\ ~gate'.seed.valid
<1>1. gate' = Restore(r, 0) /\ left' = left /\ age' = age
      /\ session' = "DEFAULT" /\ now' = 0 /\ activity' = 0 /\ late' = FALSE
  BY DEF Start
<1>2. Restore(r, 0).level = 0 /\ ~Restore(r, 0).seed.valid
  BY DEF Restore, NoSeed
<1>3. gate' \in Gates /\ Consistent(gate') /\ gate'.failed = r.failed
  BY <1>1, RestoreKeeps
<1>4. late' \in BOOLEAN
  BY <1>1, Zenon
<1>5. now' \in Time /\ activity' \in Time /\ session' \in Sessions
  BY <1>1 DEF Time, Sessions
<1> QED
  BY <1>1, <1>2, <1>3, <1>4, <1>5 DEF IInv, TypeOK

\* Initially nothing is unlocked, counted or stored.
LEMMA InitInv == Init => IInv
<1> SUFFICES ASSUME Init PROVE IInv
  OBVIOUS
<1>1. NoSeed \in Seeds /\ NotLocked \in Locks
  BY DEF NoSeed, Seeds, NotLocked, Locks, Time
<1>2. gate \in Gates /\ stored \in Records
  BY <1>1 DEF Init, Fresh, Clean, Gates, Records, States
<1>3. TypeOK
  <2>1. late \in BOOLEAN
    BY Zenon DEF Init
  <2>2. now \in Time /\ activity \in Time /\ session \in Sessions
    BY DEF Init, Time, Sessions
  <2> QED
    BY <1>2, <2>1, <2>2 DEF Init, TypeOK
<1>4. GateConsistent /\ AccessNeedsSession
  BY DEF Init, Fresh, GateConsistent, AccessNeedsSession, Consistent, NoSeed, NotLocked
<1>5. Counted
  BY DEF Init, Fresh, Clean, Counted
<1> QED
  BY <1>3, <1>4, <1>5 DEF IInv

\* Every step preserves the invariant.
LEMMA StepInv == IInv /\ [Next]_vars => IInv'
<1> SUFFICES ASSUME IInv, [Next]_vars PROVE IInv'
  OBVIOUS
<1>0. /\ gate \in Gates /\ stored \in Records /\ session \in Sessions
      /\ now \in Time /\ activity \in Time /\ late \in BOOLEAN
      /\ wrong \in Nat /\ faults \in 0 .. MaxFaults
      /\ left \in 0 .. LockoutMs /\ age \in 0 .. SeedTimeout
  BY DEF IInv, TypeOK
<1>a. Consistent(gate) /\ AccessNeedsSession /\ Counted
  BY DEF IInv, GateConsistent
<1>b. SUFFICES TypeOK' /\ Consistent(gate') /\ AccessNeedsSession' /\ Counted'
  BY DEF IInv, GateConsistent
<1>1. ASSUME NEW ok \in BOOLEAN, NEW to \in Sessions, SessionChange(to, ok)
      PROVE  TypeOK' /\ Consistent(gate') /\ AccessNeedsSession' /\ Counted'
  <2> DEFINE g == GateTick(gate, ok)
  <2>1. /\ TickStores(ok) /\ gate' = ResetSession(g)
        /\ session' = to /\ activity' = now /\ now' = now /\ late' = late /\ age' = age
    BY <1>1 DEF SessionChange
  <2>2. g \in Gates /\ Consistent(g)
    BY <1>0, <1>a, TickKeeps
  <2>3. /\ stored' \in Records /\ wrong' \in Nat /\ faults' \in 0 .. MaxFaults
        /\ left' \in 0 .. LockoutMs
        /\ Persistent => wrong' <= stored'.failed + faults' /\ wrong' <= g.failed + faults'
    BY <2>1, TickStoresKeeps
  <2> HIDE DEF g
  <2>4. gate' \in Gates /\ Consistent(gate')
    BY <2>1, <2>2, ResetKeeps
  <2>5. gate'.failed = g.failed /\ gate'.level = 0 /\ ~gate'.seed.valid
    BY <2>1 DEF ResetSession, NoSeed
  <2> QED
    BY <1>0, <2>1, <2>3, <2>4, <2>5 DEF TypeOK, AccessNeedsSession, Counted
<1>2. ASSUME NEW ok \in BOOLEAN, NEW level \in Levels, SeedGranted(level, ok)
      PROVE  TypeOK' /\ Consistent(gate') /\ AccessNeedsSession' /\ Counted'
  <2> DEFINE g == GateTick(gate, ok)
  <2>1. /\ TickStores(ok) /\ ~DelayActive(g) /\ gate' = Grant(g, level)
        /\ session \in SecureSessions
        /\ session' = session /\ activity' = now /\ now' = now /\ late' = late /\ age' = 0
    BY <1>2 DEF SeedGranted, SecurityRequest
  <2>2. g \in Gates /\ Consistent(g) /\ ~g.lock.active
    BY <1>0, <1>a, <2>1, TickKeeps
  <2>3. /\ stored' \in Records /\ wrong' \in Nat /\ faults' \in 0 .. MaxFaults
        /\ left' \in 0 .. LockoutMs
        /\ Persistent => wrong' <= stored'.failed + faults' /\ wrong' <= g.failed + faults'
    BY <2>1, TickStoresKeeps
  <2> HIDE DEF g
  <2>4. (now + SeedTimeout) % S3Mod \in Time
    BY <1>0 DEF Time
  <2>5. gate' \in Gates
    BY <2>1, <2>2, <2>4 DEF Grant, Gates, Seeds, States
  <2>6. Consistent(gate') /\ gate'.failed = g.failed
    BY <2>1, <2>2 DEF Grant, Consistent
  <2> QED
    BY <1>0, <2>1, <2>3, <2>5, <2>6 DEF TypeOK, AccessNeedsSession, Counted
<1>3. ASSUME NEW ok \in BOOLEAN, NEW level \in Levels, KeyWrong(level, ok)
      PROVE  TypeOK' /\ Consistent(gate') /\ AccessNeedsSession' /\ Counted'
  <2>1. KeyChecked(level, ok) /\ Accepts(ok)
    BY <1>3 DEF KeyWrong
  <2>2. /\ KeyGate(ok) = gate /\ gate.seed.valid
        /\ ~gate.lock.active /\ gate.failed < MaxAttempts
    BY <2>1, KeyFacts
  <2>3. /\ gate' = Failure(gate, ok) /\ stored' = Written(FailureRecord(gate), ok)
        /\ wrong' = wrong + 1 /\ faults' = IF ok THEN faults ELSE faults + 1
        /\ left' \in {LockoutMs, left} /\ age' = age
        /\ session' = session /\ activity' = now /\ now' = now /\ late' = late
    BY <1>3, <2>2 DEF KeyWrong, SecurityRequest
  <2>4. /\ gate' \in Gates /\ Consistent(gate') /\ gate'.failed = gate.failed + 1
        /\ FailureRecord(gate) \in Records /\ FailureRecord(gate).failed = gate.failed + 1
    BY <2>2, <2>3, FailureKeeps
  <2>5. gate'.level = 0 /\ ~gate'.seed.valid
    BY <2>3 DEF Failure, NoSeed
  <2>6. stored' \in Records /\ faults' \in 0 .. MaxFaults
    BY <1>0, <2>1, <2>3, <2>4 DEF Written, Accepts
  <2>7. TypeOK'
    BY <1>0, <2>3, <2>4, <2>6 DEF TypeOK
  <2>8. Counted'
    <3>1. CASE ok
      BY <1>0, <1>a, <2>3, <2>4, <3>1 DEF Counted, Written, Gates, Records
    <3>2. CASE ~ok
      BY <1>0, <1>a, <2>3, <2>4, <3>2 DEF Counted, Written, Gates, Records
    <3> QED
      BY <3>1, <3>2
  <2> QED
    BY <2>4, <2>5, <2>7, <2>8 DEF AccessNeedsSession
<1>4. ASSUME NEW ok \in BOOLEAN, NEW level \in Levels, KeyRight(level, ok)
      PROVE  TypeOK' /\ Consistent(gate') /\ AccessNeedsSession' /\ Counted'
  <2>1. KeyChecked(level, ok) /\ Accepts(ok)
    BY <1>4 DEF KeyRight
  <2>2. KeyGate(ok) = gate /\ ~gate.lock.active
    BY <2>1, KeyFacts
  <2>3. /\ gate' = Success(gate, level) /\ stored' = Written(Clean, ok)
        /\ wrong' = 0 /\ faults' = IF ok THEN faults ELSE faults + 1
        /\ left' = left /\ age' = age /\ session \in SecureSessions
        /\ session' = session /\ activity' = now /\ now' = now /\ late' = late
    BY <1>4, <2>2 DEF KeyRight, SecurityRequest
  <2>4. NoSeed \in Seeds /\ Clean \in Records
    BY DEF NoSeed, Seeds, Clean, Records, Time
  <2>5. gate' \in Gates
    BY <1>0, <2>3, <2>4 DEF Success, Gates, States
  <2>6. Consistent(gate')
    BY <2>2, <2>3 DEF Success, Consistent, NoSeed
  <2>7. stored' \in Records /\ faults' \in 0 .. MaxFaults
    BY <1>0, <2>1, <2>3, <2>4 DEF Written, Accepts
  <2>8. TypeOK'
    BY <1>0, <2>3, <2>5, <2>7 DEF TypeOK
  <2>9. Counted'
    BY <2>3, <2>5, <2>7 DEF Counted, Gates, Records
  <2> QED
    BY <2>3, <2>6, <2>8, <2>9 DEF AccessNeedsSession
<1>5. ASSUME NEW ok \in BOOLEAN, SeedNotGranted(ok) \/ KeyRefused(ok)
      PROVE  TypeOK' /\ Consistent(gate') /\ AccessNeedsSession' /\ Counted'
  <2> DEFINE g == GateTick(gate, ok)
  <2>1. /\ TickStores(ok) /\ gate' = g /\ session \in SecureSessions
        /\ session' = session /\ activity' = now /\ now' = now /\ late' = late /\ age' = age
    BY <1>5 DEF SeedNotGranted, KeyRefused, KeyGate, SecurityRequest
  <2>2. g \in Gates /\ Consistent(g)
    BY <1>0, <1>a, TickKeeps
  <2>3. /\ stored' \in Records /\ wrong' \in Nat /\ faults' \in 0 .. MaxFaults
        /\ left' \in 0 .. LockoutMs
        /\ Persistent => wrong' <= stored'.failed + faults' /\ wrong' <= g.failed + faults'
    BY <2>1, TickStoresKeeps
  <2> HIDE DEF g
  <2> QED
    BY <1>0, <2>1, <2>2, <2>3 DEF TypeOK, AccessNeedsSession, Counted
<1>6. ASSUME NEW ok \in BOOLEAN, SecurityTick(ok)
      PROVE  TypeOK' /\ Consistent(gate') /\ AccessNeedsSession' /\ Counted'
  <2> DEFINE g == GateTick(gate, ok)
  <2>1. /\ TickStores(ok) /\ gate' = IF S3Expired THEN ResetSession(g) ELSE g
        /\ session' = IF S3Expired THEN "DEFAULT" ELSE session
        /\ activity' \in {now, activity} /\ now' = now /\ late' = FALSE /\ age' = age
    BY <1>6 DEF SecurityTick, ServerGate, OnS3
  <2>2. g \in Gates /\ Consistent(g)
    BY <1>0, <1>a, TickKeeps
  <2>3. /\ stored' \in Records /\ wrong' \in Nat /\ faults' \in 0 .. MaxFaults
        /\ left' \in 0 .. LockoutMs
        /\ Persistent => wrong' <= stored'.failed + faults' /\ wrong' <= g.failed + faults'
    BY <2>1, TickStoresKeeps
  <2>4. g.level = gate.level /\ g.seed \in {gate.seed, NoSeed}
    BY TickAccess
  <2> HIDE DEF g
  <2>5. gate' \in Gates /\ Consistent(gate') /\ gate'.failed = g.failed
    BY <2>1, <2>2, ResetKeeps DEF ResetSession
  <2>6. TypeOK'
    BY <1>0, <2>1, <2>3, <2>5 DEF TypeOK, Sessions
  <2>7. Counted'
    BY <2>3, <2>5 DEF Counted
  <2>8. AccessNeedsSession'
    <3>1. CASE S3Expired
      BY <2>1, <3>1 DEF AccessNeedsSession, ResetSession, NoSeed
    <3>2. CASE ~S3Expired
      BY <1>a, <2>1, <2>4, <3>2 DEF AccessNeedsSession, NoSeed
    <3> QED
      BY <3>1, <3>2
  <2> QED
    BY <2>5, <2>6, <2>7, <2>8
<1>7. ASSUME OtherRequest \/ Elapse \/ UNCHANGED vars
      PROVE  TypeOK' /\ Consistent(gate') /\ AccessNeedsSession' /\ Counted'
  <2>1. /\ gate' = gate /\ session' = session /\ stored' = stored
        /\ wrong' = wrong /\ faults' = faults
    BY <1>7 DEF OtherRequest, Elapse, vars
  <2>2. now' \in Time /\ activity' \in Time
    BY <1>0, <1>7 DEF OtherRequest, Elapse, vars, Time
  <2>3. late' \in BOOLEAN
    BY <1>0, <1>7, Zenon DEF OtherRequest, Elapse, vars
  <2>5. left' \in 0 .. LockoutMs
    BY <1>0, <1>7 DEF OtherRequest, Elapse, vars
  <2>4. age' \in 0 .. SeedTimeout
    BY <1>0, <1>7 DEF OtherRequest, Elapse, vars
  <2> QED
    BY <1>0, <1>a, <2>1, <2>2, <2>3, <2>4, <2>5 DEF TypeOK, AccessNeedsSession, Counted
<1>8. CASE ApplyReset
  <2>1. /\ gate' = ResetEcu(gate) /\ session' = "DEFAULT" /\ activity' = now
        /\ now' = now /\ late' = late /\ stored' = stored /\ wrong' = wrong
        /\ faults' = faults /\ left' = left /\ age' = age
    BY <1>8 DEF ApplyReset
  <2>2. gate' \in Gates /\ Consistent(gate')
    BY <1>0, <1>a, <2>1, ResetKeeps
  <2>3. gate'.failed = gate.failed /\ gate'.level = 0 /\ ~gate'.seed.valid
    BY <2>1 DEF ResetEcu, NoSeed
  <2> QED
    BY <1>0, <1>a, <2>1, <2>2, <2>3 DEF TypeOK, AccessNeedsSession, Counted, Sessions
<1>9. CASE PowerCycle
  <2>1. stored' = stored /\ wrong' = wrong /\ faults' = faults
    BY <1>9 DEF PowerCycle
  <2>2. Unreadable \in Records /\ Unreadable.failed = MaxAttempts
    BY DEF Unreadable, Records
  <2>3. PICK r \in {stored, Unreadable} : Start(r)
    BY <1>9 DEF PowerCycle
  <2>4. r \in Records
    BY <1>0, <2>2
  <2>5. Persistent => wrong <= r.failed + faults
    BY <1>0, <1>a, <2>2 DEF Counted, Records
  <2> QED
    BY <1>0, <1>a, <2>1, <2>3, <2>4, <2>5, StartKeeps
    DEF TypeOK, AccessNeedsSession, Counted
<1>10. CASE CutInFailure
  <2>1. PICK level \in Levels : KeyChecked(level, TRUE)
    BY <1>10 DEF CutInFailure
  <2>2. /\ KeyGate(TRUE) = gate /\ gate.seed.valid
        /\ ~gate.lock.active /\ gate.failed < MaxAttempts
    BY <2>1, KeyFacts
  <2>3. /\ stored' = FailureRecord(gate) /\ Start(FailureRecord(gate))
        /\ wrong' = wrong /\ faults' = faults
    BY <1>10, <2>2 DEF CutInFailure
  <2>4. FailureRecord(gate) \in Records /\ FailureRecord(gate).failed = gate.failed + 1
    BY <2>2, FailureKeeps
  <2>5. Persistent => wrong <= FailureRecord(gate).failed + faults
    BY <1>0, <1>a, <2>4 DEF Counted, Gates
  <2> QED
    BY <1>0, <2>3, <2>4, <2>5, StartKeeps DEF TypeOK, AccessNeedsSession, Counted
<1>11. CASE CutInRelease
  <2>1. stored' = Clean /\ wrong' = 0 /\ faults' = 0 /\ Start(Clean)
    BY <1>11 DEF CutInRelease
  <2>2. Clean \in Records /\ Clean.failed = 0
    BY DEF Clean, Records
  <2> QED
    BY <2>1, <2>2, StartKeeps DEF TypeOK, AccessNeedsSession, Counted
<1> QED
  BY <1>1, <1>2, <1>3, <1>4, <1>5, <1>6, <1>7, <1>8, <1>9, <1>10, <1>11 DEF Next

\* The state the gate, the session and the storage keep is always well formed:
\* no counter leaves its range, whatever the order of requests and failures.
THEOREM TypeCorrect == Spec => []TypeOK
<1>1. IInv => TypeOK
  BY DEF IInv
<1> QED
  BY <1>1, InitInv, StepInv, PTL DEF Spec

\* The flags of the security gate never contradict each other.
THEOREM GateAlwaysConsistent == Spec => []GateConsistent
<1>1. IInv => GateConsistent
  BY DEF IInv
<1> QED
  BY <1>1, InitInv, StepInv, PTL DEF Spec

\* Neither an unlocked level nor a seed outlives the session it was given in.
THEOREM AccessEndsWithSession == Spec => []AccessNeedsSession
<1>1. IInv => AccessNeedsSession
  BY DEF IInv
<1> QED
  BY <1>1, InitInv, StepInv, PTL DEF Spec

\* With the storage attached, resets and power failures buy no further attempts:
\* at most MaxAttempts wrong keys are answered between two lockouts, and one more
\* for each write the storage refused.
THEOREM AttemptsAlwaysBounded == ASSUME Persistent PROVE Spec => []AttemptsBounded
<1>1. IInv => AttemptsBounded
  BY DEF IInv, TypeOK, Gates, Counted, AttemptsBounded
<1> QED
  BY <1>1, InitInv, StepInv, PTL DEF Spec

-----------------------------------------------------------------------------
(* The full length of a lockout. *)

\* Real time from t to a deadline u; a deadline less than half a turn of the
\* clock behind t is over.
Rest(u, t) == LET e == (t - u) % S3Mod
              IN  IF 2 * e < S3Mod THEN 0 ELSE S3Mod - e

\* A running lockout lasts at least as long as it has to; one that still has to
\* run is running and, unless a write failed, stored so that a restart finds it.
Owed ==
    /\ gate.lock.active => left <= Rest(gate.lock.until, now)
    /\ left > 0 /\ faults = 0 => gate.lock.active /\ stored.failed = MaxAttempts
    /\ stored.remaining \in {0, LockoutMs}

\* A lockout started at this moment has its full time to run.
LEMMA RestOfNew ==
  ASSUME NEW t \in Time
  PROVE  Rest(LockedFor(LockoutMs, t).until, t) = LockoutMs
<1> DEFINE u == (t + LockoutMs) % S3Mod
<1>1. (t - u) % S3Mod = S3Mod - LockoutMs
  <2>1. CASE t + LockoutMs < S3Mod
    <3>1. u = t + LockoutMs
      BY <2>1, ModSmall DEF Time
    <3> QED
      BY <3>1, ModUnder DEF Time
  <2>2. CASE t + LockoutMs >= S3Mod
    <3>1. u = t + LockoutMs - S3Mod
      BY <2>2, ModOver DEF Time
    <3> QED
      BY <3>1, ModSmall DEF Time
  <2> QED
    BY <2>1, <2>2 DEF Time
<1> QED
  BY <1>1 DEF Rest, LockedFor

\* A millisecond takes at most one from the time to a deadline.
LEMMA RestOfElapsed ==
  ASSUME NEW t \in Time, NEW u \in Time
  PROVE  /\ Rest(u, t) \in Nat /\ Rest(u, (t + 1) % S3Mod) \in Nat
         /\ Rest(u, t) <= Rest(u, (t + 1) % S3Mod) + 1
<1> DEFINE e == (t - u) % S3Mod
           n == (t + 1) % S3Mod
           f == (n - u) % S3Mod
<1>1. e \in 0 .. S3Mod - 1 /\ f \in 0 .. S3Mod - 1
  BY DEF Time
<1>2. e = IF t >= u THEN t - u ELSE t - u + S3Mod
  <2>1. CASE t >= u
    BY <2>1, ModSmall DEF Time
  <2>2. CASE t < u
    BY <2>2, ModUnder DEF Time
  <2> QED
    BY <2>1, <2>2 DEF Time
<1>3. n = IF t + 1 < S3Mod THEN t + 1 ELSE 0
  <2>1. CASE t + 1 < S3Mod
    BY <2>1, ModSmall DEF Time
  <2>2. CASE t + 1 = S3Mod
    BY <2>2, ModOver DEF Time
  <2> QED
    BY <2>1, <2>2 DEF Time
<1>4. n \in Time
  BY <1>3 DEF Time
<1>5. f = IF n >= u THEN n - u ELSE n - u + S3Mod
  <2> HIDE DEF n
  <2>1. CASE n >= u
    BY <1>4, <2>1, ModSmall DEF Time
  <2>2. CASE n < u
    BY <1>4, <2>2, ModUnder DEF Time
  <2> QED
    BY <1>4, <2>1, <2>2 DEF Time
<1>6. Rest(u, t) = IF 2 * e < S3Mod THEN 0 ELSE S3Mod - e
  BY DEF Rest
<1>7. Rest(u, n) = IF 2 * f < S3Mod THEN 0 ELSE S3Mod - f
  BY DEF Rest
<1>8. f = e + 1 \/ (e = S3Mod - 1 /\ f = 0)
  <2> HIDE DEF e, n, f
  <2> QED
    BY <1>2, <1>3, <1>5 DEF Time
<1> HIDE DEF e, n, f
<1>9. /\ Rest(u, t) \in Nat /\ Rest(u, n) \in Nat
      /\ Rest(u, t) <= Rest(u, n) + 1
  BY <1>1, <1>6, <1>7, <1>8
<1> QED
  BY <1>9 DEF n

\* The tick keeps what is owed: it ends a lockout only when nothing is left.
LEMMA TickOwed ==
  ASSUME IInv, Owed, Persistent, NEW ok \in BOOLEAN, TickStores(ok)
  PROVE  /\ GateTick(gate, ok).lock.active
              => left' <= Rest(GateTick(gate, ok).lock.until, now)
         /\ left' > 0 /\ faults' = 0
              => GateTick(gate, ok).lock.active /\ stored'.failed = MaxAttempts
         /\ stored'.remaining \in {0, LockoutMs}
<1> DEFINE k == GateTick(gate, ok).lock
<1> USE DEF IInv, TypeOK
<1>0. left' = left
  BY DEF TickStores
<1>1. CASE ~LockoutDue(gate)
  <2>1. k = gate.lock
    BY <1>1 DEF GateTick, Invalidate
  <2>2. stored' = stored /\ faults' = faults
    BY <1>1 DEF TickStores
  <2> QED
    BY <1>0, <2>1, <2>2 DEF Owed
<1>2. CASE LockoutDue(gate) /\ ok
  <2>1. k = NotLocked
    BY <1>2 DEF GateTick, Invalidate, Release
  <2>2. left = 0
    BY <1>2 DEF Owed, LockoutDue, Rest, Expired
  <2>3. stored' = Clean
    BY <1>2 DEF TickStores, Written
  <2> QED
    BY <1>0, <2>1, <2>2, <2>3 DEF NotLocked, Clean
<1>3. CASE LockoutDue(gate) /\ ~ok
  <2>1. k = LockedFor(LockoutMs, now)
    BY <1>3 DEF GateTick, Invalidate, Prolong
  <2>2. stored' = stored /\ faults' = faults + 1
    BY <1>3 DEF TickStores, Written
  <2>3. left <= Rest(k.until, now)
    BY <2>1, RestOfNew
  <2> QED
    BY <1>0, <2>2, <2>3 DEF Owed
<1> QED
  BY <1>1, <1>2, <1>3

\* A restart finds the lockout it owes.
LEMMA StartOwed ==
  ASSUME IInv, NEW r \in Records, Start(r), r.remaining \in {0, LockoutMs}
  PROVE  /\ gate'.lock.active => left' <= Rest(gate'.lock.until, now')
         /\ r.failed = MaxAttempts => gate'.lock.active
         /\ left' = left
<1>1. gate' = Restore(r, 0) /\ now' = 0 /\ left' = left
  BY DEF Start
<1>2. left \in 0 .. LockoutMs /\ 0 \in Time
  BY DEF IInv, TypeOK, Time
<1>3. Restore(r, 0).lock \in {NotLocked, LockedFor(LockoutMs, 0)}
  BY DEF Restore
<1>4. r.failed = MaxAttempts => Restore(r, 0).lock.active
  BY DEF Restore, LockedFor
<1>5. Rest(LockedFor(LockoutMs, 0).until, 0) = LockoutMs
  BY <1>2, RestOfNew
<1>6. Restore(r, 0).lock.active => left <= Rest(Restore(r, 0).lock.until, 0)
  BY <1>2, <1>3, <1>5 DEF NotLocked
<1> QED
  BY <1>1, <1>4, <1>6

\* Every step keeps what is owed.
LEMMA StepOwed == IInv /\ Owed /\ Persistent /\ [Next]_vars => Owed'
<1> SUFFICES ASSUME IInv, Owed, Persistent, [Next]_vars PROVE Owed'
  OBVIOUS
<1>0. /\ gate \in Gates /\ stored \in Records /\ now \in Time
      /\ faults \in 0 .. MaxFaults /\ left \in 0 .. LockoutMs
  BY DEF IInv, TypeOK
<1>1. ASSUME NEW ok \in BOOLEAN, TickStores(ok), now' = now,
             gate'.lock = GateTick(gate, ok).lock
      PROVE  Owed'
  BY <1>1, TickOwed DEF Owed
<1>2. ASSUME NEW ok \in BOOLEAN, NEW to \in Sessions, SessionChange(to, ok)
      PROVE  Owed'
  BY <1>1, <1>2 DEF SessionChange, ResetSession
<1>3. ASSUME NEW ok \in BOOLEAN, NEW level \in Levels, SeedGranted(level, ok)
      PROVE  Owed'
  BY <1>1, <1>3 DEF SeedGranted, SecurityRequest, Grant
<1>4. ASSUME NEW ok \in BOOLEAN, SeedNotGranted(ok) \/ KeyRefused(ok)
      PROVE  Owed'
  BY <1>1, <1>4 DEF SeedNotGranted, KeyRefused, KeyGate, SecurityRequest
<1>5. ASSUME NEW ok \in BOOLEAN, SecurityTick(ok)
      PROVE  Owed'
  <2>1. gate'.lock = GateTick(gate, ok).lock
    BY <1>5 DEF SecurityTick, ServerGate, OnS3, ResetSession
  <2> QED
    BY <1>1, <1>5, <2>1 DEF SecurityTick
<1>6. ASSUME NEW ok \in BOOLEAN, NEW level \in Levels, KeyWrong(level, ok)
      PROVE  Owed'
  <2>1. /\ KeyGate(ok) = gate /\ gate.seed.valid
        /\ ~gate.lock.active /\ gate.failed < MaxAttempts
    BY <1>6, KeyFacts DEF KeyWrong
  <2>2. /\ gate' = Failure(gate, ok) /\ stored' = Written(FailureRecord(gate), ok)
        /\ faults' = (IF ok THEN faults ELSE faults + 1) /\ now' = now
        /\ left' = IF gate'.lock.active THEN LockoutMs ELSE left
    BY <1>6, <2>1 DEF KeyWrong, SecurityRequest
  <2>3. left = 0 \/ faults > 0
    BY <1>0, <2>1 DEF Owed
  <2>4. FailureRecord(gate).failed = gate.failed + 1 /\ gate.failed \in 0 .. MaxAttempts
    BY <1>0 DEF FailureRecord, Gates
  <2>5. FailureRecord(gate).remaining \in {0, LockoutMs}
    BY <2>1, FailureRemaining
  <2>6. stored'.remaining \in {0, LockoutMs}
    BY <2>2, <2>5 DEF Owed, Written
  <2>7. CASE gate.failed + 1 >= MaxAttempts \/ ~ok
    <3>1. gate'.lock = LockedFor(LockoutMs, now)
      BY <2>2, <2>7 DEF Failure
    <3>2. gate'.lock.active /\ left' = LockoutMs
      BY <2>2, <3>1 DEF LockedFor
    <3>3. Rest(gate'.lock.until, now') = LockoutMs
      BY <1>0, <2>2, <3>1, RestOfNew
    <3>4. faults' = 0 => stored'.failed = MaxAttempts
      <4>1. CASE ok
        BY <1>0, <2>1, <2>2, <2>4, <2>7, <4>1 DEF Written
      <4>2. CASE ~ok
        BY <1>0, <2>2, <4>2
      <4> QED
        BY <4>1, <4>2
    <3> QED
      BY <2>6, <3>2, <3>3, <3>4 DEF Owed
  <2>8. CASE ~(gate.failed + 1 >= MaxAttempts \/ ~ok)
    <3>1. gate'.lock = gate.lock
      BY <2>2, <2>8 DEF Failure
    <3>2. left' = left /\ faults' = faults
      BY <2>1, <2>2, <2>8, <3>1
    <3> QED
      BY <1>0, <2>1, <2>3, <2>6, <3>1, <3>2 DEF Owed
  <2> QED
    BY <2>7, <2>8
<1>7. ASSUME NEW ok \in BOOLEAN, NEW level \in Levels, KeyRight(level, ok)
      PROVE  Owed'
  <2>1. KeyGate(ok) = gate /\ ~gate.lock.active
    BY <1>7, KeyFacts DEF KeyRight
  <2>2. /\ gate'.lock = gate.lock /\ stored' = Written(Clean, ok)
        /\ faults' = (IF ok THEN faults ELSE faults + 1) /\ left' = left
    BY <1>7, <2>1 DEF KeyRight, Success
  <2>3. left = 0 \/ faults > 0
    BY <1>0, <2>1 DEF Owed
  <2>4. stored'.remaining \in {0, LockoutMs}
    BY <2>2 DEF Owed, Written, Clean
  <2> QED
    BY <1>0, <2>1, <2>2, <2>3, <2>4 DEF Owed
<1>8. ASSUME OtherRequest \/ ApplyReset \/ UNCHANGED vars
      PROVE  Owed'
  <2>1. gate'.lock = gate.lock
    BY <1>8 DEF OtherRequest, ApplyReset, ResetEcu, vars
  <2>2. stored' = stored /\ faults' = faults /\ left' = left /\ now' = now
    BY <1>8 DEF OtherRequest, ApplyReset, vars
  <2> QED
    BY <2>1, <2>2 DEF Owed
<1>9. CASE Elapse
  <2>1. /\ now' = (now + 1) % S3Mod /\ left' = (IF left > 0 THEN left - 1 ELSE 0)
        /\ gate' = gate /\ stored' = stored /\ faults' = faults
    BY <1>9 DEF Elapse
  <2>2. gate.lock.until \in Time
    BY <1>0 DEF Gates, Locks
  <2> DEFINE u == gate.lock.until
  <2>3. /\ Rest(u, now) \in Nat /\ Rest(u, now') \in Nat
        /\ Rest(u, now) <= Rest(u, now') + 1
    BY <1>0, <2>1, <2>2, RestOfElapsed
  <2>4. gate.lock.active => left' <= Rest(u, now')
    BY <1>0, <2>1, <2>3 DEF Owed
  <2>5. left' > 0 => left > 0
    BY <1>0, <2>1
  <2> QED
    BY <2>1, <2>4, <2>5 DEF Owed
<1>10. CASE PowerCycle
  <2>1. stored' = stored /\ faults' = faults
    BY <1>10 DEF PowerCycle
  <2>2. /\ Unreadable \in Records /\ Unreadable.failed = MaxAttempts
        /\ Unreadable.remaining \in {0, LockoutMs}
    BY DEF Unreadable, Records
  <2>3. PICK r \in {stored, Unreadable} : Start(r)
    BY <1>10 DEF PowerCycle
  <2>4. r \in Records /\ r.remaining \in {0, LockoutMs}
    BY <1>0, <2>2 DEF Owed
  <2>5. left > 0 /\ faults = 0 => r.failed = MaxAttempts
    BY <2>2 DEF Owed
  <2> QED
    BY <2>1, <2>3, <2>4, <2>5, StartOwed DEF Owed
<1>11. CASE CutInFailure
  <2>1. PICK level \in Levels : KeyChecked(level, TRUE)
    BY <1>11 DEF CutInFailure
  <2>2. /\ KeyGate(TRUE) = gate /\ gate.seed.valid
        /\ ~gate.lock.active /\ gate.failed < MaxAttempts
    BY <2>1, KeyFacts
  <2>3. stored' = FailureRecord(gate) /\ Start(FailureRecord(gate)) /\ faults' = faults
    BY <1>11, <2>2 DEF CutInFailure
  <2>4. FailureRecord(gate) \in Records /\ FailureRecord(gate).remaining \in {0, LockoutMs}
    BY <2>2, FailureKeeps, FailureRemaining
  <2>5. left = 0 \/ faults > 0
    BY <1>0, <2>2 DEF Owed
  <2> QED
    BY <1>0, <2>3, <2>4, <2>5, StartOwed DEF Owed
<1>12. CASE CutInRelease
  <2>1. stored' = Clean /\ Start(Clean) /\ LockoutDue(gate)
    BY <1>12 DEF CutInRelease
  <2>2. Clean \in Records /\ Clean.remaining \in {0, LockoutMs}
    BY DEF Clean, Records
  <2>3. left = 0
    BY <1>0, <2>1 DEF Owed, LockoutDue, Rest, Expired
  <2> QED
    BY <2>1, <2>2, <2>3, StartOwed DEF Owed
<1> QED
  BY <1>2, <1>3, <1>4, <1>5, <1>6, <1>7, <1>8, <1>9, <1>10, <1>11, <1>12 DEF Next

\* With the storage attached, a lockout runs its full time: no session change,
\* reset or restart and no wrap of the clock ends it early, unless the storage
\* had refused a write.
THEOREM LockoutAlwaysServed == ASSUME Persistent PROVE Spec => []LockoutServed
<1>1. Init => Owed
  BY DEF Init, Owed, Fresh, Clean, NotLocked
<1>2. Owed => LockoutServed
  BY DEF Owed, LockoutServed
<1>3. IInv /\ Owed /\ [Next]_vars => Owed'
  BY StepOwed
<1> QED
  BY <1>1, <1>2, <1>3, InitInv, StepInv, PTL DEF Spec

-----------------------------------------------------------------------------
(* Seeds expire in real time. *)

\* The wrapping clock measures the real age of a pending seed: its timer runs,
\* what is left until its expiry is what its age leaves of the timeout, and a
\* seed whose time is up is one the super-loop has not looked at yet.
Aged ==
    gate.seed.valid /\ SeedTimeout # 0 =>
      /\ gate.seed.timer
      /\ gate.seed.expiry = (now + (SeedTimeout - age)) % S3Mod
      /\ (age = SeedTimeout => late)

\* A tick keeps a seed as it is or drops it, and keeps none whose age is the
\* timeout; an unlocked level stays what it was.
LEMMA TickAged ==
  ASSUME IInv, Aged, NEW ok \in BOOLEAN
  PROVE  /\ GateTick(gate, ok).level = gate.level
         /\ GateTick(gate, ok).seed \in {gate.seed, NoSeed}
         /\ GateTick(gate, ok).seed.valid /\ SeedTimeout # 0 => age < SeedTimeout
<1>1. /\ now \in Time /\ age \in 0 .. SeedTimeout
      /\ gate \in Gates
  BY DEF IInv, TypeOK
<1>2. /\ GateTick(gate, ok).level = gate.level
      /\ GateTick(gate, ok).seed \in {gate.seed, NoSeed}
  BY DEF GateTick, Release, Prolong, Invalidate
<1>3. ASSUME GateTick(gate, ok).seed.valid, SeedTimeout # 0, age = SeedTimeout
      PROVE  FALSE
  <2>1. gate.seed.valid
    BY <1>2, <1>3 DEF NoSeed
  <2>2. gate.seed.timer /\ gate.seed.expiry = (now + (SeedTimeout - age)) % S3Mod
    BY <1>3, <2>1 DEF Aged
  <2>3. gate.seed.expiry = now
    BY <1>1, <1>3, <2>2, ModSmall DEF Time
  <2>4. Expired(gate.seed.expiry)
    BY <1>1, <2>3, ModSmall DEF Expired, Time
  <2>5. GateTick(gate, ok).seed = NoSeed
    BY <2>2, <2>4 DEF GateTick, Release, Prolong, Invalidate
  <2> QED
    BY <1>3, <2>5 DEF NoSeed
<1> QED
  BY <1>1, <1>2, <1>3

\* A restart leaves no seed and no unlocked level, whatever was stored.
LEMMA CutShuts ==
  ASSUME PowerCycle \/ CutInFailure \/ CutInRelease
  PROVE  ~gate'.seed.valid /\ gate'.level = 0
<1>1. \A r : Restore(r, 0).seed = NoSeed /\ Restore(r, 0).level = 0
  BY DEF Restore
<1>2. \E r : gate' = Restore(r, 0)
  <2>1. CASE PowerCycle
    BY <2>1 DEF PowerCycle, Start
  <2>2. CASE CutInFailure
    BY <2>2 DEF CutInFailure, Start
  <2>3. CASE CutInRelease
    BY <2>3 DEF CutInRelease, Start
  <2> QED
    BY <2>1, <2>2, <2>3
<1> QED
  BY <1>1, <1>2 DEF NoSeed

\* Time that passes takes the same from the clock's rest as from the age's.
LEMMA AgesWithClock ==
  ASSUME NEW n \in Time, NEW a \in 0 .. SeedTimeout, a < SeedTimeout
  PROVE  (((n + 1) % S3Mod) + (SeedTimeout - (a + 1))) % S3Mod
           = (n + (SeedTimeout - a)) % S3Mod
<1>1. CASE n + 1 < S3Mod
  <2>1. (n + 1) % S3Mod = n + 1
    BY <1>1, ModSmall DEF Time
  <2> QED
    BY <2>1 DEF Time
<1>2. CASE n + 1 = S3Mod
  <2>1. (n + 1) % S3Mod = 0
    BY <1>2, ModOver DEF Time
  <2>2. (SeedTimeout - (a + 1)) % S3Mod = SeedTimeout - (a + 1)
    BY ModSmall
  <2>3. (n + (SeedTimeout - a)) % S3Mod = SeedTimeout - (a + 1)
    BY <1>2, ModOver DEF Time
  <2> QED
    BY <2>1, <2>2, <2>3
<1> QED
  BY <1>1, <1>2 DEF Time

\* Every step keeps clock and age of a pending seed together.
LEMMA StepAged == IInv /\ Aged /\ [Next]_vars => Aged'
<1> SUFFICES ASSUME IInv, Aged, [Next]_vars PROVE Aged'
  OBVIOUS
<1>0. /\ now \in Time /\ age \in 0 .. SeedTimeout /\ late \in BOOLEAN
      /\ gate \in Gates
  BY DEF IInv, TypeOK
<1>1. ASSUME ~gate'.seed.valid PROVE Aged'
  BY <1>1 DEF Aged
<1>2. ASSUME gate'.seed = gate.seed, now' = now, age' = age, late' = late
      PROVE  Aged'
  BY <1>2 DEF Aged
<1>3. ASSUME NEW ok \in BOOLEAN, NEW to \in Sessions, SessionChange(to, ok)
      PROVE  Aged'
  BY <1>1, <1>3 DEF SessionChange, ResetSession, NoSeed
<1>4. ASSUME NEW ok \in BOOLEAN, NEW level \in Levels, SeedGranted(level, ok)
      PROVE  Aged'
  <2>1. /\ age' = 0 /\ now' = now /\ late' = late
        /\ gate'.seed = [valid |-> TRUE, level |-> level, timer |-> SeedTimeout # 0,
                         expiry |-> (now + SeedTimeout) % S3Mod]
    BY <1>4 DEF SeedGranted, SecurityRequest, Grant
  <2>2. now + (SeedTimeout - age') = now + SeedTimeout
    BY <1>0, <2>1 DEF Time
  <2>3. gate'.seed.expiry = (now' + (SeedTimeout - age')) % S3Mod
    BY <2>1, <2>2
  <2>4. SeedTimeout # 0 => gate'.seed.timer
    <3> DEFINE s == [valid |-> TRUE, level |-> level, timer |-> SeedTimeout # 0,
                     expiry |-> (now + SeedTimeout) % S3Mod]
    <3>1. SeedTimeout # 0 => s.timer
      BY Zenon
    <3>2. gate'.seed = s
      BY <2>1
    <3> HIDE DEF s
    <3> QED
      BY <3>1, <3>2
  <2>5. SeedTimeout # 0 => age' # SeedTimeout
    BY <2>1
  <2> QED
    BY <2>3, <2>4, <2>5 DEF Aged
<1>5. ASSUME NEW ok \in BOOLEAN, SeedNotGranted(ok) \/ KeyRefused(ok)
      PROVE  Aged'
  <2>1. /\ gate' = GateTick(gate, ok)
        /\ now' = now /\ late' = late /\ age' = age
    BY <1>5 DEF SeedNotGranted, KeyRefused, KeyGate, SecurityRequest
  <2> QED
    BY <1>1, <1>2, <2>1, TickAged DEF NoSeed
<1>6. ASSUME NEW ok \in BOOLEAN, SecurityTick(ok)
      PROVE  Aged'
  <2>1. now' = now /\ age' = age
    BY <1>6 DEF SecurityTick
  <2>2. CASE S3Expired
    BY <1>1, <1>6, <2>2 DEF SecurityTick, OnS3, ResetSession, NoSeed
  <2>3. CASE ~S3Expired /\ gate'.seed.valid
    <3>1. gate' = GateTick(gate, ok)
      BY <1>6, <2>3 DEF SecurityTick, ServerGate
    <3>2. gate'.seed = gate.seed
      BY <2>3, <3>1, TickAged DEF NoSeed
    <3>3. SeedTimeout # 0 => age < SeedTimeout
      BY <2>3, <3>1, TickAged
    <3> QED
      BY <1>0, <2>1, <3>2, <3>3 DEF Aged
  <2> QED
    BY <1>1, <2>2, <2>3
<1>7. ASSUME NEW ok \in BOOLEAN, NEW level \in Levels,
             KeyWrong(level, ok) \/ KeyRight(level, ok)
      PROVE  Aged'
  BY <1>1, <1>7 DEF KeyWrong, KeyRight, Failure, Success, NoSeed
<1>8. CASE OtherRequest \/ UNCHANGED vars
  BY <1>2, <1>8 DEF OtherRequest, vars
<1>9. CASE ApplyReset
  BY <1>1, <1>9 DEF ApplyReset, ResetEcu, NoSeed
<1>10. CASE Elapse
  <2>1. /\ ~late /\ late' /\ gate' = gate /\ now' = (now + 1) % S3Mod
        /\ age' = IF gate.seed.valid /\ age < SeedTimeout THEN age + 1 ELSE age
    BY <1>10 DEF Elapse
  <2> SUFFICES ASSUME gate.seed.valid, SeedTimeout # 0 PROVE Aged'
    BY <2>1 DEF Aged
  <2>2. /\ gate.seed.timer /\ age # SeedTimeout
        /\ gate.seed.expiry = (now + (SeedTimeout - age)) % S3Mod
    BY <2>1 DEF Aged
  <2>3. age < SeedTimeout /\ age' = age + 1
    BY <1>0, <2>1, <2>2
  <2>4. gate.seed.expiry = (now' + (SeedTimeout - age')) % S3Mod
    BY <1>0, <2>1, <2>2, <2>3, AgesWithClock
  <2> QED
    BY <2>1, <2>2, <2>4 DEF Aged
<1>11. CASE PowerCycle \/ CutInFailure \/ CutInRelease
  BY <1>1, <1>11, CutShuts
<1> QED
  BY <1>3, <1>4, <1>5, <1>6, <1>7, <1>8, <1>9, <1>10, <1>11 DEF Next

\* For every configuration, with or without storage, a level is unlocked only by
\* a key for a seed of that level that is younger than the timeout in real time,
\* and the seed is used up.
THEOREM UnlockAlwaysEarned == Spec => UnlockEarned
<1> DEFINE Earned == gate'.level \notin {0, gate.level} =>
                        /\ gate.seed.valid /\ gate.seed.level = gate'.level
                        /\ (SeedTimeout # 0 => age < SeedTimeout)
                        /\ ~gate'.seed.valid
<1>1. Init => Aged
  BY DEF Init, Aged, Fresh, NoSeed
<1>2. IInv /\ Aged /\ [Next]_vars => [Earned]_vars
  <2> SUFFICES ASSUME IInv, Aged, Next, gate'.level \notin {0, gate.level}
               PROVE  Earned
    BY DEF vars
  <2>1. ASSUME NEW ok \in BOOLEAN, NEW to \in Sessions, SessionChange(to, ok)
        PROVE  FALSE
    BY <2>1 DEF SessionChange, ResetSession
  <2>2. ASSUME NEW ok \in BOOLEAN, NEW level \in Levels,
               SeedGranted(level, ok) \/ KeyWrong(level, ok)
        PROVE  FALSE
    BY <2>2, TickAged DEF SeedGranted, Grant, KeyWrong, Failure
  <2>3. ASSUME NEW ok \in BOOLEAN, SeedNotGranted(ok) \/ KeyRefused(ok)
        PROVE  FALSE
    BY <2>3, TickAged DEF SeedNotGranted, KeyRefused, KeyGate
  <2>4. ASSUME NEW ok \in BOOLEAN, SecurityTick(ok)
        PROVE  FALSE
    BY <2>4, TickAged DEF SecurityTick, ServerGate, OnS3, ResetSession
  <2>5. CASE OtherRequest \/ ApplyReset \/ Elapse
    BY <2>5 DEF OtherRequest, ApplyReset, ResetEcu, Elapse
  <2>6. CASE PowerCycle \/ CutInFailure \/ CutInRelease
    BY <2>6, CutShuts
  <2>7. ASSUME NEW ok \in BOOLEAN, NEW level \in Levels, KeyRight(level, ok)
        PROVE  Earned
    <3>1. KeyChecked(level, ok) /\ gate' = Success(KeyGate(ok), level)
      BY <2>7 DEF KeyRight
    <3>2. KeyGate(ok) = gate /\ gate.seed.valid /\ gate.seed.level = level
      BY <3>1, KeyFacts DEF KeyChecked
    <3>3. gate'.level = level /\ ~gate'.seed.valid
      BY <3>1 DEF Success, NoSeed
    <3>4. SeedTimeout # 0 => age < SeedTimeout
      BY <3>2, TickAged DEF KeyGate
    <3> QED
      BY <3>2, <3>3, <3>4
  <2> QED
    BY <2>1, <2>2, <2>3, <2>4, <2>5, <2>6, <2>7 DEF Next
<1>3. IInv /\ Aged /\ [Next]_vars => Aged'
  BY StepAged
<1>4. [Earned]_vars <=> [gate'.level \notin {0, gate.level} =>
                           /\ gate.seed.valid /\ gate.seed.level = gate'.level
                           /\ SeedTimeout # 0 => age < SeedTimeout
                           /\ ~gate'.seed.valid]_vars
  OBVIOUS
<1> QED
  BY <1>1, <1>2, <1>3, <1>4, InitInv, StepInv, PTL DEF Spec, UnlockEarned
=============================================================================
