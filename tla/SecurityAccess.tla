--------------------------- MODULE SecurityAccess ---------------------------
(***************************************************************************)
(* SecurityAccess (0x27): the gate of library/src/uds_security_gate.c, the *)
(* service of library/src/uds.c that drives it, and the non-volatile copy  *)
(* of the attempt counter kept by library/src/uds_security_nvm.c.          *)
(*                                                                         *)
(* Seeds and keys are abstract: the application's callbacks accept a key,  *)
(* call it invalid, or refuse for another reason.  The storage is the      *)
(* register of ParamRegister; a write may fail, which leaves the old       *)
(* record, at most MaxFaults times between two lockouts served, and power  *)
(* may be cut before or after it.                                          *)
(* The clock is the wrapping millisecond clock of UdsSession.              *)
(***************************************************************************)
EXTENDS UdsSession

CONSTANTS Levels,       \* security levels, 1 .. 5 on the wire
          MaxAttempts,  \* gate->max_attempts
          LockoutMs,    \* gate->lockout_ms, never 0
          SeedTimeout,  \* gate->seed_timeout_ms, 0 for seeds that do not expire
          MaxFaults,    \* bound: failed writes between two lockouts served
          Persistent    \* whether the application attached the storage

\* uds_security_gate_set_timing() enforces the non-zero lockout and attempts.
ASSUME SecurityAssumption ==
    /\ Levels \subseteq Nat \ {0}
    /\ MaxAttempts \in Nat \ {0} /\ LockoutMs \in Nat \ {0}
    /\ SeedTimeout \in Nat /\ MaxFaults \in Nat /\ Persistent \in BOOLEAN
    /\ 2 * LockoutMs < S3Mod /\ 2 * SeedTimeout < S3Mod

VARIABLES gate,      \* UdsSecurityGate
          session,   \* server->session
          activity,  \* server->last_activity_ms
          now,       \* the clock
          late,      \* the clock has advanced since the last uds_server_tick()
          stored,    \* the SecurityRecord in non-volatile memory
          wrong,     \* history: wrong keys answered since the counter was
                     \* last cleared by a right key or a lockout served
          faults,    \* history: writes that failed since a lockout was served
          left,      \* history: real time the last lockout still has to run
          age        \* history: real time since the pending seed was issued

vars == <<gate, session, activity, now, late, stored, wrong, faults, left, age>>

SecureSessions == {"EXTENDED", "PROGRAMMING"}

-----------------------------------------------------------------------------
(* The gate.  Its expiry times are read only while their flag is set. *)

NoSeed    == [valid |-> FALSE, level |-> 0, timer |-> FALSE, expiry |-> 0]
NotLocked == [active |-> FALSE, until |-> 0]
LockedFor(ms, at) == [active |-> TRUE, until |-> (at + ms) % S3Mod]

Fresh == [failed |-> 0, level |-> 0, state |-> "LOCKED_READY",
          seed |-> NoSeed, lock |-> NotLocked]

Clean == [failed |-> 0, remaining |-> 0]

\* time_expired(): (int32_t)(now - deadline) >= 0
Expired(t) == 2 * ((now - t) % S3Mod) < S3Mod

\* The state once no seed is pending.
Settled(state) == IF state = "WAITING_FOR_KEY" THEN "LOCKED_READY" ELSE state

\* Mutant: the state goes on saying that a key is awaited.
Invalidate_KeepsState(g) ==
    [failed |-> g.failed, level |-> g.level, state |-> g.state,
     seed |-> NoSeed, lock |-> g.lock]

Invalidate(g) ==
    [failed |-> g.failed, level |-> g.level, state |-> Settled(g.state),
     seed |-> NoSeed, lock |-> g.lock]

Release(g) ==
    [failed |-> 0, level |-> g.level,
     state |-> IF g.state = "LOCKOUT" THEN "LOCKED_READY" ELSE g.state,
     seed |-> g.seed, lock |-> NotLocked]

\* The storage does not take the release: the lockout starts again.
Prolong(g) ==
    [failed |-> g.failed, level |-> g.level, state |-> g.state, seed |-> g.seed,
     lock |-> LockedFor(LockoutMs, now)]

LockoutDue(g) == g.lock.active /\ Expired(g.lock.until)

\* uds_security_gate_tick(); ok says whether the storage takes a write.
GateTick(g, ok) ==
    LET unlocked == IF ~LockoutDue(g) THEN g
                    ELSE IF ok THEN Release(g) ELSE Prolong(g)
    IN  IF unlocked.seed.timer /\ Expired(unlocked.seed.expiry)
        THEN Invalidate(unlocked) ELSE unlocked

DelayActive(g) == g.lock.active /\ ~Expired(g.lock.until)

Grant(g, level) ==
    [failed |-> g.failed, level |-> g.level, state |-> "WAITING_FOR_KEY",
     seed |-> [valid |-> TRUE, level |-> level, timer |-> SeedTimeout # 0,
               expiry |-> (now + SeedTimeout) % S3Mod],
     lock |-> g.lock]

\* uds_security_gate_record_failure(): the last attempt locks, and so does a
\* counter that could not be stored.
Failure(g, ok) ==
    LET locks == g.failed + 1 >= MaxAttempts \/ ~ok
    IN  [failed |-> g.failed + 1, level |-> 0,
         state |-> IF locks THEN "LOCKOUT" ELSE Settled(g.state),
         seed |-> NoSeed,
         lock |-> IF locks THEN LockedFor(LockoutMs, now) ELSE g.lock]

\* Mutant: the remaining time is taken without the comparison.
FailureRecord_Unguarded(g) ==
    LET lock == Failure(g, TRUE).lock
    IN  [failed    |-> g.failed + 1,
         remaining |-> IF lock.active THEN lock.until - now ELSE 0]

\* Mutant: the counter is stored before it is raised.
FailureRecord_Before(g) == [failed |-> g.failed, remaining |-> 0]

\* What it stores: the remaining time is taken with a plain comparison, so a
\* lockout that ends beyond the wrap of the clock is stored as 0.
FailureRecord(g) ==
    LET lock == Failure(g, TRUE).lock
    IN  [failed    |-> g.failed + 1,
         remaining |-> IF lock.active /\ lock.until > now
                       THEN lock.until - now ELSE 0]

Success(g, level) ==
    [failed |-> 0, level |-> level, state |-> "UNLOCKED",
     seed |-> NoSeed, lock |-> g.lock]

ResetSession(g) ==
    [failed |-> g.failed, level |-> 0,
     state |-> IF g.state = "LOCKOUT" THEN "LOCKOUT" ELSE "LOCKED_READY",
     seed |-> NoSeed, lock |-> g.lock]

ResetEcu(g) ==
    [failed |-> g.failed, level |-> 0,
     state |-> IF g.lock.active THEN Settled(g.state) ELSE "LOCKED_READY",
     seed |-> NoSeed, lock |-> g.lock]

\* Mutant: a stored counter at its limit is not taken for a lockout.
Restore_RemainingOnly(r, at) ==
    [failed |-> r.failed, level |-> 0,
     state |-> IF r.remaining > 0 THEN "LOCKOUT" ELSE "LOCKED_READY",
     seed |-> NoSeed,
     lock |-> IF r.remaining > 0 THEN LockedFor(r.remaining, at) ELSE NotLocked]

\* uds_security_gate_restore_state() on a fresh gate.
Restore(r, at) ==
    LET locks == r.remaining > 0 \/ r.failed >= MaxAttempts
    IN  [failed |-> r.failed, level |-> 0,
         state |-> IF locks THEN "LOCKOUT" ELSE "LOCKED_READY",
         seed |-> NoSeed,
         lock |-> IF locks
                  THEN LockedFor(IF r.remaining > 0 THEN r.remaining ELSE LockoutMs, at)
                  ELSE NotLocked]

\* uds_security_nvm_attach() when the record cannot be read.
Unreadable == [failed |-> MaxAttempts, remaining |-> LockoutMs]
-----------------------------------------------------------------------------
(* The service. *)

Init == /\ gate = Fresh /\ stored = Clean /\ session = "DEFAULT"
        /\ now = 0 /\ activity = 0 /\ late = FALSE
        /\ wrong = 0 /\ faults = 0 /\ left = 0 /\ age = 0

\* Whether the storage takes the write of this step, and what it then holds.
Accepts(ok) == ok \/ (Persistent /\ faults < MaxFaults)

Written(record, ok) == IF Persistent /\ ok THEN record ELSE stored

\* What security_tick() at the head of a handler does besides the gate.
TickStores(ok) ==
    /\ Accepts(ok)
    /\ stored' = IF LockoutDue(gate) THEN Written(Clean, ok) ELSE stored
    /\ wrong'  = IF LockoutDue(gate) /\ ok THEN 0 ELSE wrong
    /\ faults' = IF ~LockoutDue(gate) THEN faults ELSE IF ok THEN 0 ELSE faults + 1
    /\ left'   = left

\* uds_server_request_session().
SessionChange(to, ok) ==
    /\ TransitionAllowed(session, to)
    /\ TickStores(ok)
    /\ gate' = ResetSession(GateTick(gate, ok))
    /\ session' = to /\ activity' = now
    /\ UNCHANGED <<now, late, age>>

\* Any other request the service table lets through, a denied session included.
OtherRequest ==
    /\ activity' = now
    /\ UNCHANGED <<gate, session, now, late, stored, wrong, faults, left, age>>

\* Requests in other sessions are refused by check_service_attributes().
SecurityRequest ==
    /\ session \in SecureSessions
    /\ activity' = now
    /\ UNCHANGED <<session, now, late>>

\* Refused for the delay, for its length or by the callback; a seed for the
\* level that is already unlocked is answered with zeros.
SeedNotGranted(ok) ==
    /\ SecurityRequest /\ TickStores(ok)
    /\ gate' = GateTick(gate, ok)
    /\ UNCHANGED age

SeedGranted(level, ok) ==
    /\ SecurityRequest /\ TickStores(ok)
    /\ ~DelayActive(GateTick(gate, ok)) /\ GateTick(gate, ok).level # level
    /\ gate' = Grant(GateTick(gate, ok), level)
    /\ age' = 0

\* Mutant: the key is checked before the timers are.
KeyGate_Unticked(ok) == gate

\* The gate service_security_key() looks at.
KeyGate(ok) == GateTick(gate, ok)

\* The callback is reached: a key for the pending seed, of the right level.
KeyChecked(level, ok) ==
    LET g == KeyGate(ok)
    IN  ~DelayActive(g) /\ g.seed.valid /\ g.seed.level = level

\* Out of sequence, too early, or refused for a reason that is no wrong key.
KeyRefused(ok) ==
    /\ SecurityRequest /\ TickStores(ok)
    /\ gate' = KeyGate(ok)
    /\ UNCHANGED age

\* A lockout that has just ended leaves no seed, so that the only write of this
\* step is the one that records the failure.
KeyWrong(level, ok) ==
    /\ SecurityRequest /\ KeyChecked(level, ok) /\ Accepts(ok)
    /\ gate'   = Failure(KeyGate(ok), ok)
    /\ stored' = Written(FailureRecord(KeyGate(ok)), ok)
    /\ wrong'  = wrong + 1
    /\ faults' = IF ok THEN faults ELSE faults + 1
    /\ left'   = IF gate'.lock.active THEN LockoutMs ELSE left
    /\ UNCHANGED age

\* The record of a success is best effort.
KeyRight(level, ok) ==
    /\ SecurityRequest /\ KeyChecked(level, ok) /\ Accepts(ok)
    /\ gate'   = Success(KeyGate(ok), level)
    /\ stored' = Written(Clean, ok)
    /\ wrong'  = 0
    /\ faults' = IF ok THEN faults ELSE faults + 1
    /\ UNCHANGED <<left, age>>

S3Expired == (now - activity) % S3Mod >= S3Timeout

\* Mutant: the session falls back to Default and the gate stays as it is.
OnS3_KeepsGate(g) == g

OnS3(g) == ResetSession(g)

\* Mutant: only requests look at the security timers.
ServerGate_Unticked(ok) == gate

ServerGate(ok) == GateTick(gate, ok)

\* uds_server_tick(), from the super-loop; a reset it executes is a PowerCycle.
SecurityTick(ok) ==
    /\ TickStores(ok)
    /\ gate' = IF S3Expired THEN OnS3(ServerGate(ok)) ELSE ServerGate(ok)
    /\ session'  = IF S3Expired THEN "DEFAULT" ELSE session
    /\ activity' = IF S3Expired THEN now ELSE activity
    /\ late' = FALSE
    /\ UNCHANGED <<now, age>>

\* uds_server_apply_reset(): a reset without a restart of the program.
ApplyReset ==
    /\ gate' = ResetEcu(gate) /\ session' = "DEFAULT" /\ activity' = now
    /\ UNCHANGED <<now, late, stored, wrong, faults, left, age>>

\* The program starts: uds_server_init(), then uds_security_nvm_attach().  Storage
\* nothing was written to reads like a clean record.
Start(record) ==
    /\ gate' = Restore(record, 0)
    /\ session' = "DEFAULT" /\ now' = 0 /\ activity' = 0 /\ late' = FALSE
    /\ UNCHANGED <<left, age>>

PowerCycle ==
    /\ Start(stored) \/ (Persistent /\ Start(Unreadable))
    /\ UNCHANGED <<stored, wrong, faults>>

\* Power fails once the record of a wrong key is written: it is not answered.
CutInFailure ==
    /\ Persistent
    /\ session \in SecureSessions
    /\ \E level \in Levels : KeyChecked(level, TRUE)
    /\ stored' = FailureRecord(KeyGate(TRUE))
    /\ Start(stored')
    /\ UNCHANGED <<wrong, faults>>

\* Power fails once the end of a lockout is recorded.
CutInRelease ==
    /\ Persistent /\ LockoutDue(gate)
    /\ stored' = Clean /\ wrong' = 0 /\ faults' = 0
    /\ Start(Clean)

\* The super-loop ticks at least once a millisecond.
Elapse == /\ ~late /\ late' = TRUE
          /\ now' = (now + 1) % S3Mod
          /\ left' = IF left > 0 THEN left - 1 ELSE 0
          /\ age' = IF gate.seed.valid /\ age < SeedTimeout THEN age + 1 ELSE age
          /\ UNCHANGED <<gate, session, activity, stored, wrong, faults>>

Ticks == \E ok \in BOOLEAN : SecurityTick(ok)
Cuts  == PowerCycle \/ CutInFailure \/ CutInRelease

Next ==
    \/ \E ok \in BOOLEAN :
         \/ \E to \in Sessions : SessionChange(to, ok)
         \/ \E level \in Levels :
               SeedGranted(level, ok) \/ KeyWrong(level, ok) \/ KeyRight(level, ok)
         \/ SeedNotGranted(ok) \/ KeyRefused(ok) \/ SecurityTick(ok)
    \/ OtherRequest \/ ApplyReset \/ Elapse
    \/ PowerCycle \/ CutInFailure \/ CutInRelease

Spec == Init /\ [][Next]_vars

\* The super-loop ticks for ever and the clock runs; testers owe nothing.
FairSpec == Spec /\ WF_vars(Ticks) /\ WF_vars(Elapse)

-----------------------------------------------------------------------------
(* Properties. *)

States == {"LOCKED_READY", "WAITING_FOR_KEY", "UNLOCKED", "LOCKOUT"}
Time   == 0 .. S3Mod - 1
Seeds  == [valid : BOOLEAN, level : Levels \cup {0}, timer : BOOLEAN, expiry : Time]
Locks  == [active : BOOLEAN, until : Time]
Gates  == [failed : 0 .. MaxAttempts, level : Levels \cup {0}, state : States,
           seed : Seeds, lock : Locks]
Records == [failed : 0 .. MaxAttempts, remaining : 0 .. LockoutMs]

\* Types; the counters stay within the limit the code compares them with.
TypeOK ==
    /\ gate \in Gates /\ stored \in Records
    /\ session \in Sessions
    /\ now \in Time /\ activity \in Time /\ late \in BOOLEAN
    /\ wrong \in Nat /\ faults \in 0 .. MaxFaults
    /\ left \in 0 .. LockoutMs /\ age \in 0 .. SeedTimeout

Consistent(g) ==
    /\ g.lock.active <=> g.state = "LOCKOUT"
    /\ g.seed.valid <=> g.state = "WAITING_FOR_KEY"
    /\ g.seed.timer => g.seed.valid
    /\ g.state = "UNLOCKED" => g.level # 0
    /\ g.lock.active => g.level = 0
    /\ g.failed = MaxAttempts => g.lock.active

\* The flags of UdsSecurityGate, which are set in different functions, never
\* contradict each other: the state says LOCKOUT exactly while the lockout runs
\* and WAITING_FOR_KEY exactly while a seed is pending, neither a lockout nor a
\* counter at its limit leaves a level unlocked, and a counter at its limit is
\* never without its lockout.
GateConsistent == Consistent(gate)

\* Security does not outlive its session: whichever of a session change, an S3
\* timeout, a reset or a restart ends it, no level and no seed is left over.
AccessNeedsSession ==
    gate.level # 0 \/ gate.seed.valid => session \in SecureSessions

\* However resets, power failures and failed writes are arranged, a tester gets
\* no more than MaxAttempts wrong keys answered between two lockouts, plus one
\* for each write the storage refused.
AttemptsBounded == wrong <= MaxAttempts + faults

\* A lockout runs its full time in the real world: it ends early neither by a
\* session change, a reset or a restart nor at the wrap of the clock.
LockoutServed == left > 0 /\ faults = 0 => gate.lock.active

\* A level is unlocked only by a key for a seed of that level that has not
\* expired, and the seed is used up.
UnlockEarned ==
    [][gate'.level \notin {0, gate.level} =>
          /\ gate.seed.valid /\ gate.seed.level = gate'.level
          /\ SeedTimeout # 0 => age < SeedTimeout
          /\ ~gate'.seed.valid]_vars

\* Unless the ECU is restarted for ever, every lockout ends.
LockoutEnds ==
    <>[][~Cuts]_vars => (gate.lock.active ~> ~gate.lock.active)
=============================================================================
