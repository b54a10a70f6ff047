------------------------------ MODULE DtcStore ------------------------------
(***************************************************************************)
(* The trouble-code memory of App/Src/uds_dtc_app.c: the codes of the ROM   *)
(* table, the few codes registered at run time, their status in RAM, and    *)
(* the block that every change writes to the parameter store, from which    *)
(* the next start reads it back.                                           *)
(*                                                                         *)
(* A status byte is the set of its bits.  A snapshot is where its bytes     *)
(* come from: the ROM table, the built-in default, or a call that records   *)
(* one.  Severity and functional unit never change once a record exists,    *)
(* and the extended-data bytes are read by no report; both are left out.    *)
(* The store is attached directly after uds_dtc_app_init(), and writes the  *)
(* whole block or nothing (module ParamStore).                              *)
(***************************************************************************)
EXTENDS Integers, Sequences, FiniteSets, SequencesExt

CONSTANTS StaticOrder,   \* s_rom_dtc_defs: the codes of the ROM table, in order
          Baseline,      \* those with a fault and a snapshot in the ROM table
          OtherDtcs,     \* codes outside the table that set_fault() may name
          Group,         \* the functional group of each code
          MaxDynamic,    \* UDS_DTC_DYNAMIC_MAX
          MaxSnapshots,  \* UDS_DTC_NV_MAX_SNAPSHOTS
          FdcMin, FdcMax, FdcStep,    \* fault counter: -128, 127 and 16
          AgingLimit,    \* passing reports after which a code is aged out: 40
          CounterMax,    \* the counters are uint8_t: 255
          RomFault,      \* status, fault counter and occurrences of the baseline codes
          ExtValues,     \* counter values set_extended_data() is called with
          Faults,        \* what set_fault() is called with: [status, fault]
          MaxOps,        \* bound on calls that change the memory, other than
          MaxReports,    \* bound on reported events
          MaxFailures    \* bound on saves that fail

StaticDtcs == ToSet(StaticOrder)
Dtcs       == StaticDtcs \cup OtherDtcs

ASSUME DtcAssumption ==
    /\ StaticOrder \in Seq(StaticDtcs) /\ IsInjective(StaticOrder)
    /\ StaticDtcs \cap OtherDtcs = {}
    /\ Baseline \subseteq StaticDtcs /\ DOMAIN Group = Dtcs
    /\ MaxDynamic \in Nat /\ MaxSnapshots \in Nat
    /\ FdcStep \in Nat \ {0} /\ FdcMax \in Nat \ {0} /\ FdcMin \in Int /\ FdcMin < 0
    /\ AgingLimit \in 1 .. CounterMax /\ CounterMax \in Nat
    /\ MaxOps \in Nat /\ MaxReports \in Nat /\ MaxFailures \in Nat

VARIABLES ram,       \* UdsDtcRamStatus of every code that has a record
          dynamic,   \* dynamic_records: the codes registered at run time
          setting,   \* dtc_setting_enabled of the application
          server,    \* dtc_setting_enabled of the UDS server
          nvm,       \* the block in the parameter store, or NoBlock
          missed,    \* history: the last save since the start failed
          quiet,     \* history: passing reports at the floor since the last failure
          granted,   \* history: codes whose aging the program did not count itself
          unsaved,   \* history: codes that failed or were cleared, not saved since
          ops, reports, failures    \* calls, reports and failed saves so far

history == <<quiet, granted, unsaved>>

vars == <<ram, dynamic, setting, server, nvm, missed, history, ops, reports, failures>>

Bits == {"testFailed", "failedThisCycle", "pending", "confirmed",
         "notCompletedSinceClear", "failedSinceClear", "notCompletedThisCycle",
         "warningIndicator"}

NotCompleted == {"notCompletedSinceClear", "notCompletedThisCycle"}

ASSUME InputAssumption ==
    /\ ExtValues \subseteq 0 .. CounterMax
    /\ RomFault \in [Baseline -> [status : SUBSET Bits, fault : FdcMin .. FdcMax,
                                  occurrence : 0 .. CounterMax]]
    /\ Faults \subseteq [status : SUBSET Bits, fault : FdcMin .. FdcMax]

\* UDS_DTC_STATUS_CLEARED
Cleared == NotCompleted

NoSnapshot == "none"
Snapshots  == {"rom", "default", "recorded"}

Counter == 0 .. CounterMax

RamStatus == [status : SUBSET Bits, fault : FdcMin .. FdcMax, occurrence : Counter,
              pending : Counter, aging : Counter, aged : Counter,
              active : BOOLEAN, snapshot : Snapshots \cup {NoSnapshot}]

-----------------------------------------------------------------------------
(* Records. *)

RomSnapshot(d) == IF d \in Baseline THEN "rom" ELSE NoSnapshot

\* uds_dtc_app_init(): the baseline codes start active and at their aging limit.
RomStatus(d) ==
    IF d \in Baseline
    THEN [status |-> RomFault[d].status, fault |-> RomFault[d].fault,
          occurrence |-> RomFault[d].occurrence, pending |-> 0,
          aging |-> AgingLimit, aged |-> 0, active |-> TRUE, snapshot |-> "rom"]
    ELSE [status |-> Cleared, fault |-> 0, occurrence |-> 0, pending |-> 0,
          aging |-> 0, aged |-> 0, active |-> FALSE, snapshot |-> NoSnapshot]

\* get_total_record_count(): the ROM table, then the dynamic records.
Order(dy) == StaticOrder \o dy

\* find_dtc_index() >= 0
Known(d) == d \in StaticDtcs \cup ToSet(dynamic)

\* get_dtc_record(): without a snapshot of its own a code shows that of the ROM
\* table, after it was cleared too.
Shown(r, d) == IF r.snapshot # NoSnapshot THEN r.snapshot ELSE RomSnapshot(d)

Bump(n) == IF n < CounterMax THEN n + 1 ELSE n

\* clear_single_ram_record(), and uds_dtc_app_clear_fault() for one code.
ClearedRecord == [status |-> Cleared, fault |-> 0, occurrence |-> 0, pending |-> 0,
                  aging |-> 0, aged |-> 0, active |-> FALSE, snapshot |-> NoSnapshot]

WithSnapshot(r) == IF r.snapshot = NoSnapshot THEN "default" ELSE r.snapshot

FailedMask == {"testFailed", "failedThisCycle", "pending", "confirmed",
               "failedSinceClear"}

\* Mutant: a failure does not start the ageing again.
Matured_AgingKept(r) ==
    [r EXCEPT !.active = TRUE,
              !.status = (r.status \cup FailedMask) \ NotCompleted,
              !.occurrence = Bump(r.occurrence), !.snapshot = WithSnapshot(r)]

\* Mutant: a code that has failed is not marked active.
Matured_Hidden(r) ==
    [r EXCEPT !.aging = 0,
              !.status = (r.status \cup FailedMask) \ NotCompleted,
              !.occurrence = Bump(r.occurrence), !.snapshot = WithSnapshot(r)]

\* The part of debounce_fault_failed() for a counter that has reached its end.
Matured(r) ==
    [r EXCEPT !.active = TRUE, !.aging = 0,
              !.status = (r.status \cup FailedMask) \ NotCompleted,
              !.occurrence = Bump(r.occurrence), !.snapshot = WithSnapshot(r)]

\* Mutant: the counter is not stopped at its end.
StepUp_NoLimit(n) == n + FdcStep

StepUp(n) == IF n <= FdcMax - FdcStep THEN n + FdcStep ELSE FdcMax

\* debounce_fault_failed()
DebounceFailed(r) ==
    LET fault == StepUp(r.fault)
        early == IF fault > 0
                 THEN [r EXCEPT !.fault = fault, !.pending = Bump(r.pending),
                                !.status = r.status \cup {"pending"}]
                 ELSE [r EXCEPT !.fault = fault]
    IN  IF fault >= FdcMax THEN Matured(early) ELSE early

\* debounce_fault_passed()
DebouncePassed(r) ==
    LET fault == IF r.fault >= FdcMin + FdcStep THEN r.fault - FdcStep ELSE FdcMin
        aging == Bump(r.aging)
        old   == aging >= AgingLimit
    IN  IF fault > FdcMin
        THEN [r EXCEPT !.fault = fault]
        ELSE [r EXCEPT !.fault = fault, !.aging = aging,
                       !.aged = IF old THEN Bump(r.aged) ELSE r.aged,
                       !.status = (r.status \ ({"testFailed"} \cup NotCompleted))
                                  \ (IF old THEN {"confirmed"} ELSE {})]

-----------------------------------------------------------------------------
(* The block in the parameter store. *)

\* Status, counters and the active flag: what records[] of the block holds.
Persistent(r) == [r EXCEPT !.snapshot = NoSnapshot]

\* The codes whose snapshots fit the block, the first ones in table order.
StoredSnapshots(r, dy) ==
    LET dtc(i) == Order(dy)[i]
        with   == {i \in DOMAIN Order(dy) : Shown(r[dtc(i)], dtc(i)) # NoSnapshot}
        first  == {i \in with : Cardinality({j \in with : j < i}) < MaxSnapshots}
    IN  {dtc(i) : i \in first}

NoBlock == [valid |-> FALSE]

\* uds_dtc_app_save_to_nvm(): the block it hands to uds_param_save().
Block(r, dy) ==
    [valid |-> TRUE, dynamic |-> dy, rec |-> [d \in DOMAIN r |-> Persistent(r[d])],
     snapshot |-> [d \in StoredSnapshots(r, dy) |-> Shown(r[d], d)]]

InitialRam == [d \in StaticDtcs |-> RomStatus(d)]

\* uds_dtc_app_init() and uds_dtc_app_load_from_nvm(): what a start makes of a
\* block.  A record without a snapshot in the block keeps that of the ROM table.
Booted(b) ==
    IF ~b.valid
    THEN [dynamic |-> <<>>, ram |-> InitialRam]
    ELSE LET n  == IF Len(b.dynamic) < MaxDynamic THEN Len(b.dynamic) ELSE MaxDynamic
             dy == SubSeq(b.dynamic, 1, n)
         IN  [dynamic |-> dy,
              ram |-> [d \in StaticDtcs \cup ToSet(dy) |->
                        [b.rec[d] EXCEPT !.snapshot =
                           IF d \in DOMAIN b.snapshot THEN b.snapshot[d]
                                                      ELSE RomSnapshot(d)]]]

-----------------------------------------------------------------------------
(* Operations.  Each one changes RAM, saves the block and ignores the result. *)

\* uds_dtc_app_init() and uds_dtc_app_attach_nvm(), with uds_server_init().
Boot(b) == /\ ram' = Booted(b).ram /\ dynamic' = Booted(b).dynamic
           /\ setting' = TRUE /\ server' = TRUE
           /\ nvm' = b /\ missed' = FALSE

\* Power fails between two calls.  The reports made remain made; a failure or a
\* clear that no save recorded is forgotten, and the aging before it is back.
PowerCycle == /\ Boot(nvm)
              /\ granted' = granted \cup unsaved /\ unsaved' = {}
              /\ UNCHANGED <<quiet, ops, reports, failures>>

\* The save at the end of a call succeeds, or fails and leaves the old block.
\* Power that fails in it leaves the old block or the new one, as PowerCycle
\* before or after the call does.
Save(r, dy) ==
    /\ ram' = r /\ dynamic' = dy
    /\ \/ nvm' = Block(r, dy) /\ missed' = FALSE /\ UNCHANGED failures
       \/ /\ failures < MaxFailures /\ failures' = failures + 1
          /\ nvm' = nvm /\ missed' = TRUE
    /\ UNCHANGED <<setting, server>>

\* What an observer of the calls notes: codes that start anew because they
\* failed or were cleared, those with a passing report at the floor of their
\* counter, and those whose aging the caller dictates.
Observe(anew, passed, dictated) ==
    /\ quiet' = [d \in Dtcs |-> IF d \in anew THEN 0
                                ELSE IF d \in passed /\ quiet[d] < AgingLimit
                                     THEN quiet[d] + 1 ELSE quiet[d]]
    /\ granted' = (granted \ anew) \cup dictated
    /\ unsaved' = IF missed' THEN unsaved \cup anew ELSE {}

Call       == ops < MaxOps /\ ops' = ops + 1 /\ UNCHANGED reports
ReportCall == reports < MaxReports /\ reports' = reports + 1 /\ UNCHANGED ops

\* uds_dtc_app_set_fault() on a code that has a record.
Faulted(r, status, fault) ==
    LET failed == "testFailed" \in status
    IN  [r EXCEPT !.active = TRUE, !.status = status, !.fault = fault,
                  !.occurrence = IF failed THEN Bump(@) ELSE @,
                  !.aging = IF failed THEN 0 ELSE @,
                  !.pending = IF "pending" \in status THEN Bump(@) ELSE @,
                  !.snapshot = WithSnapshot(r)]

\* The dynamic record uds_dtc_app_set_fault() appends for a new code.
NewRecord(status, fault) ==
    [status |-> status, fault |-> fault,
     occurrence |-> IF "testFailed" \in status THEN 1 ELSE 0,
     pending |-> IF "pending" \in status THEN 1 ELSE 0,
     aging |-> 0, aged |-> 0, active |-> TRUE, snapshot |-> "default"]

\* uds_dtc_app_set_fault().  It does nothing, and says so only when the table
\* is full, while the setting is off or no record is left.
SetFault(d, status, fault) ==
    /\ setting /\ Call
    /\ \/ /\ Known(d)
          /\ Save([ram EXCEPT ![d] = Faulted(@, status, fault)], dynamic)
       \/ /\ ~Known(d) /\ Len(dynamic) < MaxDynamic
          /\ Save([c \in DOMAIN ram \cup {d} |->
                      IF c = d THEN NewRecord(status, fault) ELSE ram[c]],
                  Append(dynamic, d))
    /\ Observe(IF "testFailed" \in status THEN {d} ELSE {}, {}, {})

\* uds_dtc_app_report_event()
ReportEvent(d, failed) ==
    /\ setting /\ Known(d) /\ ReportCall
    /\ LET r == IF failed THEN DebounceFailed(ram[d]) ELSE DebouncePassed(ram[d])
       IN  /\ Save([ram EXCEPT ![d] = r], dynamic)
           /\ Observe(IF failed /\ r.fault = FdcMax THEN {d} ELSE {},
                      IF ~failed /\ r.fault = FdcMin THEN {d} ELSE {}, {})

\* Codes that ClearDiagnosticInformation names: all, a group, or one code.  A
\* group without a record is looked up as a code, and refused.
ClearSet(target) ==
    {d \in DOMAIN ram : \/ target = "all" \/ target = d \/ Group[d] = target}

\* Mutant: cleared in RAM only.
Clear_NoSave(target) ==
    /\ ClearSet(target) # {} /\ Call
    /\ ram' = [d \in DOMAIN ram |-> IF d \in ClearSet(target) THEN ClearedRecord ELSE ram[d]]
    /\ UNCHANGED <<dynamic, setting, server, nvm, missed, failures>>
    /\ Observe(ClearSet(target), {}, {})

\* uds_dtc_app_clear(), and uds_dtc_app_clear_fault() for one code.
Clear(target) ==
    /\ ClearSet(target) # {} /\ Call
    /\ Save([d \in DOMAIN ram |-> IF d \in ClearSet(target) THEN ClearedRecord ELSE ram[d]],
            dynamic)
    /\ Observe(ClearSet(target), {}, {})

\* uds_dtc_app_set_snapshot()
SetSnapshot(d) ==
    /\ Known(d) /\ Call
    /\ Save([ram EXCEPT ![d].snapshot = "recorded"], dynamic)
    /\ Observe({}, {}, {})

\* uds_dtc_app_set_global_snapshot()
SetGlobalSnapshot(d) ==
    /\ Known(d) /\ Call
    /\ Save([ram EXCEPT ![d].snapshot = "recorded"], dynamic)
    /\ Observe({}, {}, {})

\* uds_dtc_app_set_extended_data(): the caller dictates the four counters.
SetExtendedData(d, n) ==
    /\ Known(d) /\ Call
    /\ Save([ram EXCEPT ![d].occurrence = n, ![d].pending = n, ![d].aged = n,
                        ![d].aging = n], dynamic)
    /\ Observe({}, {}, {d})

\* Mutant: the server notes the wish, the application is not told.
ControlDtcSetting_ServerOnly(on) == server' = on /\ UNCHANGED
    <<setting, ram, dynamic, nvm, missed, history, ops, reports, failures>>

\* service_dtc_setting() with uds_dtc_app_control_setting().
ControlDtcSetting(on) ==
    /\ setting' = on /\ server' = on
    /\ UNCHANGED <<ram, dynamic, nvm, missed, history, ops, reports, failures>>

-----------------------------------------------------------------------------
(* ReadDTCInformation. *)

\* dtc_report_list_by_mask() and, counting the same codes,
\* dtc_report_count_by_mask().
ReportByMask(mask) == {d \in DOMAIN ram : ram[d].active /\ ram[d].status \cap mask # {}}

\* dtc_report_wwh_obd_by_mask(): the confirmed codes, whatever the mask.
ReportConfirmed == {d \in DOMAIN ram : ram[d].active /\ "confirmed" \in ram[d].status}

-----------------------------------------------------------------------------
Init == /\ ram = Booted(NoBlock).ram /\ dynamic = Booted(NoBlock).dynamic
        /\ quiet = [d \in Dtcs |-> 0] /\ granted = Baseline /\ unsaved = {}
        /\ setting = TRUE /\ server = TRUE
        /\ nvm = NoBlock /\ missed = FALSE
        /\ ops = 0 /\ reports = 0 /\ failures = 0

Targets == {"all"} \cup Dtcs \cup {Group[d] : d \in Dtcs}

Next == \/ \E d \in Dtcs, f \in Faults : SetFault(d, f.status, f.fault)
        \/ \E d \in Dtcs, failed \in BOOLEAN : ReportEvent(d, failed)
        \/ \E t \in Targets : Clear(t)
        \/ \E d \in Dtcs : SetSnapshot(d) \/ SetGlobalSnapshot(d)
        \/ \E d \in Dtcs, n \in ExtValues : SetExtendedData(d, n)
        \/ \E on \in BOOLEAN : ControlDtcSetting(on)
        \/ PowerCycle

Spec == Init /\ [][Next]_vars

-----------------------------------------------------------------------------
(* Properties. *)

\* Every field keeps its type; the dynamic records are distinct, outside the
\* ROM table and within their array, in RAM and in the block alike.
TypeOK ==
    /\ dynamic \in Seq(OtherDtcs) /\ IsInjective(dynamic) /\ Len(dynamic) <= MaxDynamic
    /\ ram \in [StaticDtcs \cup ToSet(dynamic) -> RamStatus]
    /\ setting \in BOOLEAN /\ server \in BOOLEAN /\ missed \in BOOLEAN
    /\ quiet \in [Dtcs -> 0 .. AgingLimit]
    /\ granted \subseteq Dtcs /\ unsaved \subseteq Dtcs
    /\ ops \in 0 .. MaxOps /\ reports \in 0 .. MaxReports /\ failures \in 0 .. MaxFailures
    /\ nvm.valid => /\ nvm.dynamic \in Seq(OtherDtcs)
                    /\ IsInjective(nvm.dynamic) /\ Len(nvm.dynamic) <= MaxDynamic
                    /\ nvm.rec \in [StaticDtcs \cup ToSet(nvm.dynamic) -> RamStatus]
                    /\ DOMAIN nvm.snapshot \subseteq DOMAIN nvm.rec

\* Unless the last save failed, a restart at this moment changes nothing a
\* tester can read: the same codes in the same order, the same status and
\* counters (uds_dtc_app_save_to_nvm(), uds_dtc_app_load_from_nvm()), and the
\* same snapshots except those that did not fit the block, which give way to
\* the ROM table's.
RestartAgrees ==
    ~missed => LET b == Booted(nvm) IN
        /\ b.dynamic = dynamic
        /\ \A d \in DOMAIN ram :
             /\ Persistent(b.ram[d]) = Persistent(ram[d])
             /\ Shown(b.ram[d], d) = IF ~nvm.valid \/ d \in StoredSnapshots(ram, dynamic)
                                     THEN Shown(ram[d], d) ELSE RomSnapshot(d)

\* A code that failed or is confirmed is in the answer to 19 02 09, and a
\* confirmed one in that to 19 55, whatever reports, clears, failed saves and
\* restarts came before.
FailedIsListed ==
    \A d \in DOMAIN ram :
        /\ ram[d].status \cap {"testFailed", "confirmed"} # {} =>
             d \in ReportByMask({"testFailed", "confirmed"})
        /\ "confirmed" \in ram[d].status => d \in ReportConfirmed

\* A passing report takes the confirmed bit away only when at least AgingLimit
\* passing reports at the floor of the counter were made since the code last
\* failed or was cleared, across restarts, failed saves and lost records
\* (debounce_fault_passed()).  The exceptions are a baseline code, which starts
\* at its limit, a counter that set_extended_data() dictated, and a failure or
\* clear whose own save failed and was undone by a restart.
ConfirmedAgesOut ==
    [][\A d \in DOMAIN ram :
          ReportEvent(d, FALSE) =>
          \/ "confirmed" \notin ram[d].status \/ "confirmed" \in ram'[d].status
          \/ d \in granted \/ quiet'[d] >= AgingLimit]_vars

\* Once the server has acknowledged ControlDTCSetting off, no status changes
\* except by being cleared, and no code is registered (uds_dtc_app_set_fault(),
\* uds_dtc_app_report_event()) until it is switched on or the ECU restarts.
SettingOffFreezes ==
    [][~server /\ ~server' =>
          /\ dynamic' = dynamic
          /\ \A d \in DOMAIN ram : ram'[d].status \in {ram[d].status, Cleared}]_vars
=============================================================================
