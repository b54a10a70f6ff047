--------------------------- MODULE FdcanTransport ---------------------------
(***************************************************************************)
(* The FDCAN transport of the STM32C092 application and the loop around it *)
(* (examples/stm32c092): frames are handed to the TX FIFO of the controller*)
(* with a marker, the controller answers with events in its TX event FIFO, *)
(* and both an interrupt and the loop drain that FIFO.                     *)
(*                                                                         *)
(* uds_c092_fdcan_send() runs with interrupts enabled and is several steps;*)
(* what runs masked, and each interrupt, is one.  The endpoint (modelled in*)
(* Endpoint) is reduced to responses of one frame: what comes of a received*)
(* frame is a flow control, an answer, an ECUReset with or without answer.  *)
(***************************************************************************)
EXTENDS Integers, Sequences

CONSTANTS MarkerMod,    \* 256 message markers; 0 is that of foreign frames
          FirstMarker,  \* UDS_C092_FDCAN_TX_MARKER
          TxDepth,      \* elements of the TX FIFO: 3
          EventDepth,   \* elements of the TX event FIFO: 3
          Wirings,      \* the sets of TX event interrupts a project enables
          Handoff,      \* UDS_C092_RESET_TX_WAIT_MS
          MaxRx,        \* bound: frames received
          MaxForeign    \* bound: frames of the application itself

ASSUME FdcanAssumption ==
    /\ TxDepth \in Nat \ {0} /\ EventDepth \in Nat \ {0}
    /\ Handoff \in Nat \ {0} /\ MaxRx \in Nat /\ MaxForeign \in Nat
    /\ MarkerMod \in Nat /\ MarkerMod > 2
    /\ FirstMarker \in 1 .. MarkerMod - 1
    /\ Wirings \subseteq SUBSET {"new", "lost", "full"}

VARIABLES wired,   \* the TX event interrupts this project enables
          late,    \* whether the build stores tx_marker after the flags
          pc,      \* next step of the loop
          tr,      \* the flags and the marker of UdsC092FdcanTransport
          sub,     \* what send() is submitting: "control" or "answer"
          rxbox,   \* s_rx_frame, present iff s_rx_pending
          ep,      \* the slots of UdsIsoTpEndpoint
          reset,   \* reset_pending and reset_ready of the server
          wait,    \* milliseconds since the reset was handed to the platform
          txfifo, events,   \* the FIFOs of the controller
          irq,     \* TX event interrupts raised and not yet served
          rxs, foreign,     \* frames received and foreign frames sent, so far
          gone,    \* history: the latest frame of the endpoint has left
          done,    \* history: the endpoint counts that frame as transmitted
          alarm,   \* history: an error was raised since its submission
          missed,  \* history: its event was lost and no interrupt says so
          aliased  \* history: its marker was that of a frame not drained yet

fixed    == <<wired, late>>
loopVars == <<rxbox, ep, reset, wait>>
hwVars   == <<txfifo, events, irq>>
history  == <<gone, done, alarm, missed, aliased>>
submitted == <<done, gone, aliased, txfifo, events>>
counts   == <<rxs, foreign>>
vars     == <<fixed, pc, tr, sub, loopVars, hwVars, counts, history>>

Idle  == [pending |-> FALSE, complete |-> FALSE, error |-> FALSE,
          marker |-> FirstMarker]
Empty == [control |-> FALSE, pending |-> <<>>, flight |-> <<>>,
          queued |-> <<>>]

Init == /\ wired \in Wirings /\ late \in BOOLEAN
        /\ pc = "poll" /\ tr = Idle /\ sub = "none"
        /\ rxbox = <<>> /\ ep = Empty /\ reset = "none" /\ wait = <<>>
        /\ txfifo = <<>> /\ events = <<>> /\ irq = {}
        /\ rxs = 0 /\ foreign = 0
        /\ gone = FALSE /\ done = FALSE /\ alarm = FALSE /\ missed = FALSE
        /\ aliased = FALSE

-----------------------------------------------------------------------------
(* The controller, the application's other frames and the clock. *)

\* The frame at the head leaves; its event is stored, or lost when there is no
\* room.  An entry is `own' while it belongs to the endpoint's latest frame.
Transmit ==
    /\ txfifo # <<>>
    /\ LET e     == Head(txfifo)
           fits  == Len(events) < EventDepth
           flags == IF ~fits THEN {"lost"}
                    ELSE IF Len(events) + 1 = EventDepth THEN {"new", "full"}
                    ELSE {"new"}
       IN  /\ events' = IF fits THEN Append(events, e) ELSE events
           /\ irq' = irq \cup (flags \cap wired)
           /\ gone' = (gone \/ e.own)
           /\ missed' = (missed \/ (e.own /\ ~fits /\ "lost" \notin wired))
    /\ txfifo' = Tail(txfifo)
    /\ UNCHANGED <<fixed, counts, pc, tr, sub, loopVars, done, alarm, aliased>>

\* CANFD_SendClassicMessage() called by the application between two iterations.
SendForeign ==
    /\ pc = "poll" /\ Len(txfifo) < TxDepth
    /\ foreign < MaxForeign /\ foreign' = foreign + 1
    /\ txfifo' = Append(txfifo, [marker |-> 0, own |-> FALSE])
    /\ UNCHANGED <<fixed, rxs, pc, tr, sub, loopVars, events, irq, history>>

ClockTick == /\ wait # <<>> /\ wait[1] < Handoff
             /\ wait' = <<wait[1] + 1>>
             /\ UNCHANGED <<fixed, counts, pc, tr, sub, rxbox, ep, reset, hwVars,
                            history>>

-----------------------------------------------------------------------------
(* The interrupts. *)

\* uds_c092_app_rx_from_isr_ex(): one frame is kept, a second one is dropped.
RxInterrupt(outcome) ==
    /\ rxs < MaxRx /\ rxs' = rxs + 1
    /\ rxbox' = IF rxbox = <<>> THEN <<outcome>> ELSE rxbox
    /\ UNCHANGED <<fixed, foreign, pc, tr, sub, ep, reset, wait, hwVars,
                   history>>

\* Mutant: every event counts, whatever its marker.
Matching_AnyMarker(t, evs) == evs # <<>>

Matching(t, evs) == \E i \in DOMAIN evs : evs[i].marker = t.marker

\* drain_tx_events() empties the FIFO; only events with the marker of the latest
\* frame count.  Nothing is ever aborted, so every event is a FDCAN_TX_EVENT.
Drained(t, evs, fifoError) ==
    IF ~Matching(t, evs) THEN t
    ELSE [t EXCEPT !.pending = FALSE, !.complete = ~(fifoError \/ t.error),
                   !.error = fifoError \/ t.error]

\* uds_c092_fdcan_on_tx_event()
TxEventInterrupt ==
    /\ irq # {} /\ irq' = {}
    /\ LET fifoError == irq \cap {"lost", "full"} # {}
           t == IF fifoError THEN [tr EXCEPT !.pending = FALSE,
                                             !.complete = FALSE, !.error = TRUE]
                             ELSE tr
       IN  /\ tr' = IF "new" \in irq THEN Drained(t, events, fifoError) ELSE t
           /\ alarm' = (alarm \/ fifoError)
    /\ events' = IF "new" \in irq THEN <<>> ELSE events
    /\ UNCHANGED <<fixed, counts, pc, sub, loopVars, txfifo, gone, done,
                   missed, aliased>>

-----------------------------------------------------------------------------
(* One iteration of uds_c092_app_process(). *)

TxComplete(t) == ~t.error /\ ~t.pending /\ t.complete

\* complete_in_flight()
Completed(e) == [e EXCEPT !.flight = <<>>]
ReadyReset   == IF ep.flight # <<>> /\ ep.flight[1].reset /\ reset = "pending"
                THEN "ready" ELSE reset

\* start_response(): transmit, or keep one response for later, or drop it.
StartResponse(e, mark) ==
    LET response == <<[reset |-> mark]>>
    IN  IF e.pending = <<>> /\ e.flight = <<>>
          THEN [e EXCEPT !.pending = response]
        ELSE IF e.queued = <<>> THEN [e EXCEPT !.queued = response]
        ELSE e

\* uds_isotp_endpoint_receive(), by what comes of the frame; e and r are the
\* endpoint and the reset state it finds.
Received(outcome, e, r) ==
    IF r # "none" THEN [ep |-> e, reset |-> r]
    ELSE CASE outcome = "control"      -> [ep |-> [e EXCEPT !.control = TRUE],
                                           reset |-> r]
           [] outcome = "answer"       -> [ep |-> StartResponse(e, FALSE), reset |-> r]
           [] outcome = "reset"        -> [ep |-> StartResponse(e, TRUE),
                                           reset |-> "pending"]
           [] outcome = "silent_reset" -> [ep |-> e, reset |-> "ready"]

\* The masked part of an iteration (take the received frame, drain the events,
\* ask for completion) and the calls into the endpoint that follow it, which
\* touch nothing an interrupt does.
Poll ==
    /\ pc = "poll" /\ pc' = "process"
    /\ rxbox' = <<>> /\ events' = <<>>
    /\ LET t == Drained(tr, events, FALSE)
           c == TxComplete(t)
           e == IF c THEN Completed(ep) ELSE ep
           r == IF c THEN ReadyReset ELSE reset
           n == IF rxbox = <<>> THEN [ep |-> e, reset |-> r]
                                ELSE Received(rxbox[1], e, r)
       IN  /\ tr' = IF c THEN [t EXCEPT !.complete = FALSE] ELSE t
           /\ ep' = n.ep /\ reset' = n.reset
           /\ done' = (done \/ (c /\ ep.flight # <<>>))
    /\ UNCHANGED <<fixed, counts, sub, wait, txfifo, irq, gone, alarm,
                   missed, aliased>>

\* uds_isotp_endpoint_process(), by the branch it takes.
InFlightOk == /\ ep.flight # <<>> /\ ~tr.error /\ pc' = "tick"
              /\ UNCHANGED <<tr, sub, ep, reset, submitted>>

\* uds_c092_fdcan_tx_error() forgets what it reports; abort_in_flight() drops
\* the response, the one behind it and the reset it announced.  An interrupt
\* between its stores only sets flags that the next submission clears.
InFlightAborted ==
    /\ ep.flight # <<>> /\ tr.error /\ pc' = "tick"
    /\ tr' = [tr EXCEPT !.error = FALSE, !.complete = FALSE, !.pending = FALSE]
    /\ ep' = [ep EXCEPT !.flight = <<>>, !.queued = <<>>] /\ reset' = "none"
    /\ UNCHANGED <<sub, submitted>>

ToSend == IF ep.control THEN "control" ELSE "answer"
HasToSend == ep.flight = <<>> /\ (ep.control \/ ep.pending # <<>>)

SendRefused == /\ HasToSend /\ tr.pending /\ pc' = "tick"
               /\ UNCHANGED <<tr, sub, ep, reset, submitted>>

NextMarker(m) == IF (m + 1) % MarkerMod = 0 THEN 1 ELSE (m + 1) % MarkerMod

Disowned(entries) ==
    [i \in DOMAIN entries |-> [entries[i] EXCEPT !.own = FALSE]]

\* uds_c092_fdcan_send() takes a new marker.  tx_marker is not volatile, unlike
\* the flags: a `late' build stores it after them.
BeginSend ==
    /\ HasToSend /\ ~tr.pending /\ pc' = "pend" /\ sub' = ToSend
    /\ tr' = IF late THEN tr ELSE [tr EXCEPT !.marker = NextMarker(tr.marker)]
    /\ txfifo' = Disowned(txfifo) /\ events' = Disowned(events)
    /\ gone' = FALSE /\ done' = FALSE
    /\ aliased' = \E f \in {txfifo, events} : \E i \in DOMAIN f :
                     f[i].marker = NextMarker(tr.marker)
    /\ UNCHANGED <<ep, reset>>

SubmitQueued ==
    /\ ep.flight = <<>> /\ ~ep.control /\ ep.pending = <<>> /\ ep.queued # <<>>
    /\ pc' = "tick"
    /\ ep' = [ep EXCEPT !.pending = ep.queued, !.queued = <<>>]
    /\ UNCHANGED <<tr, sub, reset, submitted>>

NothingToDo == /\ ep = Empty /\ pc' = "tick"
               /\ UNCHANGED <<tr, sub, ep, reset, submitted>>

Process ==
    /\ pc = "process"
    /\ \/ InFlightOk \/ InFlightAborted \/ SendRefused
       \/ BeginSend \/ SubmitQueued \/ NothingToDo
    /\ UNCHANGED <<fixed, counts, rxbox, wait, irq, alarm, missed>>

PendSend ==
    /\ pc = "pend" /\ pc' = "clear"
    /\ tr' = [tr EXCEPT !.pending = TRUE] /\ alarm' = FALSE
    /\ UNCHANGED <<fixed, counts, sub, loopVars, hwVars, gone, done,
                   missed, aliased>>

Cleared(t) == [t EXCEPT !.complete = FALSE, !.error = FALSE]

ClearSend ==
    /\ pc = "clear" /\ pc' = "add" /\ tr' = Cleared(tr)
    /\ UNCHANGED <<fixed, counts, sub, loopVars, hwVars, history>>

\* Mutant: the transmitter stays busy with a frame the controller refused.
AddFailed_StaysBusy(t) == [t EXCEPT !.error = TRUE]

AddFailed(t) == [t EXCEPT !.pending = FALSE, !.error = TRUE]

\* HAL_FDCAN_AddMessageToTxFifoQ() takes the frame or finds the FIFO full.
AddSend ==
    /\ pc = "add" /\ sub' = "none"
    /\ LET m == IF late THEN NextMarker(tr.marker) ELSE tr.marker
           t == [tr EXCEPT !.marker = m]
       IN  IF Len(txfifo) < TxDepth
             THEN /\ txfifo' = Append(txfifo, [marker |-> m, own |-> TRUE])
                  /\ tr' = t
                  /\ ep' = IF sub = "control" THEN [ep EXCEPT !.control = FALSE]
                           ELSE [ep EXCEPT !.flight = ep.pending, !.pending = <<>>]
                  /\ pc' = IF sub = "control" THEN "tick" ELSE "check"
                  /\ UNCHANGED alarm
             ELSE /\ tr' = AddFailed(t) /\ alarm' = TRUE
                  /\ pc' = "tick" /\ UNCHANGED <<txfifo, ep>>
    /\ UNCHANGED <<fixed, counts, rxbox, reset, wait, events, irq, gone, done,
                   missed, aliased>>

\* process_tx_pending() asks for completion right after the submission.
CheckSend ==
    /\ pc = "check" /\ pc' = "tick"
    /\ IF TxComplete(tr)
         THEN /\ tr' = [tr EXCEPT !.complete = FALSE]
              /\ ep' = Completed(ep) /\ reset' = ReadyReset
              /\ done' = (done \/ ep.flight # <<>>)
         ELSE UNCHANGED <<tr, ep, reset, done>>
    /\ UNCHANGED <<fixed, counts, sub, rxbox, wait, hwVars, gone, alarm,
                   missed, aliased>>

\* uds_server_tick() executes a reset that is ready: the platform only notes the
\* time.  The server has forgotten the reset by then and accepts requests again.
TickHandsOver ==
    /\ pc = "tick" /\ pc' = "poll" /\ reset = "ready"
    /\ reset' = "none" /\ wait' = <<0>>
    /\ UNCHANGED <<fixed, counts, tr, sub, rxbox, ep, hwVars, history>>

TickNothing ==
    /\ pc = "tick" /\ pc' = "poll" /\ reset # "ready" /\ wait # <<Handoff>>
    /\ UNCHANGED <<fixed, counts, tr, sub, loopVars, hwVars, history>>

\* uds_c092_platform_reset_poll() resets the controller: main() runs again.
TickReboots ==
    /\ pc = "tick" /\ reset # "ready" /\ wait = <<Handoff>>
    /\ pc' = "poll" /\ tr' = Idle /\ sub' = "none"
    /\ rxbox' = <<>> /\ ep' = Empty /\ reset' = "none" /\ wait' = <<>>
    /\ txfifo' = <<>> /\ events' = <<>> /\ irq' = {}
    /\ gone' = FALSE /\ done' = FALSE /\ alarm' = FALSE /\ missed' = FALSE
    /\ aliased' = FALSE /\ UNCHANGED <<fixed, counts>>

-----------------------------------------------------------------------------
Outcomes == {"control", "answer", "reset", "silent_reset"}

Loop == \/ Poll \/ Process \/ PendSend \/ ClearSend \/ AddSend \/ CheckSend
        \/ TickHandsOver \/ TickNothing \/ TickReboots

Next == \/ Transmit \/ SendForeign \/ ClockTick
        \/ \E o \in Outcomes : RxInterrupt(o)
        \/ TxEventInterrupt
        \/ Poll \/ Process \/ PendSend \/ ClearSend \/ AddSend \/ CheckSend
        \/ TickHandsOver \/ TickNothing \/ TickReboots

\* The loop never stops, the controller transmits what it holds, an interrupt
\* that is raised is served.
Fairness == WF_vars(Loop) /\ WF_vars(Transmit) /\ WF_vars(TxEventInterrupt)

Spec == Init /\ [][Next]_vars
FairSpec == Spec /\ Fairness

-----------------------------------------------------------------------------
(* Properties *)

\* A build that stores tx_marker after the flags, in a project that enables
\* the error interrupts of the event FIFO: between the two stores the event of
\* a frame given up earlier carries the marker the transport still holds.
Raced == late /\ wired \cap {"lost", "full"} # {}

\* What the endpoint is told of a response is about that very frame.  It counts
\* it as transmitted, and lets the reset it announces go ahead, only when that
\* frame has left the controller (events of foreign frames, of flow controls and
\* of frames given up earlier do not count), and it aborts it only for an error
\* raised since its submission.  Excepted from the first are the race above and
\* a marker that came round (every refused submission takes one) to that of a
\* frame still to be drained.
OutcomeIsOwn == /\ done /\ ~Raced /\ ~aliased => gone
                /\ ep.flight # <<>> /\ tr.error => alarm

\* The adapter's guide, of ECUReset: "The application calls
\* uds_isotp_endpoint_tx_complete() only after the adapter reports the matching
\* successful TX event."  Without the exceptions above this is not so.
MatchingEventOnly == done => gone

\* The transmitter does not stay busy and no response stays in flight for ever,
\* unless the event of its frame was lost and no interrupt reports the loss.
TransmitterReleased == /\ tr.pending ~> (~tr.pending \/ missed)
                       /\ (ep.flight # <<>>) ~> (ep.flight = <<>> \/ missed)
=============================================================================
