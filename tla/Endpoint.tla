------------------------------ MODULE Endpoint ------------------------------
(***************************************************************************)
(* The diagnostic endpoint of the STM32F767 application: the super-loop of *)
(* Core/Src/main.c and App/Src/uds_app.c around library/src/endpoint.c,    *)
(* with the receive ring an interrupt fills, the CAN mailboxes of          *)
(* App/Src/can_transport.c, the ISO-TP state of IsoTp, the server of       *)
(* UdsSession and the diagnostic task that polls the transport as well.    *)
(*                                                                         *)
(* One loop iteration is five steps (Poll, Receive, Process, Tick,         *)
(* Diagnose); the CAN interrupt, the mailbox hardware and the millisecond  *)
(* tick act between any two of them.  The tester sends what it likes,      *)
(* within a budget.                                                        *)
(***************************************************************************)
EXTENDS IsoTp, UdsSession, FiniteSets

CONSTANTS Ops,           \* the operations the tester asks for, in single frames
          Functional,    \* those it may also ask for functionally
          Multi,         \* whether the tester also sends segmented requests
          RingSlots,     \* UDS_APP_RX_FIFO_CAPACITY: 8, one slot stays free
          Mailboxes,     \* the three transmit mailboxes of bxCAN
          DiagPeriod,    \* period of App_DiagnosticTask(): 100 ms
          Pipelined,     \* whether the tester sends before it has its answer
          MaxFrames,     \* bound: frames the tester sends
          MaxTxLoss,     \* bound: frames that fail on the bus
          MaxBusOff      \* bound: bus-off episodes

ASSUME EndpointAssumption == /\ RingSlots \in Nat \ {0}
                             /\ IsFiniteSet(Mailboxes) /\ Mailboxes # {}
                             /\ MaxFrames \in Nat /\ MaxTxLoss \in Nat
                             /\ MaxBusOff \in Nat /\ DiagPeriod \in Nat
                             /\ S3Mod = ClockMod
                             \* Every answer fits: UDS_MAX_RESPONSE_LENGTH (4095,
                             \* here Len(Long)) <= ISOTP_MAX_PAYLOAD (16384).
                             /\ TxMax >= 4

VARIABLES pc,        \* next step of the loop
          clock,     \* HAL_GetTick()
          now,       \* the now_ms the present iteration works with
          lastDiag,  \* s_last_diag_tick
          ring,      \* s_rx_fifo
          frame,     \* the frame this iteration took from the ring, if any
          rx, tx,    \* IsoTpRx and IsoTpTx
          pending,   \* pending_frame and its flags, present iff tx_pending
          flight,    \* the in_flight flags, present iff tx_in_flight
          txReset,   \* tx_reset_completion
          queued,    \* queued_response and its flag, present iff one is pending
          control,   \* pending_control_frame, present iff control_pending
          srv,       \* UdsServer
          mbox,      \* frame waiting in each mailbox
          mask,      \* tx_mailbox_mask
          txError,   \* tx_error_occurred
          busOff,    \* the controller is bus-off
          frames,    \* frames the tester has sent
          offs,      \* bus-off episodes so far
          losses,    \* frames that failed on the bus so far
          answer,    \* history: what became of the answer to the pending ECUReset
          silent     \* history: an ECUReset with suppressed answer was accepted

loopVars == <<frame, rx, tx, pending, flight, txReset, queued, control, srv>>
canVars  == <<mbox, mask, txError>>
envVars  == <<clock, ring, busOff, frames, offs, losses>>
history  == <<answer, silent>>
vars     == <<pc, now, lastDiag, loopVars, canVars, envVars, history>>

NoFrames == [m \in Mailboxes |-> <<>>]

Init == /\ pc = "poll" /\ clock = 0 /\ now = 0 /\ lastDiag = 0
        /\ ring = <<>> /\ frame = <<>> /\ rx = RxReset /\ tx = TxReset
        /\ pending = <<>> /\ flight = <<>> /\ txReset = FALSE
        /\ queued = <<>> /\ control = <<>> /\ srv = ServerInit(0)
        /\ mbox = NoFrames /\ mask = {} /\ txError = FALSE /\ busOff = FALSE
        /\ answer = "none" /\ silent = FALSE
        /\ frames = 0 /\ offs = 0 /\ losses = 0

-----------------------------------------------------------------------------
(* The environment: tester and receive interrupt, mailboxes, bus, tick. *)

SingleFrame(q) == [type |-> "SF", len |-> 2, data |-> <<q, q>>]

\* A segmented request of four bytes: a first and two consecutive frames.
Read == [op |-> "READ", spr |-> FALSE]
Segments == {[type |-> "FF", len |-> 4, data |-> <<Read>>],
             [type |-> "CF", sn |-> 1, data |-> <<Read, Read>>],
             [type |-> "CF", sn |-> 2, data |-> <<Read, Read>>]}

TesterFrames ==
    [addr : {"physical"}, f : {SingleFrame(q) : q \in RequestsFor(Ops)}]
    \cup [addr : {"functional"}, f : {SingleFrame(q) : q \in RequestsFor(Functional)}]
    \cup [addr : {"physical"}, f : IF Multi THEN Segments ELSE {}]
    \cup [addr : {"physical"}, f : {[type |-> "FC", fs |-> "CTS", bs |-> 0, st |-> 0]}]

Waiting == \/ ring # <<>> \/ frame # <<>> \/ pending # <<>> \/ flight # <<>>
           \/ queued # <<>> \/ tx.state # "IDLE"

\* Mutant: the last free slot is used, so that a full ring looks empty.
RingFull_NoFreeSlot(r) == Len(r) >= RingSlots

RingFull(r) == Len(r) >= RingSlots - 1

\* The CAN interrupt stores a frame, or drops it when the ring is full.
TesterSends(tf) ==
    /\ frames < MaxFrames /\ frames' = frames + 1
    /\ ~busOff
    /\ Pipelined \/ tf.f.type = "FC" \/ ~Waiting
    /\ ring' = IF RingFull(ring) THEN ring ELSE Append(ring, tf)
    /\ UNCHANGED <<pc, now, lastDiag, clock, loopVars, canVars, busOff, offs, losses,
                   history>>

IsResetAnswer(f) == f.type = "SF" /\ f.data[1] = "RESET_OK"

\* What the bus does to the frame f: it is acknowledged, or it fails.
Fate(f, fate) == answer' = IF IsResetAnswer(f) THEN fate ELSE answer

\* A mailbox wins arbitration and its frame is acknowledged.
Transmit(m) ==
    /\ mbox[m] # <<>> /\ ~busOff
    /\ mbox' = [mbox EXCEPT ![m] = <<>>]
    /\ Fate(mbox[m][1], "sent")
    /\ UNCHANGED <<pc, now, lastDiag, loopVars, mask, txError, envVars, silent>>

\* MX_CAN1_Init() disables automatic retransmission: a frame that loses
\* arbitration or is not acknowledged leaves its mailbox all the same.
TransmitFails(m) ==
    /\ mbox[m] # <<>> /\ ~busOff /\ losses < MaxTxLoss
    /\ mbox' = [mbox EXCEPT ![m] = <<>>] /\ losses' = losses + 1
    /\ Fate(mbox[m][1], "lost")
    /\ UNCHANGED <<pc, now, lastDiag, loopVars, mask, txError, clock, ring, busOff, frames,
                   offs, silent>>

\* Automatic bus-off recovery is disabled too, and nothing calls
\* uds_can_transport_recover(): only a reset ends the bus-off state.
BusGoesOff == /\ offs < MaxBusOff /\ ~busOff
              /\ busOff' = TRUE /\ offs' = offs + 1
              /\ UNCHANGED <<pc, now, lastDiag, loopVars, canVars, clock, ring, frames, losses,
                             history>>

\* The loop runs at least once per millisecond.
ClockTick == /\ clock = now /\ clock' = (clock + 1) % ClockMod
             /\ UNCHANGED <<pc, now, lastDiag, loopVars, canVars, ring, busOff, frames, offs,
                            losses, history>>

-----------------------------------------------------------------------------
(* The CAN transport. *)

\* uds_can_transport_tx_complete(): also true when nothing was ever submitted.
TxComplete(boxes, used) == ~txError /\ \A m \in used : boxes[m] = <<>>

\* Mutant: a failed submission is never reported, nor forgotten.
TransportError_BusOffOnly == busOff

\* uds_can_transport_tx_error(): one report per failed submission, or bus-off.
\* The transmit bits of ErrorCode it looks at last are set by the HAL's transmit
\* interrupt only, which main() does not enable: that branch is never taken.
TransportError == txError \/ busOff

AbortMailboxes ==
    /\ mbox' = [m \in Mailboxes |-> IF m \in mask THEN <<>> ELSE mbox[m]]
    /\ mask' = {} /\ txError' = FALSE

\* uds_can_transport_send() takes a free mailbox; without one it fails and
\* remembers the failure.  `instant' : the frame left before the next call.
Send(f, instant) ==
    \E m \in Mailboxes :
        /\ mbox[m] = <<>> /\ (instant => ~busOff)
        /\ mbox' = [mbox EXCEPT ![m] = IF instant THEN <<>> ELSE <<f>>]
        /\ IF instant THEN Fate(f, "sent") ELSE UNCHANGED answer
        /\ mask' = mask \cup {m}
        /\ UNCHANGED txError

SendFails == /\ \A m \in Mailboxes : mbox[m] # <<>>
             /\ txError' = TRUE
             /\ UNCHANGED <<mbox, mask, answer>>

-----------------------------------------------------------------------------
(* The endpoint. *)

ResponseResetPending(s) == s.reset_pending /\ s.reset_type # "none"

\* complete_in_flight()
CompleteInFlight(fl, s) ==
    IF fl # <<>> /\ fl[1].final /\ fl[1].reset THEN CompleteReset(s) ELSE s

\* start_response(): transmit, or keep one response for later, or drop it.
StartResponse(response, reset) ==
    IF pending # <<>> \/ flight # <<>> \/ tx.state # "IDLE"
    THEN /\ queued' = IF queued = <<>> THEN <<[payload |-> response, reset |-> reset]>>
                                       ELSE queued
         /\ UNCHANGED <<tx, pending, txReset>>
    ELSE LET r == TxStart(tx, response, now)
         IN  /\ tx' = r.tx
             /\ pending' = <<[frame |-> r.out[1], final |-> r.tx.state = "IDLE",
                              reset |-> reset]>>
             /\ txReset' = reset
             /\ UNCHANGED queued

\* Mutant: the reset is completed when the request is handled, not when the
\* answer has been sent.
HandleRequest_ImmediateReset(request) ==
    LET h    == Handle(srv, request, now)
        mine == ~srv.reset_pending /\ ResponseResetPending(h.srv)
    IN  /\ silent' = (silent \/ (mine /\ h.response = <<>>))
        /\ srv' = IF mine THEN CompleteReset(h.srv) ELSE h.srv
        /\ IF h.response = <<>>
             THEN UNCHANGED <<tx, pending, txReset, queued>>
             ELSE StartResponse(h.response, mine)

\* handle_rx_completion()
HandleRequest(request) ==
    LET h    == Handle(srv, request, now)
        mine == ~srv.reset_pending /\ ResponseResetPending(h.srv)
    IN  /\ silent' = (silent \/ (mine /\ h.response = <<>>))
        /\ IF h.response = <<>>
             THEN /\ srv' = IF mine THEN CompleteReset(h.srv) ELSE h.srv
                  /\ UNCHANGED <<tx, pending, txReset, queued>>
             ELSE /\ srv' = h.srv
                  /\ StartResponse(h.response, mine)

\* The iteration begins: take a frame from the ring, look for completed mailboxes.
Poll ==
    /\ pc = "poll" /\ pc' = "receive"
    /\ now' = clock
    /\ frame' = IF ring = <<>> THEN <<>> ELSE <<Head(ring)>>
    /\ ring' = IF ring = <<>> THEN <<>> ELSE Tail(ring)
    /\ IF TxComplete(mbox, mask)
         THEN /\ mask' = {} /\ flight' = <<>>
              /\ srv' = CompleteInFlight(flight, srv)
         ELSE UNCHANGED <<mask, flight, srv>>
    /\ UNCHANGED <<lastDiag, clock, rx, tx, pending, txReset, queued, control, mbox,
                   txError, busOff, frames, offs, losses, history>>

\* A pending ECUReset silences the endpoint, flow control excepted; functional
\* requests are single frames only.
Ignored(tf) == /\ tf.f.type # "FC"
               /\ \/ ResponseResetPending(srv)
                  \/ tf.addr = "functional" /\ tf.f.type # "SF"

\* uds_isotp_endpoint_receive(), by kind of frame.
ReceiveNothing ==
    /\ frame # <<>> => Ignored(frame[1])
    /\ UNCHANGED <<rx, tx, pending, txReset, queued, control, srv, silent>>

ReceiveFlowControl ==
    /\ frame # <<>> /\ frame[1].f.type = "FC"
    /\ tx' = TxFlowControl(tx, frame[1].f, now).tx
    /\ UNCHANGED <<rx, pending, txReset, queued, control, srv, silent>>

ReceiveData ==
    /\ frame # <<>> /\ frame[1].f.type # "FC" /\ ~Ignored(frame[1])
    /\ LET r == RxFeed(rx, frame[1].f, now)
       IN  /\ rx' = r.rx
           /\ control' = IF control = <<>> THEN r.fc ELSE control
           /\ IF r.status = "COMPLETE"
                THEN HandleRequest(r.payload[1])
                ELSE UNCHANGED <<tx, pending, txReset, queued, srv, silent>>

Receive ==
    /\ pc = "receive" /\ pc' = "process"
    /\ ReceiveNothing \/ ReceiveFlowControl \/ ReceiveData
    /\ frame' = <<>>
    /\ UNCHANGED <<now, lastDiag, flight, canVars, envVars, answer>>

\* uds_isotp_endpoint_process(), by the branch it takes.
InFlightOk == /\ flight # <<>> /\ ~TransportError
              /\ UNCHANGED <<loopVars, canVars, answer>>

\* Mutant: the aborted answer leaves the reset it announced pending.
AbortedServer_KeepsReset(s) == s

\* abort_in_flight() ends with uds_server_clear_reset().
AbortedServer(s) == ClearReset(s)

\* Mutant: the response that waits behind the aborted one survives.
QueueAfterAbort_Kept(q) == q

QueueAfterAbort(q) == <<>>

InFlightAborted ==
    /\ flight # <<>> /\ TransportError
    /\ AbortMailboxes
    /\ tx' = TxReset /\ flight' = <<>> /\ txReset' = FALSE
    /\ queued' = QueueAfterAbort(queued)
    /\ srv' = AbortedServer(srv)
    /\ answer' = "none" /\ UNCHANGED <<frame, rx, pending, control>>

SubmitControl ==
    /\ flight = <<>> /\ control # <<>>
    /\ \/ \E instant \in BOOLEAN : Send(control[1], instant) /\ control' = <<>>
       \/ SendFails /\ UNCHANGED control
    /\ UNCHANGED <<frame, rx, tx, pending, flight, txReset, queued, srv>>

SubmitFails == /\ flight = <<>> /\ control = <<>> /\ pending # <<>>
               /\ SendFails /\ UNCHANGED loopVars

SubmitPending ==
    /\ flight = <<>> /\ control = <<>> /\ pending # <<>>
    /\ \E m \in Mailboxes, instant \in BOOLEAN :
         LET f    == pending[1].frame
             box  == [mbox EXCEPT ![m] = IF instant THEN <<>> ELSE <<f>>]
             mine == <<[final |-> pending[1].final, reset |-> pending[1].reset]>>
             done == TxComplete(box, mask \cup {m})
         IN  /\ mbox[m] = <<>> /\ (instant => ~busOff)
             /\ mbox' = box
             /\ mask' = IF done THEN {} ELSE mask \cup {m}
             /\ flight' = IF done THEN <<>> ELSE mine
             /\ srv' = IF done THEN CompleteInFlight(mine, srv) ELSE srv
             /\ IF instant THEN Fate(f, "sent") ELSE UNCHANGED answer
    /\ pending' = <<>>
    /\ UNCHANGED <<frame, rx, tx, txReset, queued, control, txError>>

Idle(t) == flight = <<>> /\ control = <<>> /\ pending = <<>> /\ t.state = "IDLE"

StartQueued(t) ==
    LET r == TxStart(t, queued[1].payload, now)
    IN  /\ tx' = r.tx
        /\ pending' = <<[frame |-> r.out[1], final |-> r.tx.state = "IDLE",
                         reset |-> queued[1].reset]>>
        /\ txReset' = queued[1].reset /\ queued' = <<>>

ContinueTransfer ==
    /\ flight = <<>> /\ control = <<>> /\ pending = <<>> /\ tx.state # "IDLE"
    /\ LET r == TxNext(tx, now)
       IN  IF r.status = "COMPLETE" /\ queued # <<>>
             THEN StartQueued(r.tx)
             ELSE /\ tx' = r.tx
                  /\ pending' = IF r.out = <<>> THEN <<>>
                                ELSE <<[frame |-> r.out[1], reset |-> txReset,
                                        final |-> r.tx.offset >= Len(r.tx.payload)]>>
                  /\ UNCHANGED <<txReset, queued>>
    /\ UNCHANGED <<frame, rx, flight, control, srv, canVars, answer>>

NextQueued == /\ Idle(tx) /\ queued # <<>> /\ StartQueued(tx)
              /\ UNCHANGED <<frame, rx, flight, control, srv, canVars, answer>>

NothingToDo == Idle(tx) /\ queued = <<>> /\ UNCHANGED <<loopVars, canVars, answer>>

Process ==
    /\ pc = "process" /\ pc' = "tick"
    /\ \/ InFlightOk \/ InFlightAborted \/ SubmitControl \/ SubmitFails
       \/ SubmitPending \/ ContinueTransfer \/ NextQueued \/ NothingToDo
    /\ UNCHANGED <<now, lastDiag, envVars, silent>>

\* uds_isotp_endpoint_tick() without a reset that is due.
TickTimers ==
    /\ pc = "tick" /\ pc' = "diagnose" /\ ~ResetDue(srv)
    /\ rx' = RxTick(rx, now) /\ tx' = TxTick(tx, now)
    /\ srv' = ServerTick(srv, now)
    /\ UNCHANGED <<now, lastDiag, frame, pending, flight, txReset, queued, control,
                   canVars, envVars, history>>

\* ecu_reset_execute() ends in a system reset: main() runs again, from tick 0.
TickExecutesReset ==
    /\ pc = "tick" /\ ResetDue(srv)
    /\ pc' = "poll" /\ clock' = 0 /\ now' = 0 /\ lastDiag' = 0
    /\ ring' = <<>> /\ frame' = <<>> /\ rx' = RxReset /\ tx' = TxReset
    /\ pending' = <<>> /\ flight' = <<>> /\ txReset' = FALSE
    /\ queued' = <<>> /\ control' = <<>> /\ srv' = ServerInit(0)
    /\ mbox' = NoFrames /\ mask' = {} /\ txError' = FALSE /\ busOff' = FALSE
    /\ answer' = "none" /\ silent' = FALSE
    /\ UNCHANGED <<frames, offs, losses>>

-----------------------------------------------------------------------------
(* App_DiagnosticTask(), after uds_app_process() in every iteration. *)

\* A mailbox the transport watches still holds the answer to the ECUReset.
AnswerWaits == \E m \in mask : mbox[m] # <<>> /\ IsResetAnswer(mbox[m][1])

DiagnosisDue == (now - lastDiag) % ClockMod >= DiagPeriod

DiagnosisNotDue ==
    /\ pc = "diagnose" /\ pc' = "poll" /\ ~DiagnosisDue
    /\ UNCHANGED <<now, lastDiag, loopVars, canVars, envVars, history>>

\* It asks the transport for errors behind the endpoint's back: an error is
\* consumed, the watched mailboxes are aborted and forgotten, and the endpoint
\* keeps its frame in flight.  What it reports to the DTC store is in DtcStore.
Diagnose ==
    /\ pc = "diagnose" /\ pc' = "poll" /\ DiagnosisDue
    /\ lastDiag' = now
    /\ IF TransportError
         THEN /\ AbortMailboxes
              /\ answer' = IF AnswerWaits THEN "aborted" ELSE answer
         ELSE UNCHANGED <<canVars, answer>>
    /\ UNCHANGED <<now, loopVars, envVars, silent>>

-----------------------------------------------------------------------------
Loop == \/ Poll \/ Receive \/ Process \/ TickTimers \/ TickExecutesReset
        \/ DiagnosisNotDue \/ Diagnose

Next == \/ \E tf \in TesterFrames : TesterSends(tf)
        \/ \E m \in Mailboxes : Transmit(m)
        \/ \E m \in Mailboxes : TransmitFails(m)
        \/ BusGoesOff \/ ClockTick
        \/ Poll \/ Receive \/ Process \/ TickTimers \/ TickExecutesReset
        \/ DiagnosisNotDue \/ Diagnose

\* The super-loop and the tick never stop; a controller that is not bus-off
\* empties its mailboxes.
Fairness == /\ WF_vars(Loop) /\ WF_vars(ClockTick)
            /\ \A m \in Mailboxes : WF_vars(Transmit(m))

Spec == Init /\ [][Next]_vars
FairSpec == Spec /\ Fairness

-----------------------------------------------------------------------------
(* Properties *)

Tagged == [final : BOOLEAN, reset : BOOLEAN]

Fates == {"none", "lost", "sent", "aborted"}

Answers == {"SESSION", "NEGATIVE", "RESET_OK", "PRESENT", "DATA"}

Outgoing(f) == \/ f.type = "SF" /\ f.len \in 1 .. SfMax
               \/ f.type = "FF" /\ Len(f.data) = FfData
               \/ f.type = "CF" /\ f.sn \in 0 .. SeqMod - 1 /\ Len(f.data) = CfData
               \/ f.type = "FC" /\ f.fs \in {"CTS", "OVERFLOW"}

\* The state stays within its types: the ring keeps one slot free, every slot
\* of the transmit path holds at most one frame or response, and a frame is
\* never pending and in flight at once.
TypeOK ==
    /\ pc \in {"poll", "receive", "process", "tick", "diagnose"}
    /\ clock \in Clock /\ now \in Clock /\ lastDiag \in Clock
    /\ Len(ring) < RingSlots /\ Len(frame) <= 1
    /\ rx.active \in BOOLEAN /\ Len(rx.buffer) <= rx.expected_len
    /\ tx.state \in TxStates /\ tx.offset <= Len(tx.payload)
    /\ Len(pending) + Len(flight) <= 1
    /\ pending # <<>> => Outgoing(pending[1].frame)
    /\ flight # <<>> => flight[1] \in Tagged
    /\ Len(queued) <= 1 /\ Len(control) <= 1
    /\ srv \in [session : Sessions, reset_pending : BOOLEAN, reset_ready : BOOLEAN,
                reset_type : {"none", "hard"}, last_activity : Clock]
    /\ \A m \in Mailboxes : mbox[m] # <<>> => Outgoing(mbox[m][1])
    /\ mask \subseteq Mailboxes
    /\ txReset \in BOOLEAN /\ txError \in BOOLEAN /\ busOff \in BOOLEAN
    /\ answer \in Fates /\ silent \in BOOLEAN

\* The ECU never resets itself over an answer that is still waiting: when
\* complete_in_flight() completes a reset, the final frame of the very response
\* that announced it was acknowledged, failed on the bus or was aborted with its
\* mailbox, unless the tester asked for no answer.
ResetAfterAnswer == ResetDue(srv) => answer # "none" \/ silent

\* The positive answer to an ECUReset is transmitted before the reset: it left
\* its mailbox on its way to the bus (the controller tries once).  The diagnostic
\* task breaks this: it aborts the answer and empties tx_mailbox_mask, which
\* uds_can_transport_tx_complete() takes for a completed transmission.
ResetAfterTransmission == ResetDue(srv) => answer \in {"sent", "lost"} \/ silent

\* A response marked as the answer to an ECUReset exists only while that reset
\* is pending: abort_in_flight() leaves no mark behind that could complete a
\* reset the server has dropped.
Marked == \/ pending # <<>> /\ pending[1].reset
          \/ flight # <<>> /\ flight[1].reset
          \/ queued # <<>> /\ queued[1].reset
MarksAreCurrent == Marked => ResponseResetPending(srv)

\* While an ECUReset is pending the endpoint ignores every request; that ends,
\* with the reset or with the abort of its answer, unless the bus is off.
Deaf == ResponseResetPending(srv)
ListensAgain == Deaf ~> (~Deaf \/ busOff)

\* No response, flow control or transfer occupies the transmit path for ever.
Busy == \/ pending # <<>> \/ flight # <<>> \/ queued # <<>> \/ control # <<>>
        \/ tx.state # "IDLE"
TransmitPathReleased == Busy ~> (~Busy \/ busOff)
=============================================================================
