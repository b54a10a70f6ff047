------------------------------- MODULE IsoTp -------------------------------
(***************************************************************************)
(* The ISO-TP transport of library/src/isotp.c: the receiver (IsoTpRx) and *)
(* the sender (IsoTpTx) as records, and every library call as an operator  *)
(* from the old record to the new one.  The calls are sequential; the      *)
(* modules that extend this one say who calls them and when.               *)
(*                                                                         *)
(* Bytes are opaque.  A frame is a record tagged with its N_PCI type:      *)
(*   SF: len, data   FF: len, data   CF: sn, data   FC: fs, bs, st         *)
(* where `data' holds the bytes that follow the N_PCI header, padding      *)
(* included, so Len(data) stands for the DLC.  The classic-CAN layout is   *)
(* modelled, with the frame length DL (8 in the code) as a parameter.      *)
(***************************************************************************)
EXTENDS Integers, Sequences

CONSTANTS DL,            \* frame length: 8 bytes on classic CAN
          SeqMod,        \* sequence numbers wrap at 16
          ClockMod,      \* the millisecond clock wraps at 2^32
          RxMax, TxMax,  \* ISOTP_MAX_PAYLOAD of the receiving and the sending build
          BlockSize,     \* config.block_size: 0 means unlimited
          StMin,         \* config.st_min, in clock units
          RxTimeout, TxTimeout, MaxWait,
          FullDuplex,    \* config.full_duplex
          Fill           \* the byte clear_frame() pads with

ASSUME FrameAssumption == DL \in Nat /\ DL >= 3
ASSUME SeqModAssumption == SeqMod \in Nat /\ SeqMod >= 2
ASSUME ClockAssumption == /\ ClockMod \in Nat /\ ClockMod >= 2
                          /\ RxTimeout \in Nat /\ TxTimeout \in Nat
ASSUME ConfigAssumption == /\ RxMax \in Nat \ {0} /\ TxMax \in Nat \ {0}
                           /\ BlockSize \in 0 .. 255
                           /\ StMin \in Nat /\ MaxWait \in 0 .. 255
                           /\ FullDuplex \in BOOLEAN

SfMax  == DL - 1   \* payload bytes of a single frame
FfData == DL - 2   \* payload bytes of a first frame
CfData == DL - 1   \* payload bytes of a consecutive frame

Clock == 0 .. ClockMod - 1

Smaller(a, b) == IF a < b THEN a ELSE b

Take(data, n) == SubSeq(data, 1, n)

(***************************************************************************)
(* Time.  deadline() adds on the wrapping clock; expired() looks at the    *)
(* sign of the wrapped difference.                                         *)
(***************************************************************************)
Deadline(now, timeout) == (now + timeout) % ClockMod

Expired(now, deadline) == 2 * ((now - deadline) % ClockMod) < ClockMod

(***************************************************************************)
(* The receiver.  received_len is Len(buffer).  A call returns the new     *)
(* receiver, its status, the completed payload (<<>> when there is none)   *)
(* and the flow-control frame to send (a sequence of at most one frame).   *)
(***************************************************************************)
RxReset == [active |-> FALSE, expected_len |-> 0, buffer |-> <<>>,
            next_sequence |-> 1, block_count |-> 0, deadline |-> 0]

RxResult(r, status, payload, fc) ==
    [rx |-> r, status |-> status, payload |-> payload, fc |-> fc]

FlowControl(fs) == [type |-> "FC", fs |-> fs,
                    bs |-> IF fs = "CTS" THEN BlockSize ELSE 0,
                    st |-> IF fs = "CTS" THEN StMin ELSE 0]

RxSingle(r, f) ==
    IF f.len = 0 \/ f.len > Len(f.data)
      THEN RxResult(r, "ERR_FORMAT", <<>>, <<>>)
    ELSE IF f.len > RxMax
      THEN RxResult(r, "ERR_OVERFLOW", <<>>, <<>>)
    ELSE RxResult(RxReset, "COMPLETE", Take(f.data, f.len), <<>>)

\* Mutant: a first frame inherits the counters of the reception it replaces.
NewReception_KeepsCounters(r, f, now) ==
    [r EXCEPT !.active = TRUE, !.expected_len = f.len,
              !.buffer = Take(f.data, Smaller(Len(f.data), f.len)),
              !.deadline = Deadline(now, RxTimeout)]

\* Mutant: what the abandoned reception has collected stays in the buffer.
NewReception_KeepsBuffer(r, f, now) ==
    [active |-> TRUE, expected_len |-> f.len, next_sequence |-> 1, block_count |-> 0,
     buffer |-> r.buffer \o Take(f.data, Smaller(Len(f.data), f.len)),
     deadline |-> Deadline(now, RxTimeout)]

\* A first frame restarts the reception whatever was under way.
NewReception(r, f, now) ==
    [active        |-> TRUE,
     expected_len  |-> f.len,
     buffer        |-> Take(f.data, Smaller(Len(f.data), f.len)),
     next_sequence |-> 1,
     block_count   |-> 0,
     deadline      |-> Deadline(now, RxTimeout)]

\* Mutant: the payload limit is not checked.
TooLong_Never(len) == FALSE

TooLong(len) == len > RxMax

\* On classic CAN a first frame never completes the message: FfData < SfMax.
RxFirst(r, f, now) ==
    IF Len(f.data) < FfData \/ f.len <= SfMax
      THEN RxResult(r, "ERR_FORMAT", <<>>, <<>>)
    ELSE IF TooLong(f.len)
      THEN RxResult(RxReset, "ERR_OVERFLOW", <<>>, <<FlowControl("OVERFLOW")>>)
    ELSE RxResult(NewReception(r, f, now), "NEED_FLOW_CONTROL", <<>>,
                  <<FlowControl("CTS")>>)

\* Mutant: one frame too many per block before the next flow control.
BlockFull_OffByOne(count, size) == size # 0 /\ count > size

BlockFull(count, size) == size # 0 /\ count >= size

\* Mutant: the whole frame is copied, padding included.
CopyLen_WholeFrame(r, f) == Len(f.data)

CopyLen(r, f) == Smaller(Len(f.data), r.expected_len - Len(r.buffer))

\* An accepted consecutive frame: copy what is still missing and count it,
\* then finish, ask for the next block, or simply go on.
RxAppend(r, f, now) ==
    LET got     == r.buffer \o Take(f.data, CopyLen(r, f))
        count   == (r.block_count + 1) % 256
        done    == Len(got) >= r.expected_len
        ask     == ~done /\ BlockFull(count, BlockSize)
    IN  RxResult([active        |-> ~done,
                  expected_len  |-> r.expected_len,
                  buffer        |-> got,
                  next_sequence |-> (r.next_sequence + 1) % SeqMod,
                  block_count   |-> IF ask THEN 0 ELSE count,
                  deadline      |-> Deadline(now, RxTimeout)],
                 IF done THEN "COMPLETE"
                         ELSE IF ask THEN "NEED_FLOW_CONTROL" ELSE "OK",
                 IF done THEN got ELSE <<>>,
                 IF ask THEN <<FlowControl("CTS")>> ELSE <<>>)

InSequence(r, f) == f.sn = r.next_sequence

RxConsecutive(r, f, now) ==
    IF ~r.active
      THEN RxResult(r, "ERR_STATE", <<>>, <<>>)
    ELSE IF ~InSequence(r, f)
      THEN RxResult(RxReset, "ERR_SEQUENCE", <<>>, <<>>)
    ELSE IF /\ r.expected_len - Len(r.buffer) > Len(f.data)
            /\ Len(f.data) < CfData
      THEN RxResult(RxReset, "ERR_FORMAT", <<>>, <<>>)
    ELSE RxAppend(r, f, now)

\* isotp_rx_feed() for a valid frame with the receiver's identifier.  In full
\* duplex an unexpected SF or FF abandons the reception before it is decoded.
RxFeed(r, f, now) ==
    LET unexpected == FullDuplex /\ r.active /\ f.type \in {"SF", "FF"}
        r1         == IF unexpected THEN RxReset ELSE r
    IN  IF f.type = "SF" THEN RxSingle(r1, f)
        ELSE IF f.type = "FF" THEN RxFirst(r1, f, now)
        ELSE IF f.type = "CF" THEN RxConsecutive(r1, f, now)
        ELSE RxResult(r1, IF FullDuplex /\ r.active THEN "OK"
                          ELSE IF f.type = "FC" THEN "ERR_STATE" ELSE "ERR_FORMAT",
                      <<>>, <<>>)

RxTick(r, now) == IF r.active /\ Expired(now, r.deadline) THEN RxReset ELSE r

(***************************************************************************)
(* The sender.  payload_len is Len(payload); a call returns the new sender,*)
(* its status and the frame to transmit (a sequence of at most one frame). *)
(***************************************************************************)
TxStates == {"IDLE", "WAIT_FIRST_FC", "SEND_CF", "WAIT_BLOCK_FC"}

TxReset == [state |-> "IDLE", payload |-> <<>>, offset |-> 0,
            next_sequence |-> 1, block_count |-> 0, wait_frames |-> 0,
            remote_bs |-> 0, remote_st |-> 0, deadline |-> 0, next_frame |-> 0]

TxResult(t, status, out) == [tx |-> t, status |-> status, out |-> out]

\* clear_frame(): the frame is padded to its full length.
Padded(data, n) == data \o [i \in 1 .. n - Len(data) |-> Fill]

\* isotp_tx_start() for a non-empty payload and a valid configuration.  A single
\* frame leaves the sender idle; wait_frames is whatever the last reset left.
TxStart(t, payload, now) ==
    IF Len(payload) > TxMax
      THEN TxResult(t, "ERR_OVERFLOW", <<>>)
    ELSE IF Len(payload) <= SfMax
      THEN TxResult(TxReset, "TX_FRAME_READY",
                    <<[type |-> "SF", len |-> Len(payload), data |-> payload]>>)
    ELSE TxResult([state |-> "WAIT_FIRST_FC", payload |-> payload,
                   offset |-> FfData, next_sequence |-> 1, block_count |-> 0,
                   wait_frames |-> t.wait_frames, remote_bs |-> t.remote_bs,
                   remote_st |-> t.remote_st, deadline |-> Deadline(now, TxTimeout),
                   next_frame |-> t.next_frame],
                  "TX_FRAME_READY",
                  <<[type |-> "FF", len |-> Len(payload),
                     data |-> Take(payload, FfData)]>>)

\* Mutant: WAIT frames are never counted against the limit.
WaitExhausted_Never(t) == FALSE

WaitExhausted(t) == t.wait_frames >= MaxWait

\* isotp_tx_feed_flow_control() for a well-formed FC frame.
TxFlowControl(t, f, now) ==
    IF t.state \notin {"WAIT_FIRST_FC", "WAIT_BLOCK_FC"}
      THEN TxResult(t, "ERR_STATE", <<>>)
    ELSE IF f.fs = "OVERFLOW"
      THEN TxResult(TxReset, "ERR_FLOW_OVERFLOW", <<>>)
    ELSE IF f.fs \notin {"CTS", "WAIT"} \/ (f.fs = "WAIT" /\ WaitExhausted(t))
      THEN TxResult(TxReset, "ERR_FLOW_CONTROL", <<>>)
    ELSE IF f.fs = "WAIT"
      THEN TxResult([t EXCEPT !.wait_frames = @ + 1,
                              !.deadline = Deadline(now, TxTimeout)], "OK", <<>>)
    ELSE TxResult([state |-> "SEND_CF", payload |-> t.payload,
                   offset |-> t.offset, next_sequence |-> t.next_sequence,
                   block_count |-> 0, wait_frames |-> 0, remote_bs |-> f.bs,
                   remote_st |-> f.st, deadline |-> Deadline(now, TxTimeout),
                   next_frame |-> now], "OK", <<>>)

BlockSent(count, size) == size # 0 /\ count >= size

\* The next consecutive frame; after the last one of a block the sender waits.
TxConsecutive(t, now) ==
    LET size  == Smaller(Len(t.payload) - t.offset, CfData)
        count == (t.block_count + 1) % 256
        pause == /\ BlockSent(count, t.remote_bs)
                 /\ t.offset + size < Len(t.payload)
    IN  TxResult([state         |-> IF pause THEN "WAIT_BLOCK_FC" ELSE t.state,
                  payload       |-> t.payload,
                  offset        |-> t.offset + size,
                  next_sequence |-> (t.next_sequence + 1) % SeqMod,
                  block_count   |-> IF pause THEN 0 ELSE count,
                  wait_frames   |-> t.wait_frames,
                  remote_bs     |-> t.remote_bs,
                  remote_st     |-> t.remote_st,
                  deadline      |-> Deadline(now, TxTimeout),
                  next_frame    |-> Deadline(now, t.remote_st)],
                 "TX_FRAME_READY",
                 <<[type |-> "CF", sn |-> t.next_sequence,
                    data |-> Padded(SubSeq(t.payload, t.offset + 1,
                                           t.offset + size), CfData)]>>)

\* isotp_tx_next(): the completed transfer is reported by the call after the
\* one that built the last frame, and only once the separation time is over.
TxNext(t, now) ==
    IF t.state # "SEND_CF"
      THEN TxResult(t, "OK", <<>>)
    ELSE IF Expired(now, t.deadline)
      THEN TxResult(TxReset, "ERR_TIMEOUT", <<>>)
    ELSE IF ~Expired(now, t.next_frame)
      THEN TxResult(t, "OK", <<>>)
    ELSE IF t.offset >= Len(t.payload)
      THEN TxResult(TxReset, "COMPLETE", <<>>)
    ELSE TxConsecutive(t, now)

\* Mutant: the sender only watches the wait for a flow control, not its own sending.
TxTick_NoBlockTimeout(t, now) ==
    IF t.state = "WAIT_FIRST_FC" /\ Expired(now, t.deadline) THEN TxReset ELSE t

TxTick(t, now) ==
    IF t.state # "IDLE" /\ Expired(now, t.deadline) THEN TxReset ELSE t

=============================================================================
