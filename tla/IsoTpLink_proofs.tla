-------------------------- MODULE IsoTpLink_proofs --------------------------
(***************************************************************************)
(* Proofs about IsoTpLink for every frame length, sequence modulus, clock  *)
(* width, block size, timeout and payload limit: type correctness and the  *)
(* buffer bounds, proved together because each call needs both, and the    *)
(* agreement of the receiver's counters with its buffer.                   *)
(***************************************************************************)
EXTENDS IsoTpLink, TLAPS

\* % with a positive modulus stays in range (next_sequence, block_count, clock).
LEMMA ModRange ==
    ASSUME NEW a \in Int, NEW b \in Nat, b >= 1
    PROVE  a % b \in 0 .. b - 1
OBVIOUS

\* deadline() stays on the wrapping clock.
LEMMA DeadlineInClock ==
    ASSUME NEW n \in Clock, NEW t \in Nat
    PROVE  Deadline(n, t) \in Clock
<1>1. ClockMod \in Nat /\ ClockMod >= 1 BY ClockAssumption
<1>2. n + t \in Int BY <1>1 DEF Clock
<1> QED BY <1>1, <1>2, ModRange DEF Deadline, Clock

\* A sequence number counted on stays below its modulus.
LEMMA NextSequenceRange ==
    ASSUME NEW k \in Nat
    PROVE  (k + 1) % SeqMod \in 0 .. SeqMod - 1
<1>1. SeqMod \in Nat /\ SeqMod >= 1 BY SeqModAssumption
<1> QED BY <1>1, ModRange

\* block_count is a byte.
LEMMA CountRange ==
    ASSUME NEW k \in Nat
    PROVE  (k + 1) % 256 \in 0 .. 255
OBVIOUS

\* SubSeq(s, 1, n) has n elements.
LEMMA TakeLength ==
    ASSUME NEW S, NEW s \in Seq(S), NEW n \in 0 .. Len(s)
    PROVE  Take(s, n) \in Seq(S) /\ Len(Take(s, n)) = n
BY DEF Take

\* Appending adds the lengths.
LEMMA ConcatLength ==
    ASSUME NEW S, NEW s \in Seq(S), NEW t \in Seq(S)
    PROVE  s \o t \in Seq(S) /\ Len(s \o t) = Len(s) + Len(t)
OBVIOUS

\* The fields of a well-typed receiver.
LEMMA RxFields ==
    ASSUME NEW r \in RxType
    PROVE  /\ r.active \in BOOLEAN /\ r.expected_len \in 0 .. RxMax
           /\ r.buffer \in Seq(Byte) /\ r.next_sequence \in Nat
           /\ r.block_count \in Nat /\ r.deadline \in Clock
<1>1. /\ r.active \in BOOLEAN /\ r.expected_len \in 0 .. RxMax
      /\ r.buffer \in Seq(Byte) /\ r.next_sequence \in 0 .. SeqMod - 1
      /\ r.block_count \in 0 .. 255 /\ r.deadline \in Clock
  BY DEF RxType
<1>2. \A k : k \in 0 .. SeqMod - 1 => k \in Nat BY SeqModAssumption
<1>3. \A k : k \in 0 .. 255 => k \in Nat OBVIOUS
<1> QED BY ONLY <1>1, <1>2, <1>3, Zenon

\* The data of a frame is a sequence of bytes no longer than the frame allows.
LEMMA DataIsSeq ==
    ASSUME NEW n, NEW d \in Data(n)
    PROVE  d \in Seq(Byte) /\ Len(d) \in Nat /\ Len(d) <= n
BY DEF Data

\* The flow-control frames the library builds are well typed.
LEMMA FlowControlType ==
    ASSUME NEW fs \in {"CTS", "WAIT", "OVERFLOW"}
    PROVE  FlowControl(fs) \in FcFrame
BY ConfigAssumption DEF FlowControl, FcFrame

\* isotp_rx_reset() and isotp_tx_reset() leave records that are in order.
LEMMA ResetTypes ==
    /\ RxReset \in RxType /\ RxBounded(RxReset)
    /\ TxReset \in TxType /\ TxBounded(TxReset)
BY SeqModAssumption, ClockAssumption, ConfigAssumption
   DEF RxReset, RxType, RxBounded, TxReset, TxType, TxBounded, TxStates, Clock

-----------------------------------------------------------------------------
(* The receiver's calls keep its record well typed and inside its buffer. *)

RxResultOK(res) == /\ res.rx \in RxType /\ RxBounded(res.rx)
                   /\ res.payload \in Seq(Byte)
                   /\ res.fc \in Seq(FcFrame)

\* The parts of a result.
LEMMA RxResultFields ==
    ASSUME NEW r, NEW s, NEW p, NEW f
    PROVE  /\ RxResult(r, s, p, f).rx = r
           /\ RxResult(r, s, p, f).status = s
           /\ RxResult(r, s, p, f).payload = p
           /\ RxResult(r, s, p, f).fc = f
BY DEF RxResult

\* A single frame.
LEMMA RxSingleOK ==
    ASSUME NEW r \in RxType, RxBounded(r), NEW n \in Nat, NEW f,
           f.len \in Nat, f.data \in Seq(Byte)
    PROVE  RxResultOK(RxSingle(r, f))
<1>1. CASE f.len = 0 \/ f.len > Len(f.data)
  BY <1>1 DEF RxSingle, RxResultOK, RxResult
<1>2. CASE ~(f.len = 0 \/ f.len > Len(f.data)) /\ f.len > RxMax
  BY <1>2 DEF RxSingle, RxResultOK, RxResult
<1>3. CASE ~(f.len = 0 \/ f.len > Len(f.data)) /\ ~(f.len > RxMax)
  <2>1. Take(f.data, f.len) \in Seq(Byte)
    <3>1. f.len \in 0 .. Len(f.data) BY <1>3
    <3> QED BY <3>1, TakeLength
  <2> QED BY <1>3, <2>1, ResetTypes DEF RxSingle, RxResultOK, RxResult
<1> QED BY <1>1, <1>2, <1>3

\* The reception a first frame starts holds less than it expects.
LEMMA NewReceptionOK ==
    ASSUME NEW r \in RxType, NEW n \in Clock, NEW f,
           f.len \in Nat, f.data \in Data(FfData), f.len > SfMax, ~TooLong(f.len)
    PROVE  NewReception(r, f, n) \in RxType /\ RxBounded(NewReception(r, f, n))
<1> DEFINE k == Smaller(Len(f.data), f.len)
<1>1. /\ f.data \in Seq(Byte) /\ Len(f.data) \in Nat
      /\ Len(f.data) < f.len
  BY FrameAssumption DEF Data, FfData, SfMax
<1>2. k \in 0 .. Len(f.data) /\ k < f.len BY <1>1 DEF Smaller
<1>3. Take(f.data, k) \in Seq(Byte) /\ Len(Take(f.data, k)) = k
  BY <1>1, <1>2, TakeLength
<1>4. f.len \in 0 .. RxMax BY ConfigAssumption DEF TooLong
<1>5. Deadline(n, RxTimeout) \in Clock BY ClockAssumption, DeadlineInClock
<1> QED BY <1>2, <1>3, <1>4, <1>5, SeqModAssumption
        DEF NewReception, RxType, RxBounded

\* A first frame, the overflow answer included.
LEMMA RxFirstOK ==
    ASSUME NEW r \in RxType, RxBounded(r), NEW n \in Clock, NEW f,
           f.len \in Nat, f.data \in Data(FfData)
    PROVE  RxResultOK(RxFirst(r, f, n))
<1>1. CASE Len(f.data) < FfData \/ f.len <= SfMax
  BY <1>1 DEF RxFirst, RxResultOK, RxResult
<1>2. CASE ~(Len(f.data) < FfData \/ f.len <= SfMax) /\ TooLong(f.len)
  <2>1. <<FlowControl("OVERFLOW")>> \in Seq(FcFrame) BY FlowControlType
  <2> QED BY <1>2, <2>1, ResetTypes DEF RxFirst, RxResultOK, RxResult
<1>3. CASE ~(Len(f.data) < FfData \/ f.len <= SfMax) /\ ~TooLong(f.len)
  <2>1. <<FlowControl("CTS")>> \in Seq(FcFrame) BY FlowControlType
  <2>2. f.len > SfMax BY <1>3, FrameAssumption DEF SfMax
  <2>3. NewReception(r, f, n) \in RxType /\ RxBounded(NewReception(r, f, n))
    BY <1>3, <2>2, NewReceptionOK
  <2> QED BY <1>3, <2>1, <2>3 DEF RxFirst, RxResultOK, RxResult
<1> QED BY <1>1, <1>2, <1>3

\* A consecutive frame that is accepted: no byte is copied beyond expected_len.
LEMMA RxAppendOK ==
    ASSUME NEW r \in RxType, RxBounded(r), r.active = TRUE, NEW n \in Clock, NEW f,
           f.data \in Data(CfData)
    PROVE  RxResultOK(RxAppend(r, f, n))
<1> DEFINE k     == CopyLen(r, f)
           got1  == r.buffer \o Take(f.data, k)
           count == (r.block_count + 1) % 256
           done  == Len(got1) >= r.expected_len
           ask   == ~done /\ BlockFull(count, BlockSize)
           r1    == [active        |-> ~done,
                     expected_len  |-> r.expected_len,
                     buffer        |-> got1,
                     next_sequence |-> (r.next_sequence + 1) % SeqMod,
                     block_count   |-> IF ask THEN 0 ELSE count,
                     deadline      |-> Deadline(n, RxTimeout)]
           fc1   == IF ask THEN <<FlowControl("CTS")>> ELSE <<>>
           pay   == IF done THEN got1 ELSE <<>>
<1>1. /\ r.buffer \in Seq(Byte) /\ r.expected_len \in 0 .. RxMax
      /\ r.next_sequence \in Nat /\ r.block_count \in Nat
      /\ f.data \in Seq(Byte) /\ Len(f.data) \in Nat /\ Len(r.buffer) \in Nat
  BY RxFields, DataIsSeq
<1>2. k \in 0 .. Len(f.data) /\ Len(r.buffer) + k <= r.expected_len
  BY <1>1, ConfigAssumption DEF CopyLen, Smaller, RxBounded
<1>3. Take(f.data, k) \in Seq(Byte) /\ Len(Take(f.data, k)) = k
  BY <1>1, <1>2, TakeLength
<1>4. got1 \in Seq(Byte) /\ Len(got1) <= r.expected_len
  <2>1. got1 \in Seq(Byte) /\ Len(got1) = Len(r.buffer) + Len(Take(f.data, k))
    BY <1>1, <1>3, ConcatLength
  <2> HIDE DEF got1, k
  <2> QED BY <1>1, <1>2, <1>3, <2>1
<1>5. count \in 0 .. 255 BY <1>1, CountRange
<1>6. (r.next_sequence + 1) % SeqMod \in 0 .. SeqMod - 1
  BY <1>1, NextSequenceRange
<1>7. Deadline(n, RxTimeout) \in Clock BY ClockAssumption, DeadlineInClock
<1>8. fc1 \in Seq(FcFrame)
  <2> HIDE DEF ask
  <2>1. FlowControl("CTS") \in FcFrame BY FlowControlType
  <2> QED BY <2>1
<1>9. pay \in Seq(Byte)
  <2> HIDE DEF got1
  <2> QED BY <1>4
<1>11. done \in BOOLEAN /\ (~done => Len(got1) < r.expected_len)
  <2> HIDE DEF got1
  <2>1. Len(got1) \in Nat BY <1>4
  <2> QED BY <1>1, <2>1
<1>12. r1 \in RxType
  <2> HIDE DEF done, ask, got1, count
  <2> QED BY <1>1, <1>4, <1>5, <1>6, <1>7, <1>11 DEF RxType
<1>13. RxBounded(r1)
  <2> HIDE DEF done, ask, got1, count
  <2> QED BY <1>4, <1>11 DEF RxBounded
<1> QED
  <2>1. RxAppend(r, f, n) =
          RxResult(r1, IF done THEN "COMPLETE"
                       ELSE IF ask THEN "NEED_FLOW_CONTROL" ELSE "OK", pay, fc1)
    BY DEF RxAppend
  <2> HIDE DEF r1, pay, fc1
  <2> QED BY <1>8, <1>9, <1>12, <1>13, <2>1 DEF RxResultOK, RxResult

\* A consecutive frame, accepted or not.
LEMMA RxConsecutiveOK ==
    ASSUME NEW r \in RxType, RxBounded(r), NEW n \in Clock, NEW f,
           f.data \in Data(CfData)
    PROVE  RxResultOK(RxConsecutive(r, f, n))
<1> DEFINE short == /\ r.expected_len - Len(r.buffer) > Len(f.data)
                    /\ Len(f.data) < CfData
<1>1. CASE ~r.active
  BY <1>1 DEF RxConsecutive, RxResultOK, RxResult
<1>2. CASE r.active /\ (~InSequence(r, f) \/ short)
  BY <1>2, ResetTypes DEF RxConsecutive, RxResultOK, RxResult
<1>3. CASE r.active /\ InSequence(r, f) /\ ~short
  BY <1>3, RxAppendOK DEF RxConsecutive
<1> QED BY <1>1, <1>2, <1>3

\* isotp_rx_feed() as a whole.
LEMMA RxFeedOK ==
    ASSUME NEW r \in RxType, RxBounded(r), NEW n \in Clock, NEW f \in DataFrame
    PROVE  RxResultOK(RxFeed(r, f, n))
<1> DEFINE r1 == IF FullDuplex /\ r.active /\ f.type \in {"SF", "FF"}
                 THEN RxReset ELSE r
<1>1. r1 \in RxType /\ RxBounded(r1) BY ResetTypes
<1>2. CASE f \in [type : {"SF"}, len : Nat, data : Data(SfMax)]
  <2>1. f.len \in Nat /\ f.data \in Seq(Byte) BY <1>2 DEF Data
  <2>2. RxFeed(r, f, n) = RxSingle(r1, f) BY <1>2 DEF RxFeed
  <2> QED BY <1>1, <2>1, <2>2, RxSingleOK
<1>3. CASE f \in [type : {"FF"}, len : Nat, data : Data(FfData)]
  <2>1. RxFeed(r, f, n) = RxFirst(r1, f, n) BY <1>3 DEF RxFeed
  <2> QED BY <1>1, <1>3, <2>1, RxFirstOK
<1>4. CASE f \in [type : {"CF"}, sn : 0 .. SeqMod - 1, data : Data(CfData)]
  <2>1. RxFeed(r, f, n) = RxConsecutive(r1, f, n) BY <1>4 DEF RxFeed
  <2> QED BY <1>1, <1>4, <2>1, RxConsecutiveOK
<1> QED BY <1>2, <1>3, <1>4 DEF DataFrame

\* isotp_rx_tick().
LEMMA RxTickOK ==
    ASSUME NEW r \in RxType, RxBounded(r), NEW n
    PROVE  RxTick(r, n) \in RxType /\ RxBounded(RxTick(r, n))
BY ResetTypes DEF RxTick

-----------------------------------------------------------------------------
(* The sender's calls keep its record well typed and inside its payload. *)

TxResultOK(res) == /\ res.tx \in TxType /\ TxBounded(res.tx)
                   /\ res.out \in Seq(DataFrame)

\* The fields of a well-typed sender.
LEMMA TxFields ==
    ASSUME NEW t \in TxType
    PROVE  /\ t.state \in TxStates /\ t.payload \in Seq(Byte) /\ t.offset \in Nat
           /\ t.next_sequence \in 0 .. SeqMod - 1 /\ t.block_count \in 0 .. 255
           /\ t.wait_frames \in 0 .. MaxWait /\ t.remote_bs \in 0 .. 255
           /\ t.remote_st \in Nat /\ t.deadline \in Clock /\ t.next_frame \in Clock
BY DEF TxType

\* isotp_tx_tick().
LEMMA TxTickOK ==
    ASSUME NEW t \in TxType, TxBounded(t), NEW n
    PROVE  TxTick(t, n) \in TxType /\ TxBounded(TxTick(t, n))
BY ResetTypes DEF TxTick

\* isotp_tx_feed_flow_control(): WAIT frames are counted up to the limit only.
LEMMA TxFlowControlOK ==
    ASSUME NEW t \in TxType, TxBounded(t), NEW f \in FcFrame, NEW n \in Clock
    PROVE  TxResultOK(TxFlowControl(t, f, n))
<1>1. CASE t.state \notin {"WAIT_FIRST_FC", "WAIT_BLOCK_FC"}
  BY <1>1 DEF TxFlowControl, TxResultOK, TxResult
<1>2. CASE t.state \in {"WAIT_FIRST_FC", "WAIT_BLOCK_FC"} /\ f.fs = "OVERFLOW"
  BY <1>2, ResetTypes DEF TxFlowControl, TxResultOK, TxResult
<1>3. CASE /\ t.state \in {"WAIT_FIRST_FC", "WAIT_BLOCK_FC"}
           /\ f.fs = "WAIT" /\ WaitExhausted(t)
  BY <1>3, ResetTypes DEF TxFlowControl, TxResultOK, TxResult
<1>4. CASE /\ t.state \in {"WAIT_FIRST_FC", "WAIT_BLOCK_FC"}
           /\ f.fs = "WAIT" /\ ~WaitExhausted(t)
  <2> DEFINE t1 == [t EXCEPT !.wait_frames = @ + 1,
                             !.deadline = Deadline(n, TxTimeout)]
  <2>1. TxFlowControl(t, f, n).tx = t1 /\ TxFlowControl(t, f, n).out = <<>>
    BY <1>4 DEF TxFlowControl, TxResult
  <2>2. Deadline(n, TxTimeout) \in Clock BY ClockAssumption, DeadlineInClock
  <2>3. t.wait_frames + 1 \in 0 .. MaxWait
    BY <1>4, TxFields, ConfigAssumption DEF WaitExhausted
  <2>4. t1 \in TxType BY <2>2, <2>3 DEF TxType
  <2>5. TxBounded(t1) BY DEF TxBounded, TxType
  <2> QED BY <2>1, <2>4, <2>5 DEF TxResultOK
<1>5. CASE t.state \in {"WAIT_FIRST_FC", "WAIT_BLOCK_FC"} /\ f.fs = "CTS"
  <2> DEFINE t1 == [state |-> "SEND_CF", payload |-> t.payload,
                    offset |-> t.offset, next_sequence |-> t.next_sequence,
                    block_count |-> 0, wait_frames |-> 0, remote_bs |-> f.bs,
                    remote_st |-> f.st, deadline |-> Deadline(n, TxTimeout),
                    next_frame |-> n]
  <2>1. TxFlowControl(t, f, n).tx = t1 /\ TxFlowControl(t, f, n).out = <<>>
    BY <1>5 DEF TxFlowControl, TxResult
  <2>2. Deadline(n, TxTimeout) \in Clock BY ClockAssumption, DeadlineInClock
  <2>3. f.bs \in 0 .. 255 /\ f.st \in Nat BY DEF FcFrame
  <2>4. t1 \in TxType BY <2>2, <2>3, TxFields, ConfigAssumption DEF TxType, TxStates
  <2>5. TxBounded(t1)
    <3>1. t1.payload = t.payload /\ t1.offset = t.offset OBVIOUS
    <3> HIDE DEF t1
    <3> QED BY <3>1 DEF TxBounded
  <2> QED BY <2>1, <2>4, <2>5 DEF TxResultOK
<1> QED BY <1>1, <1>2, <1>3, <1>4, <1>5 DEF FcFrame

\* isotp_tx_start(): the offset of a first frame lies inside the payload.
LEMMA TxStartOK ==
    ASSUME NEW t \in TxType, TxBounded(t), NEW p \in Seq(Byte), NEW n \in Clock
    PROVE  TxResultOK(TxStart(t, p, n))
<1> DEFINE ff == [type |-> "FF", len |-> Len(p), data |-> Take(p, FfData)]
           sf == [type |-> "SF", len |-> Len(p), data |-> p]
           t1 == [state |-> "WAIT_FIRST_FC", payload |-> p,
                  offset |-> FfData, next_sequence |-> 1, block_count |-> 0,
                  wait_frames |-> t.wait_frames, remote_bs |-> t.remote_bs,
                  remote_st |-> t.remote_st, deadline |-> Deadline(n, TxTimeout),
                  next_frame |-> t.next_frame]
<1>1. CASE Len(p) > TxMax
  BY <1>1 DEF TxStart, TxResultOK, TxResult
<1>2. CASE ~(Len(p) > TxMax) /\ Len(p) <= SfMax
  <2>1. TxStart(t, p, n).tx = TxReset /\ TxStart(t, p, n).out = <<sf>>
    BY <1>2 DEF TxStart, TxResult
  <2>2. p \in Data(SfMax) BY <1>2 DEF Data
  <2>3. sf \in DataFrame BY <2>2 DEF DataFrame
  <2> HIDE DEF sf
  <2> QED BY <2>1, <2>3, ResetTypes DEF TxResultOK
<1>3. CASE ~(Len(p) > TxMax) /\ ~(Len(p) <= SfMax)
  <2>1. TxStart(t, p, n).tx = t1 /\ TxStart(t, p, n).out = <<ff>>
    BY <1>3 DEF TxStart, TxResult
  <2>2. FfData \in 0 .. Len(p) /\ FfData \in Nat
    BY <1>3, FrameAssumption DEF FfData, SfMax
  <2>3. Take(p, FfData) \in Seq(Byte) /\ Len(Take(p, FfData)) = FfData
    BY <2>2, TakeLength
  <2>4. Take(p, FfData) \in Data(FfData) BY <2>2, <2>3 DEF Data
  <2>5. ff \in DataFrame BY <2>4 DEF DataFrame
  <2>6. Deadline(n, TxTimeout) \in Clock BY ClockAssumption, DeadlineInClock
  <2>7. t1 \in TxType
    <3>1. 1 \in 0 .. SeqMod - 1 /\ 0 \in 0 .. 255 BY SeqModAssumption
    <3>2. FfData \in Nat BY <2>2
    <3> QED BY <2>6, <3>1, <3>2, TxFields DEF TxType, TxStates
  <2>8. TxBounded(t1)
    <3>1. t1.payload = p /\ t1.offset = FfData OBVIOUS
    <3>2. Len(p) <= TxMax BY <1>3, ConfigAssumption
    <3> HIDE DEF t1
    <3> QED BY <2>2, <3>1, <3>2 DEF TxBounded
  <2> HIDE DEF ff, t1
  <2> QED BY <2>1, <2>5, <2>7, <2>8 DEF TxResultOK
<1> QED BY <1>1, <1>2, <1>3

\* A consecutive frame is padded to the full length and carries at most CfData bytes.
LEMMA PaddedOK ==
    ASSUME NEW d \in Seq(Byte), NEW k \in Nat, Len(d) <= k
    PROVE  Padded(d, k) \in Data(k)
<1> DEFINE pad == [i \in 1 .. k - Len(d) |-> Fill]
<1>1. Fill \in Byte BY DEF Byte
<1>2. k - Len(d) \in Nat OBVIOUS
<1>3. pad \in Seq(Byte) /\ Len(pad) = k - Len(d) BY <1>1, <1>2
<1>4. d \o pad \in Seq(Byte) /\ Len(d \o pad) = Len(d) + Len(pad)
  BY <1>3, ConcatLength
<1> HIDE DEF pad
<1>5. Len(d \o pad) <= k BY <1>3, <1>4
<1> QED BY <1>4, <1>5 DEF Padded, Data, pad

\* A consecutive frame takes what is left and no more.
LEMMA TxConsecutiveOK ==
    ASSUME NEW t \in TxType, TxBounded(t), t.offset < Len(t.payload), NEW n \in Clock
    PROVE  TxResultOK(TxConsecutive(t, n))
<1> DEFINE size  == Smaller(Len(t.payload) - t.offset, CfData)
           count == (t.block_count + 1) % 256
           pause == /\ BlockSent(count, t.remote_bs)
                    /\ t.offset + size < Len(t.payload)
           part  == SubSeq(t.payload, t.offset + 1, t.offset + size)
           cf    == [type |-> "CF", sn |-> t.next_sequence,
                     data |-> Padded(part, CfData)]
           t1    == [state         |-> IF pause THEN "WAIT_BLOCK_FC" ELSE t.state,
                     payload       |-> t.payload,
                     offset        |-> t.offset + size,
                     next_sequence |-> (t.next_sequence + 1) % SeqMod,
                     block_count   |-> IF pause THEN 0 ELSE count,
                     wait_frames   |-> t.wait_frames,
                     remote_bs     |-> t.remote_bs,
                     remote_st     |-> t.remote_st,
                     deadline      |-> Deadline(n, TxTimeout),
                     next_frame    |-> Deadline(n, t.remote_st)]
<1>1. /\ t.payload \in Seq(Byte) /\ Len(t.payload) \in Nat /\ t.offset \in Nat
      /\ t.block_count \in 0 .. 255 /\ t.remote_st \in Nat /\ t.state \in TxStates
  BY TxFields
<1>2. t.next_sequence \in Nat BY TxFields, SeqModAssumption
<1>3. size \in Nat /\ size <= CfData /\ t.offset + size <= Len(t.payload) /\ CfData \in Nat
  BY <1>1, FrameAssumption DEF Smaller, CfData
<1>4. part \in Seq(Byte) /\ Len(part) <= CfData
  <2> HIDE DEF size
  <2> QED BY <1>1, <1>3
<1>5. cf \in DataFrame
  <2>1. Padded(part, CfData) \in Data(CfData)
    <3> HIDE DEF part
    <3> QED BY <1>3, <1>4, PaddedOK
  <2> HIDE DEF part
  <2> QED BY <2>1, TxFields DEF DataFrame
<1>6. count \in 0 .. 255
  <2>1. t.block_count \in Nat
    <3>1. \A k : k \in 0 .. 255 => k \in Nat OBVIOUS
    <3> QED BY ONLY <1>1, <3>1, Zenon
  <2> QED BY <2>1, CountRange
<1>7. (t.next_sequence + 1) % SeqMod \in 0 .. SeqMod - 1 BY <1>2, NextSequenceRange
<1>8. Deadline(n, TxTimeout) \in Clock /\ Deadline(n, t.remote_st) \in Clock
  BY <1>1, ClockAssumption, DeadlineInClock
<1>9. t1 \in TxType
  <2>1. t.offset + size \in Nat BY <1>1, <1>3
  <2>2. (IF pause THEN "WAIT_BLOCK_FC" ELSE t.state) \in TxStates
    BY <1>1 DEF TxStates
  <2>3. (IF pause THEN 0 ELSE count) \in 0 .. 255 BY <1>6
  <2> HIDE DEF pause, size, count
  <2> QED BY <1>7, <1>8, <2>1, <2>2, <2>3, TxFields DEF TxType
<1>10. TxBounded(t1)
  <2>1. t1.payload = t.payload /\ t1.offset = t.offset + size OBVIOUS
  <2> HIDE DEF t1, size
  <2> QED BY <1>3, <2>1 DEF TxBounded
<1>11. TxConsecutive(t, n).tx = t1 /\ TxConsecutive(t, n).out = <<cf>>
  BY DEF TxConsecutive, TxResult
<1> HIDE DEF t1, cf
<1> QED BY <1>5, <1>9, <1>10, <1>11 DEF TxResultOK

\* isotp_tx_next().
LEMMA TxNextOK ==
    ASSUME NEW t \in TxType, TxBounded(t), NEW n \in Clock
    PROVE  TxResultOK(TxNext(t, n))
<1>1. CASE t.state # "SEND_CF"
  BY <1>1 DEF TxNext, TxResult, TxResultOK
<1>2. CASE t.state = "SEND_CF" /\ Expired(n, t.deadline)
  BY <1>2, ResetTypes DEF TxNext, TxResult, TxResultOK
<1>3. CASE t.state = "SEND_CF" /\ ~Expired(n, t.deadline) /\ ~Expired(n, t.next_frame)
  BY <1>3 DEF TxNext, TxResult, TxResultOK
<1>4. CASE /\ t.state = "SEND_CF" /\ ~Expired(n, t.deadline)
           /\ Expired(n, t.next_frame) /\ t.offset >= Len(t.payload)
  BY <1>4, ResetTypes DEF TxNext, TxResult, TxResultOK
<1>5. CASE /\ t.state = "SEND_CF" /\ ~Expired(n, t.deadline)
           /\ Expired(n, t.next_frame) /\ ~(t.offset >= Len(t.payload))
  <2>1. TxNext(t, n) = TxConsecutive(t, n) BY <1>5 DEF TxNext
  <2>2. t.offset < Len(t.payload)
    <3>1. t.offset \in Nat /\ Len(t.payload) \in Nat BY TxFields
    <3> QED BY <1>5, <3>1
  <2> QED BY <2>1, <2>2, TxConsecutiveOK
<1> QED BY <1>1, <1>2, <1>3, <1>4, <1>5

-----------------------------------------------------------------------------
(* The invariant. *)

IInv == TypeOK /\ BuffersRespected

\* What the application submits is a sequence of bytes.
LEMMA PayloadType ==
    ASSUME NEW k \in Nat, NEW len \in Nat
    PROVE  Payload(k, len) \in Seq(Byte)
BY DEF Payload, Byte

\* The initial state satisfies the invariant.
LEMMA InitIInv == Init => IInv
<1> SUFFICES ASSUME Init PROVE IInv OBVIOUS
<1>1. TypeOK BY ResetTypes, LinkAssumption DEF Init, TypeOK
<1>2. BuffersRespected BY ResetTypes DEF Init, BuffersRespected
<1> QED BY <1>1, <1>2 DEF IInv

\* Every step keeps the invariant.
LEMMA NextIInv == IInv /\ [Next]_vars => IInv'
<1> SUFFICES ASSUME IInv, [Next]_vars PROVE IInv' OBVIOUS
<1>0. /\ now \in Clock /\ rx \in RxType /\ tx \in TxType
      /\ toRx \in Seq(DataFrame) /\ toTx \in Seq(FcFrame)
      /\ sent \in Seq(Seq(Byte)) /\ got \in Seq(Seq(Byte))
      /\ losses \in 0 .. MaxLoss /\ spoiled \in Nat
      /\ RxBounded(rx) /\ TxBounded(tx) /\ Len(sent) \in Nat
  BY DEF IInv, TypeOK, BuffersRespected
<1>1. ASSUME NEW len \in Lengths, Submit(len) PROVE IInv'
  <2> DEFINE p == Payload(Len(sent) + 1, len)
  <2>1. p \in Seq(Byte) BY <1>0, LinkAssumption, PayloadType
  <2>2. TxResultOK(TxStart(tx, p, now)) BY <1>0, <2>1, TxStartOK
  <2>3. /\ tx' = TxStart(tx, p, now).tx /\ toRx' = toRx \o TxStart(tx, p, now).out
        /\ sent' = Append(sent, p)
        /\ UNCHANGED <<now, rx, toTx, got, losses, spoiled>>
    BY <1>1 DEF Submit
  <2> HIDE DEF p
  <2>4. toRx' \in Seq(DataFrame) BY <1>0, <2>2, <2>3, ConcatLength DEF TxResultOK
  <2>5. sent' \in Seq(Seq(Byte)) BY <1>0, <2>1, <2>3
  <2> QED BY <1>0, <2>2, <2>3, <2>4, <2>5
          DEF IInv, TypeOK, BuffersRespected, TxResultOK
<1>2. CASE SendNext
  <2>1. TxResultOK(TxNext(tx, now)) BY <1>0, TxNextOK
  <2>2. /\ tx' = TxNext(tx, now).tx /\ toRx' = toRx \o TxNext(tx, now).out
        /\ UNCHANGED <<now, rx, toTx, sent, got, losses, spoiled>>
    BY <1>2 DEF SendNext
  <2>3. toRx' \in Seq(DataFrame) BY <1>0, <2>1, <2>2, ConcatLength DEF TxResultOK
  <2> QED BY <1>0, <2>1, <2>2, <2>3 DEF IInv, TypeOK, BuffersRespected, TxResultOK
<1>3. CASE SenderReceive
  <2>1. Head(toTx) \in FcFrame /\ Tail(toTx) \in Seq(FcFrame)
    BY <1>0, <1>3 DEF SenderReceive
  <2>2. TxResultOK(TxFlowControl(tx, Head(toTx), now)) BY <1>0, <2>1, TxFlowControlOK
  <2> QED BY <1>0, <1>3, <2>1, <2>2
          DEF SenderReceive, IInv, TypeOK, BuffersRespected, TxResultOK
<1>4. CASE SenderTick
  <2>1. TxTick(tx, now) \in TxType /\ TxBounded(TxTick(tx, now)) BY <1>0, TxTickOK
  <2> QED BY <1>0, <1>4, <2>1 DEF SenderTick, IInv, TypeOK, BuffersRespected
<1>5. CASE ReceiverReceive
  <2> DEFINE r == RxFeed(rx, Head(toRx), now)
  <2>1. Head(toRx) \in DataFrame /\ Tail(toRx) \in Seq(DataFrame)
    BY <1>0, <1>5 DEF ReceiverReceive
  <2>2. RxResultOK(r) BY <1>0, <2>1, RxFeedOK
  <2>3. /\ rx' = r.rx /\ toTx' = toTx \o r.fc
        /\ got' = IF r.status = "COMPLETE" THEN Append(got, r.payload) ELSE got
        /\ toRx' = Tail(toRx) /\ UNCHANGED <<now, tx, sent, losses, spoiled>>
    BY <1>5 DEF ReceiverReceive
  <2> HIDE DEF r
  <2>4. toTx' \in Seq(FcFrame) BY <1>0, <2>2, <2>3, ConcatLength DEF RxResultOK
  <2>5. got' \in Seq(Seq(Byte)) BY <1>0, <2>2, <2>3 DEF RxResultOK
  <2> QED BY <1>0, <2>1, <2>2, <2>3, <2>4, <2>5
          DEF IInv, TypeOK, BuffersRespected, RxResultOK
<1>6. CASE ReceiverTick
  <2>1. RxTick(rx, now) \in RxType /\ RxBounded(RxTick(rx, now)) BY <1>0, RxTickOK
  <2> QED BY <1>0, <1>6, <2>1 DEF ReceiverTick, IInv, TypeOK, BuffersRespected
<1>7. CASE PeerWait
  <2>1. <<FlowControl("WAIT")>> \in Seq(FcFrame) BY FlowControlType
  <2>2. <<FlowControl("WAIT")>> \o toTx \in Seq(FcFrame) BY <1>0, <2>1, ConcatLength
  <2> QED BY <1>0, <1>7, <2>2 DEF PeerWait, IInv, TypeOK, BuffersRespected
<1>8. CASE LoseData
  <2>1. Tail(toRx) \in Seq(DataFrame) BY <1>0, <1>8 DEF LoseData
  <2>2. losses + 1 \in 0 .. MaxLoss BY <1>0, <1>8, LinkAssumption DEF LoseData
  <2> QED BY <1>0, <1>8, <2>1, <2>2 DEF LoseData, IInv, TypeOK, BuffersRespected
<1>9. CASE LoseFc
  <2>1. Tail(toTx) \in Seq(FcFrame) BY <1>0, <1>9 DEF LoseFc
  <2>2. losses + 1 \in 0 .. MaxLoss BY <1>0, <1>9, LinkAssumption DEF LoseFc
  <2> QED BY <1>0, <1>9, <2>1, <2>2 DEF LoseFc, IInv, TypeOK, BuffersRespected
<1>10. CASE Tick
  <2>1. (now + 1) % ClockMod \in Clock BY <1>0, DeadlineInClock DEF Deadline
  <2> QED BY <1>0, <1>10, <2>1 DEF Tick, IInv, TypeOK, BuffersRespected
<1>11. CASE UNCHANGED vars
  BY <1>0, <1>11 DEF vars, IInv, TypeOK, BuffersRespected
<1> QED BY <1>1, <1>2, <1>3, <1>4, <1>5, <1>6, <1>7, <1>8, <1>9, <1>10, <1>11 DEF Next

\* Every behaviour of the link keeps both records, the frames under way and the
\* histories within their types.
THEOREM TypeCorrect == Spec => []TypeOK
<1>1. IInv => TypeOK BY DEF IInv
<1> QED BY <1>1, InitIInv, NextIInv, PTL DEF Spec

\* Every behaviour stays within the payload buffers of both sides, which isotp.c
\* indexes without a check of its own.
THEOREM BuffersSafe == Spec => []BuffersRespected
<1>1. IInv => BuffersRespected BY DEF IInv
<1> QED BY <1>1, InitIInv, NextIInv, PTL DEF Spec

-----------------------------------------------------------------------------
(* The receiver's bookkeeping agrees with what it holds. *)

\* A multiple of a larger number is ahead by at least the factor.
LEMMA Grows ==
    ASSUME NEW k \in Nat \ {0}, NEW x \in Int, NEW y \in Int, x < y
    PROVE  x * k + k <= y * k
OBVIOUS

\* A quotient and a remainder that fit are the ones.
LEMMA RemainderIs ==
    ASSUME NEW k \in Nat \ {0}, NEW q \in Nat, NEW r \in 0 .. k - 1
    PROVE  (q * k + r) % k = r
<1> DEFINE x == q * k + r
           d == x \div k
           m == x % k
<1>1. x \in Nat OBVIOUS
<1>2. d \in Nat /\ m \in 0 .. k - 1 /\ x = d * k + m BY <1>1
<1> HIDE DEF d, m
<1>3. q * k \in Nat /\ d * k \in Nat BY <1>2
<1>4. ~(d < q)
  <2> SUFFICES ASSUME d < q PROVE FALSE OBVIOUS
  <2>1. d * k + k <= q * k BY <1>2, Grows
  <2> QED BY ONLY <1>2, <1>3, <2>1, r \in 0 .. k - 1, k \in Nat \ {0}
<1>5. ~(q < d)
  <2> SUFFICES ASSUME q < d PROVE FALSE OBVIOUS
  <2>1. q * k + k <= d * k BY <1>2, Grows
  <2> QED BY ONLY <1>2, <1>3, <2>1, r \in 0 .. k - 1, k \in Nat \ {0}
<1>6. d = q BY ONLY <1>2, <1>4, <1>5, q \in Nat
<1>7. m = r BY ONLY <1>2, <1>3, <1>6, r \in 0 .. k - 1, k \in Nat \ {0}
<1> QED BY <1>7 DEF m

\* Counting on from a wrapped number gives the wrapped number counted on.
LEMMA CountsOn ==
    ASSUME NEW j \in Nat
    PROVE  ((j % SeqMod) + 1) % SeqMod = (j + 1) % SeqMod
<1> DEFINE q == j \div SeqMod
           r == j % SeqMod
<1>1. SeqMod \in Nat \ {0} /\ SeqMod >= 2 BY SeqModAssumption
<1>2. q \in Nat /\ r \in 0 .. SeqMod - 1 /\ j = q * SeqMod + r BY <1>1
<1> HIDE DEF q, r
<1>3. q * SeqMod \in Nat BY <1>1, <1>2
<1>4. CASE r + 1 < SeqMod
  <2>1. r + 1 \in 0 .. SeqMod - 1 BY <1>1, <1>2, <1>4
  <2>2. j + 1 = q * SeqMod + (r + 1) BY ONLY <1>1, <1>2, <1>3
  <2>3. (j + 1) % SeqMod = r + 1 BY <1>1, <1>2, <2>1, <2>2, RemainderIs
  <2>4. 0 * SeqMod + (r + 1) = r + 1 BY <1>1, <1>2
  <2>5. (0 * SeqMod + (r + 1)) % SeqMod = r + 1
    BY ONLY <1>1, <2>1, RemainderIs, 0 \in Nat
  <2> QED BY <2>3, <2>4, <2>5 DEF r
<1>5. CASE r + 1 = SeqMod
  <2>1. (q + 1) * SeqMod = q * SeqMod + SeqMod BY <1>1, <1>2
  <2>2. j + 1 = (q + 1) * SeqMod + 0 BY ONLY <1>1, <1>2, <1>3, <1>5, <2>1
  <2>3. q + 1 \in Nat /\ 0 \in 0 .. SeqMod - 1 BY <1>1, <1>2
  <2>4. (j + 1) % SeqMod = 0 BY <1>1, <2>2, <2>3, RemainderIs
  <2>5. (r + 1) % SeqMod = 0 BY <1>1, <1>5
  <2> QED BY <2>4, <2>5 DEF r
<1> QED BY <1>1, <1>2, <1>4, <1>5

\* After k consecutive frames the buffer holds what a first frame and k whole
\* frames carry, and the next sequence number is k + 1 on the wrapping counter.
Collected(r, k) == /\ Len(r.buffer) = FfData + k * CfData
                   /\ r.next_sequence = (k + 1) % SeqMod

\* ReceiverConsistent of any receiver record.
RxConsistent(r) ==
    r.active => /\ \E k \in 0 .. r.expected_len : Collected(r, k)
                /\ (BlockSize # 0 => r.block_count < BlockSize)

\* The property of the specification is the predicate at its receiver.
LEMMA ConsistentNames == ReceiverConsistent <=> RxConsistent(rx)
BY DEF ReceiverConsistent, RxConsistent, Collected

\* A first frame that is accepted brings FfData bytes and resets the counters.
LEMMA RxFirstConsistent ==
    ASSUME NEW r \in RxType, RxConsistent(r), NEW n \in Clock, NEW f,
           f.len \in Nat, f.data \in Data(FfData)
    PROVE  RxConsistent(RxFirst(r, f, n).rx)
<1>1. CASE Len(f.data) < FfData \/ f.len <= SfMax
  BY <1>1 DEF RxFirst, RxResult
<1>2. CASE ~(Len(f.data) < FfData \/ f.len <= SfMax) /\ TooLong(f.len)
  BY <1>2 DEF RxFirst, RxResult, RxReset, RxConsistent
<1>3. CASE ~(Len(f.data) < FfData \/ f.len <= SfMax) /\ ~TooLong(f.len)
  <2> DEFINE new == NewReception(r, f, n)
  <2>1. RxFirst(r, f, n).rx = new BY <1>3 DEF RxFirst, RxResult
  <2>2. /\ f.data \in Seq(Byte) /\ Len(f.data) = FfData /\ FfData \in Nat
        /\ FfData < f.len
    BY <1>3, DataIsSeq, FrameAssumption DEF FfData, SfMax
  <2>3. Smaller(Len(f.data), f.len) = FfData BY <2>2 DEF Smaller
  <2>4. Len(Take(f.data, FfData)) = FfData BY <2>2, TakeLength
  <2>5. /\ new.buffer = Take(f.data, FfData) /\ new.expected_len = f.len
        /\ new.next_sequence = 1 /\ new.block_count = 0
    BY <2>3 DEF NewReception
  <2> HIDE DEF new
  <2>6. Len(new.buffer) = FfData + 0 * CfData
    BY <2>2, <2>4, <2>5, FrameAssumption DEF CfData
  <2>7. new.next_sequence = (0 + 1) % SeqMod BY <2>5, SeqModAssumption
  <2>8. 0 \in 0 .. new.expected_len BY <2>5
  <2>9. BlockSize # 0 => new.block_count < BlockSize BY <2>5, ConfigAssumption
  <2> QED BY <2>1, <2>6, <2>7, <2>8, <2>9 DEF RxConsistent, Collected
<1> QED BY <1>1, <1>2, <1>3

\* A consecutive frame that does not complete the message is a whole one: it
\* advances the buffer by CfData bytes and the sequence number by one, and the
\* count of the block starts over when the block is full.
LEMMA RxAppendConsistent ==
    ASSUME NEW r \in RxType, RxBounded(r), RxConsistent(r), r.active = TRUE,
           NEW n \in Clock, NEW f, f.data \in Data(CfData),
           ~(/\ r.expected_len - Len(r.buffer) > Len(f.data)
             /\ Len(f.data) < CfData)
    PROVE  RxConsistent(RxAppend(r, f, n).rx)
<1> DEFINE c     == CopyLen(r, f)
           got1  == r.buffer \o Take(f.data, c)
           count == (r.block_count + 1) % 256
           done  == Len(got1) >= r.expected_len
           ask   == ~done /\ BlockFull(count, BlockSize)
           r1    == RxAppend(r, f, n).rx
<1>1. /\ r.buffer \in Seq(Byte) /\ r.expected_len \in 0 .. RxMax
      /\ r.block_count \in Nat
      /\ f.data \in Seq(Byte) /\ Len(f.data) \in Nat /\ Len(r.buffer) \in Nat
      /\ Len(f.data) <= CfData
  BY RxFields, DataIsSeq
<1>2. c \in 0 .. Len(f.data) /\ Len(r.buffer) + c <= r.expected_len
  BY <1>1, ConfigAssumption DEF CopyLen, Smaller, RxBounded
<1>3. Len(got1) = Len(r.buffer) + c
  <2>1. Take(f.data, c) \in Seq(Byte) /\ Len(Take(f.data, c)) = c
    BY <1>1, <1>2, TakeLength
  <2> HIDE DEF c
  <2> QED BY <1>1, <2>1, ConcatLength
<1>4. /\ r1.active = ~done /\ r1.expected_len = r.expected_len /\ r1.buffer = got1
      /\ r1.next_sequence = (r.next_sequence + 1) % SeqMod
      /\ r1.block_count = IF ask THEN 0 ELSE count
  <2> DEFINE new == [active        |-> ~done,
                     expected_len  |-> r.expected_len,
                     buffer        |-> got1,
                     next_sequence |-> (r.next_sequence + 1) % SeqMod,
                     block_count   |-> IF ask THEN 0 ELSE count,
                     deadline      |-> Deadline(n, RxTimeout)]
  <2>1. r1 = new BY DEF RxAppend, RxResult
  <2> HIDE DEF r1, done, ask, got1, count
  <2> QED BY <2>1
<1>5. count \in Nat BY <1>1, CountRange
<1>6. PICK k \in 0 .. r.expected_len : Collected(r, k) BY DEF RxConsistent
<1> HIDE DEF r1, count, got1
<1> SUFFICES ASSUME ~done PROVE RxConsistent(r1)
  <2>1. done => ~r1.active BY <1>4, Zenon
  <2> QED BY <2>1, Zenon DEF RxConsistent, r1
<1>7. c = CfData /\ CfData \in Nat /\ CfData >= 2
  <2>1. Len(r.buffer) + c < r.expected_len BY <1>1, <1>2, <1>3
  <2>2. c = Len(f.data) /\ r.expected_len - Len(r.buffer) > Len(f.data)
    BY <1>1, <2>1 DEF CopyLen, Smaller
  <2> QED BY <1>1, <2>2, FrameAssumption DEF CfData
<1> HIDE DEF c
<1>8. k \in Nat /\ k + 1 \in Nat /\ r.expected_len \in Nat BY <1>1
<1>9. Len(got1) = FfData + (k + 1) * CfData
  <2>1. (k + 1) * CfData = k * CfData + CfData BY <1>7, <1>8
  <2>2. k * CfData \in Nat /\ FfData \in Nat BY <1>7, <1>8, FrameAssumption DEF FfData
  <2>3. Len(r.buffer) = FfData + k * CfData BY <1>6 DEF Collected
  <2> QED BY ONLY <1>3, <1>7, <2>1, <2>2, <2>3
<1>10. k + 1 \in 0 .. r.expected_len
  <2>1. k + 1 <= (k + 1) * CfData BY <1>7, <1>8
  <2>2. FfData \in Nat /\ (k + 1) * CfData \in Nat
    BY <1>7, <1>8, FrameAssumption DEF FfData
  <2>3. Len(got1) < r.expected_len BY <1>1, <1>2, <1>3
  <2> QED BY ONLY <1>8, <1>9, <2>1, <2>2, <2>3
<1>11. r1.next_sequence = ((k + 1) + 1) % SeqMod
  BY <1>4, <1>6, <1>8, CountsOn DEF Collected
<1>12. BlockSize # 0 => r1.block_count < BlockSize
  BY <1>4, <1>5, ConfigAssumption DEF BlockFull
<1> QED BY <1>4, <1>9, <1>10, <1>11, <1>12 DEF RxConsistent, Collected

\* No frame leaves the receiver with counters that disagree with its buffer.
LEMMA RxFeedConsistent ==
    ASSUME NEW r \in RxType, RxBounded(r), RxConsistent(r), NEW n \in Clock,
           NEW f \in DataFrame
    PROVE  RxConsistent(RxFeed(r, f, n).rx)
<1> DEFINE r1 == IF FullDuplex /\ r.active /\ f.type \in {"SF", "FF"}
                 THEN RxReset ELSE r
<1>0. RxConsistent(RxReset) BY DEF RxConsistent, RxReset
<1>1. r1 \in RxType /\ RxBounded(r1) /\ RxConsistent(r1) BY <1>0, ResetTypes
<1>2. CASE f \in [type : {"SF"}, len : Nat, data : Data(SfMax)]
  <2>1. RxFeed(r, f, n) = RxSingle(r1, f) BY <1>2 DEF RxFeed
  <2>2. RxSingle(r1, f).rx \in {r1, RxReset} BY DEF RxSingle, RxResult
  <2> QED BY <1>0, <1>1, <2>1, <2>2
<1>3. CASE f \in [type : {"FF"}, len : Nat, data : Data(FfData)]
  <2>1. RxFeed(r, f, n) = RxFirst(r1, f, n) BY <1>3 DEF RxFeed
  <2> QED BY <1>1, <1>3, <2>1, RxFirstConsistent
<1>4. CASE f \in [type : {"CF"}, sn : 0 .. SeqMod - 1, data : Data(CfData)]
  <2> DEFINE short == /\ r.expected_len - Len(r.buffer) > Len(f.data)
                      /\ Len(f.data) < CfData
  <2>1. RxFeed(r, f, n) = RxConsecutive(r, f, n) BY <1>4 DEF RxFeed
  <2>2. CASE ~r.active
    BY <2>1, <2>2 DEF RxConsecutive, RxResult
  <2>3. CASE r.active /\ (~InSequence(r, f) \/ short)
    BY <1>0, <2>1, <2>3 DEF RxConsecutive, RxResult
  <2>4. CASE r.active /\ InSequence(r, f) /\ ~short
    <3>1. RxFeed(r, f, n) = RxAppend(r, f, n) BY <2>1, <2>4 DEF RxConsecutive
    <3>2. r.active = TRUE BY <2>4, RxFields
    <3> QED BY <1>4, <2>4, <3>1, <3>2, RxAppendConsistent
  <2> QED BY <2>2, <2>3, <2>4
<1> QED BY <1>2, <1>3, <1>4 DEF DataFrame

\* For every configuration and loss pattern the sequence number the receiver
\* expects and the count of its block agree with the bytes it holds, so that no
\* accepted frame is copied to the place of another.
THEOREM ReceiverAlwaysConsistent == Spec => []ReceiverConsistent
<1>1. Init => ReceiverConsistent BY DEF Init, ReceiverConsistent, RxReset
<1>2. IInv /\ ReceiverConsistent /\ [Next]_vars => ReceiverConsistent'
  <2> SUFFICES ASSUME IInv, RxConsistent(rx), [Next]_vars PROVE RxConsistent(rx')
    BY ConsistentNames DEF ReceiverConsistent, RxConsistent, Collected
  <2>0. /\ now \in Clock /\ rx \in RxType /\ RxBounded(rx) /\ toRx \in Seq(DataFrame)
    BY DEF IInv, TypeOK, BuffersRespected
  <2>1. CASE ReceiverReceive
    <3>1. Head(toRx) \in DataFrame BY <2>0, <2>1 DEF ReceiverReceive
    <3>2. rx' = RxFeed(rx, Head(toRx), now).rx BY <2>1 DEF ReceiverReceive
    <3> QED BY <2>0, <3>1, <3>2, RxFeedConsistent
  <2>2. CASE ReceiverTick
    <3>1. rx' \in {rx, RxReset} BY <2>2 DEF ReceiverTick, RxTick
    <3>2. RxConsistent(RxReset) BY DEF RxConsistent, RxReset
    <3> QED BY <3>1, <3>2
  <2>3. CASE UNCHANGED rx BY <2>3
  <2> QED BY <2>1, <2>2, <2>3
          DEF Next, Submit, SendNext, SenderReceive, SenderTick, PeerWait, LoseData,
              LoseFc, Tick, vars
<1> QED BY <1>1, <1>2, InitIInv, NextIInv, PTL DEF Spec
=============================================================================
