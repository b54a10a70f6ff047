--------------------------- MODULE Endpoint_proofs ---------------------------
(***************************************************************************)
(* Theorems about Endpoint for every frame length, clock, number of        *)
(* mailboxes, size of the ring and set of requests, and any number of       *)
(* frames, lost frames and bus-off episodes.                               *)
(***************************************************************************)
EXTENDS Endpoint, SequenceTheorems, TLAPS

-----------------------------------------------------------------------------
(* The invariant. *)

Requests  == [op : Ops \cup Functional \cup {"READ"}, spr : BOOLEAN]
Responses == {Short(a) : a \in Answers} \cup {Long(a) : a \in Answers}
Bytes     == Answers \cup {Fill}

\* What a slot of the endpoint holds: nothing, or one element of S.
Slot(S) == {s \in Seq(S) : Len(s) <= 1}

FlowControls == {FlowControl("CTS"), FlowControl("OVERFLOW")}

\* The frames the endpoint sends.
OutFrames ==
    [type : {"SF"}, len : 1 .. SfMax, data : Seq(Bytes)]
    \cup [type : {"FF"}, len : Nat, data : {d \in Seq(Bytes) : Len(d) = FfData}]
    \cup [type : {"CF"}, sn : 0 .. SeqMod - 1,
          data : {d \in Seq(Bytes) : Len(d) = CfData}]
    \cup FlowControls

\* A receiver under way holds the beginning of a request and waits for more.
RxOK(r) == /\ r.active \in BOOLEAN /\ r.expected_len \in Nat
           /\ r.buffer \in Seq(Requests) /\ Len(r.buffer) <= r.expected_len
           /\ (r.active => r.buffer # <<>> /\ Len(r.buffer) < r.expected_len)

TxOK(t) == /\ t.state \in TxStates /\ t.payload \in Seq(Bytes)
           /\ t.offset \in Nat /\ t.offset <= Len(t.payload)
           /\ t.next_sequence \in 0 .. SeqMod - 1

Servers == [session : Sessions, reset_pending : BOOLEAN, reset_ready : BOOLEAN,
            reset_type : {"none", "hard"}, last_activity : Clock]

Submitted == [frame : OutFrames, final : BOOLEAN, reset : BOOLEAN]
Queued    == [payload : Responses, reset : BOOLEAN]

LoopTyped == /\ pc \in {"poll", "receive", "process", "tick", "diagnose"}
             /\ clock \in Clock /\ now \in Clock /\ lastDiag \in Clock
             /\ ring \in Seq(TesterFrames) /\ Len(ring) < RingSlots
             /\ frame \in Slot(TesterFrames)

PathTyped == /\ RxOK(rx) /\ TxOK(tx)
             /\ pending \in Slot(Submitted) /\ flight \in Slot(Tagged)
             /\ (pending = <<>> \/ flight = <<>>)
             /\ queued \in Slot(Queued) /\ control \in Slot(FlowControls)
             /\ txReset \in BOOLEAN /\ srv \in Servers

CanTyped == /\ mbox \in [Mailboxes -> Slot(OutFrames)] /\ mask \subseteq Mailboxes
            /\ txError \in BOOLEAN /\ busOff \in BOOLEAN
            /\ answer \in Fates /\ silent \in BOOLEAN

\* A response that is marked is the positive answer to an ECUReset, in a single
\* frame; a segmented transfer has no mark to pass on.
MarkedIsAnswer ==
    /\ (pending # <<>> /\ pending[1].reset => IsResetAnswer(pending[1].frame))
    /\ (queued # <<>> /\ queued[1].reset => queued[1].payload = Short("RESET_OK"))
    /\ (tx.state # "IDLE" => ~txReset)

\* Only an ECUReset becomes ready.
ReadyIsReset == srv.reset_ready => ResponseResetPending(srv)

\* While the answer is in flight it is in a mailbox the transport watches, or
\* its fate is known.
FlightCarries == flight # <<>> /\ flight[1].reset => answer # "none" \/ AnswerWaits

IInv == /\ LoopTyped /\ PathTyped /\ CanTyped
        /\ MarksAreCurrent /\ MarkedIsAnswer /\ ReadyIsReset /\ FlightCarries
        /\ ResetAfterAnswer

-----------------------------------------------------------------------------
(* Slots, sequences and the clock. *)

\* A sequence is empty when its length is 0.
LEMMA NotEmpty ==
    ASSUME NEW S, NEW s \in Seq(S)
    PROVE  Len(s) \in Nat /\ (s = <<>> <=> Len(s) = 0)
<1>1. s = <<>> => Len(s) = 0 BY EmptySeq, Zenon
<1>2. s # <<>> => Len(s) \in Nat \ {0} BY EmptySeq, Zenon
<1>3. Len(s) \in Nat BY LenProperties
<1>4. s # <<>> => Len(s) # 0 BY <1>2
<1> QED BY <1>1, <1>3, <1>4, Zenon

\* A slot that is not empty holds an element of S, and only one.
LEMMA SlotHolds ==
    ASSUME NEW S, NEW s \in Slot(S)
    PROVE  /\ Len(s) = IF s = <<>> THEN 0 ELSE 1
           /\ (s # <<>> => s[1] \in S)
<1>1. s \in Seq(S) /\ Len(s) <= 1 BY DEF Slot
<1>2. Len(s) \in Nat /\ (s = <<>> <=> Len(s) = 0) BY <1>1, NotEmpty, Zenon
<1>3. PICK k \in Nat : k = Len(s) BY <1>2
<1>4. k <= 1 BY <1>1, <1>3
<1>5. k # 0 => k = 1 BY ONLY <1>4, k \in Nat
<1>6. k # 0 => s[1] \in S
  <2> SUFFICES ASSUME k # 0 PROVE s[1] \in S OBVIOUS
  <2>1. 1 \in 1 .. Len(s) BY <1>3
  <2> QED BY <1>1, <2>1, ElementOfSeq
<1> QED BY <1>2, <1>3, <1>5, <1>6, Zenon

\* The empty slot and the slot that holds x.
LEMMA SlotOf ==
    ASSUME NEW S
    PROVE  <<>> \in Slot(S) /\ \A x \in S : <<x>> \in Slot(S) /\ <<x>> # <<>>
BY DEF Slot

\* deadline() stays on the clock.
LEMMA DeadlineInClock ==
    ASSUME NEW n \in Int
    PROVE  n % ClockMod \in Clock
<1>1. ClockMod \in Nat /\ ClockMod >= 1 BY ClockAssumption
<1> QED BY <1>1 DEF Clock

\* The first n elements of a sequence.
LEMMA TakeIs ==
    ASSUME NEW S, NEW s \in Seq(S), NEW n \in 0 .. Len(s)
    PROVE  /\ Take(s, n) \in Seq(S) /\ Len(Take(s, n)) = n
           /\ (n # 0 => Take(s, n) # <<>>)
BY DEF Take

-----------------------------------------------------------------------------
(* What the receiver makes of the tester's frames. *)

\* The data frames of the tester carry requests; its first frame announces more
\* than it carries.
LEMMA TesterData ==
    ASSUME NEW tf \in TesterFrames, tf.f.type # "FC"
    PROVE  /\ tf.f.type \in {"SF", "FF", "CF"}
           /\ tf.f.data \in Seq(Requests) /\ Len(tf.f.data) >= 1
           /\ (tf.f.type = "SF" => tf.f.len = 2 /\ Len(tf.f.data) = 2)
           /\ (tf.f.type = "FF" => tf.f.len = 4 /\ Len(tf.f.data) = 1)
<1>0. Read \in Requests BY DEF Read, Requests
<1>1. CASE \E q \in RequestsFor(Ops) \cup RequestsFor(Functional) : tf.f = SingleFrame(q)
  <2>1. PICK q \in RequestsFor(Ops) \cup RequestsFor(Functional) : tf.f = SingleFrame(q)
    BY <1>1
  <2>2. q \in Requests BY DEF Requests, RequestsFor
  <2> QED BY <2>1, <2>2 DEF SingleFrame
<1>2. CASE tf.f \in Segments
  <2>1. CASE tf.f = [type |-> "FF", len |-> 4, data |-> <<Read>>] BY <1>0, <2>1
  <2>2. CASE \E n : tf.f = [type |-> "CF", sn |-> n, data |-> <<Read, Read>>]
    BY <1>0, <2>2
  <2> QED BY <1>2, <2>1, <2>2 DEF Segments
<1>3. tf.f # [type |-> "FC", fs |-> "CTS", bs |-> 0, st |-> 0] OBVIOUS
<1> QED BY <1>1, <1>2, <1>3 DEF TesterFrames

\* The receiver at rest.
LEMMA RxResetOK == RxOK(RxReset)
BY DEF RxOK, RxReset

\* What isotp_rx_feed() hands to the endpoint.
Fed(r) == /\ RxOK(r.rx) /\ r.fc \in Slot(FlowControls)
          /\ (r.status = "COMPLETE" => r.payload \in Seq(Requests) /\ r.payload # <<>>)

\* The parts of a result.
LEMMA FedIs ==
    ASSUME NEW r, NEW status, NEW payload, NEW fc, RxOK(r),
           fc = <<>> \/ fc = <<FlowControl("CTS")>> \/ fc = <<FlowControl("OVERFLOW")>>,
           status = "COMPLETE" => payload \in Seq(Requests) /\ payload # <<>>
    PROVE  Fed(RxResult(r, status, payload, fc))
<1>1. fc \in Slot(FlowControls) BY SlotOf, Zenon DEF FlowControls
<1> QED BY <1>1, Zenon DEF Fed, RxResult

\* A first frame that is accepted starts a reception.
LEMMA NewReceptionOK ==
    ASSUME NEW r, NEW f, NEW n, f.len = 4, f.data \in Seq(Requests), Len(f.data) = 1
    PROVE  RxOK(NewReception(r, f, n))
<1> DEFINE k == Smaller(Len(f.data), f.len)
           b == Take(f.data, k)
<1>1. k = 1 BY DEF Smaller
<1>2. b \in Seq(Requests) /\ Len(b) = 1 /\ b # <<>>
  <2>1. k \in 0 .. Len(f.data) /\ k # 0 BY <1>1
  <2> QED BY <1>1, <2>1, TakeIs, Zenon
<1>3. NewReception(r, f, n) = [active |-> TRUE, expected_len |-> 4, buffer |-> b,
                               next_sequence |-> 1, block_count |-> 0,
                               deadline |-> Deadline(n, RxTimeout)]
  BY Zenon DEF NewReception
<1> HIDE DEF b
<1> DEFINE u == NewReception(r, f, n)
<1>4. u.active = TRUE /\ u.expected_len = 4 /\ u.buffer = b BY <1>3
<1> HIDE DEF u
<1>5. u.buffer \in Seq(Requests) /\ u.buffer # <<>> BY <1>2, <1>4, Zenon
<1>6. u.expected_len \in Nat BY <1>4
<1>7. Len(b) <= 4 /\ Len(b) < 4 BY <1>2
<1>8. u.active \in BOOLEAN BY <1>4, Zenon
<1>9. RxOK(u) BY <1>4, <1>5, <1>6, <1>7, <1>8, Zenon DEF RxOK
<1> QED BY <1>9 DEF u

\* A consecutive frame completes the request or leaves some of it outstanding.
LEMMA RxAppendOK ==
    ASSUME NEW r, RxOK(r), r.active, NEW f, NEW n,
           f.data \in Seq(Requests), Len(f.data) >= 1
    PROVE  Fed(RxAppend(r, f, n))
<1> DEFINE k     == CopyLen(r, f)
           part  == Take(f.data, k)
           got   == r.buffer \o part
           count == (r.block_count + 1) % 256
           done  == Len(got) >= r.expected_len
           ask   == ~done /\ BlockFull(count, BlockSize)
           new   == [active |-> ~done, expected_len |-> r.expected_len, buffer |-> got,
                     next_sequence |-> (r.next_sequence + 1) % SeqMod,
                     block_count |-> IF ask THEN 0 ELSE count,
                     deadline |-> Deadline(n, RxTimeout)]
           status == IF done THEN "COMPLETE"
                     ELSE IF ask THEN "NEED_FLOW_CONTROL" ELSE "OK"
           fc == IF ask THEN <<FlowControl("CTS")>> ELSE <<>>
<1>1. /\ r.buffer \in Seq(Requests) /\ r.buffer # <<>> /\ r.expected_len \in Nat
      /\ Len(r.buffer) < r.expected_len /\ Len(r.buffer) \in Nat
  BY DEF RxOK
<1>2. k \in 0 .. Len(f.data) /\ k <= r.expected_len - Len(r.buffer)
  BY <1>1 DEF CopyLen, Smaller
<1>3. part \in Seq(Requests) /\ Len(part) = k BY <1>2, TakeIs
<1> HIDE DEF k, part
<1>4. got \in Seq(Requests) /\ Len(got) = Len(r.buffer) + k /\ got # <<>>
  <2>1. got \in Seq(Requests) /\ Len(got) = Len(r.buffer) + Len(part)
    <3>1. \A s, e \in Seq(Requests) : s \o e \in Seq(Requests)
                                      /\ Len(s \o e) = Len(s) + Len(e)
      OBVIOUS
    <3> QED BY <1>1, <1>3, <3>1, Zenon
  <2>2. got # <<>> BY <1>1, <1>3, ConcatEqualIffEmpty, Zenon
  <2> QED BY <1>3, <2>1, <2>2, Zenon
<1>5. Len(got) <= r.expected_len BY <1>1, <1>2, <1>4
<1>6. RxAppend(r, f, n) = RxResult(new, status, IF done THEN got ELSE <<>>, fc)
  BY Zenon DEF RxAppend, k, part
<1>7. new.active <=> ~done BY Zenon
<1>8. new.active \in BOOLEAN BY Zenon
<1>9. new.expected_len = r.expected_len /\ new.buffer = got BY Zenon
<1>10. (~done => Len(got) < r.expected_len) BY <1>1, <1>4
<1> HIDE DEF new, got
<1>11. RxOK(new) BY <1>1, <1>4, <1>5, <1>7, <1>8, <1>9, <1>10 DEF RxOK
<1>12. fc = <<>> \/ fc = <<FlowControl("CTS")>> BY Zenon
<1>13. status = "COMPLETE" => done OBVIOUS
<1> HIDE DEF fc, status
<1>14. status = "COMPLETE" => /\ (IF done THEN got ELSE <<>>) \in Seq(Requests)
                              /\ (IF done THEN got ELSE <<>>) # <<>>
  BY <1>4, <1>13, Zenon
<1> QED BY <1>6, <1>11, <1>12, <1>14, FedIs

\* isotp_rx_feed() keeps the receiver well formed and completes only requests.
LEMMA RxFeedOK ==
    ASSUME NEW r, RxOK(r), NEW tf \in TesterFrames, tf.f.type # "FC", NEW n
    PROVE  Fed(RxFeed(r, tf.f, n))
<1> DEFINE f  == tf.f
           r1 == IF FullDuplex /\ r.active /\ f.type \in {"SF", "FF"}
                 THEN RxReset ELSE r
<1>0. /\ f.type \in {"SF", "FF", "CF"} /\ f.data \in Seq(Requests)
      /\ Len(f.data) >= 1
      /\ (f.type = "SF" => f.len = 2 /\ Len(f.data) = 2)
      /\ (f.type = "FF" => f.len = 4 /\ Len(f.data) = 1)
  BY TesterData
<1>1. RxOK(r1) BY RxResetOK
<1>2. RxFeed(r, f, n) = IF f.type = "SF" THEN RxSingle(r1, f)
                        ELSE IF f.type = "FF" THEN RxFirst(r1, f, n)
                        ELSE RxConsecutive(r1, f, n)
  BY <1>0, Zenon DEF RxFeed
<1> HIDE DEF f, r1
<1>3. \A s : s # "COMPLETE" => Fed(RxResult(r1, s, <<>>, <<>>)) BY <1>1, FedIs
<1>4. \A s : s # "COMPLETE" => Fed(RxResult(RxReset, s, <<>>, <<>>))
  BY RxResetOK, FedIs
<1>5. CASE f.type = "SF"
  <2>1. Take(f.data, f.len) \in Seq(Requests) /\ Take(f.data, f.len) # <<>>
    <3>1. f.len = 2 /\ Len(f.data) = 2 BY <1>0, <1>5, Zenon
    <3>2. f.len \in 0 .. Len(f.data) /\ f.len # 0 BY <3>1
    <3> QED BY <1>0, <3>2, TakeIs, Zenon
  <2>2. Fed(RxResult(RxReset, "COMPLETE", Take(f.data, f.len), <<>>))
    BY <2>1, RxResetOK, FedIs
  <2>3. Fed(RxSingle(r1, f)) BY <2>2, <1>3 DEF RxSingle
  <2> QED BY <1>2, <1>5, <2>3 DEF f
<1>6. CASE f.type = "FF"
  <2>1. RxOK(NewReception(r1, f, n)) BY <1>0, <1>6, NewReceptionOK
  <2>2. Fed(RxResult(NewReception(r1, f, n), "NEED_FLOW_CONTROL", <<>>,
                     <<FlowControl("CTS")>>))
    BY <2>1, FedIs
  <2>3. Fed(RxResult(RxReset, "ERR_OVERFLOW", <<>>, <<FlowControl("OVERFLOW")>>))
    BY RxResetOK, FedIs
  <2>4. Fed(RxFirst(r1, f, n)) BY <2>2, <2>3, <1>3 DEF RxFirst
  <2> QED BY <1>2, <1>6, <2>4 DEF f
<1>7. CASE f.type = "CF"
  <2>1. r1.active => Fed(RxAppend(r1, f, n)) BY <1>0, <1>1, RxAppendOK
  <2>2. Fed(RxConsecutive(r1, f, n)) BY <2>1, <1>3, <1>4 DEF RxConsecutive
  <2> QED BY <1>2, <1>7, <2>2 DEF f
<1> QED BY <1>0, <1>5, <1>6, <1>7

\* isotp_rx_tick() keeps the receiver or resets it.
LEMMA RxTickOK ==
    ASSUME NEW r, RxOK(r), NEW n
    PROVE  RxOK(RxTick(r, n))
BY RxResetOK DEF RxTick

-----------------------------------------------------------------------------
(* What the sender makes of the answers. *)

\* The sender at rest.
LEMMA TxResetOK == TxOK(TxReset) /\ TxReset.state = "IDLE"
BY SeqModAssumption DEF TxOK, TxReset, TxStates

\* isotp_tx_tick() keeps the transfer or ends it.
LEMMA TxTickOK ==
    ASSUME NEW t, TxOK(t), NEW n
    PROVE  TxOK(TxTick(t, n)) /\ (t.state = "IDLE" => TxTick(t, n).state = "IDLE")
BY TxResetOK DEF TxTick

\* A flow control moves a waiting sender on and starts nothing.
LEMMA TxFlowControlOK ==
    ASSUME NEW t, TxOK(t), NEW f, f.fs = "CTS", NEW n
    PROVE  /\ TxOK(TxFlowControl(t, f, n).tx)
           /\ (t.state = "IDLE" => TxFlowControl(t, f, n).tx.state = "IDLE")
<1>1. CASE t.state \notin {"WAIT_FIRST_FC", "WAIT_BLOCK_FC"}
  <2>1. TxFlowControl(t, f, n).tx = t BY <1>1, Zenon DEF TxFlowControl, TxResult
  <2> QED BY <2>1, Zenon
<1>2. CASE t.state \in {"WAIT_FIRST_FC", "WAIT_BLOCK_FC"}
  <2> DEFINE u == [state |-> "SEND_CF", payload |-> t.payload,
                   offset |-> t.offset, next_sequence |-> t.next_sequence,
                   block_count |-> 0, wait_frames |-> 0, remote_bs |-> f.bs,
                   remote_st |-> f.st, deadline |-> Deadline(n, TxTimeout),
                   next_frame |-> n]
  <2>1. TxFlowControl(t, f, n).tx = u BY <1>2 DEF TxFlowControl, TxResult
  <2>2. /\ u.state = "SEND_CF" /\ u.payload = t.payload /\ u.offset = t.offset
        /\ u.next_sequence = t.next_sequence
    OBVIOUS
  <2> HIDE DEF u
  <2>3. TxOK(u) BY <2>2, Zenon DEF TxOK, TxStates
  <2>4. t.state # "IDLE" BY <1>2
  <2> QED BY <2>1, <2>3, <2>4
<1> QED BY <1>1, <1>2

\* An answer is two or four bytes, whatever it says.
LEMMA ResponseIs ==
    ASSUME NEW p \in Responses
    PROVE  /\ p \in Seq(Bytes) /\ Len(p) >= 1 /\ Len(p) <= TxMax
           /\ (p = Short("RESET_OK") => Len(p) = 2 /\ p[1] = "RESET_OK")
<1>1. Answers \subseteq Bytes BY DEF Bytes
<1>2. CASE \E a \in Answers : p = Short(a)
  BY <1>1, <1>2, EndpointAssumption, ConfigAssumption DEF Short
<1>3. CASE \E a \in Answers : p = Long(a)
  BY <1>1, <1>3, EndpointAssumption, ConfigAssumption DEF Short, Long
<1> QED BY <1>2, <1>3 DEF Responses

\* isotp_tx_start() builds a frame for every answer; the answer to an ECUReset
\* fits a single frame, so that the sender is idle again at once.
LEMMA TxStartOK ==
    ASSUME NEW t, NEW p \in Responses, NEW n
    PROVE  /\ TxOK(TxStart(t, p, n).tx) /\ TxStart(t, p, n).out[1] \in OutFrames
           /\ (p = Short("RESET_OK") => /\ TxStart(t, p, n).tx.state = "IDLE"
                                        /\ IsResetAnswer(TxStart(t, p, n).out[1]))
<1> DEFINE ff == [type |-> "FF", len |-> Len(p), data |-> Take(p, FfData)]
           sf == [type |-> "SF", len |-> Len(p), data |-> p]
           u  == [state |-> "WAIT_FIRST_FC", payload |-> p,
                  offset |-> FfData, next_sequence |-> 1, block_count |-> 0,
                  wait_frames |-> t.wait_frames, remote_bs |-> t.remote_bs,
                  remote_st |-> t.remote_st, deadline |-> Deadline(n, TxTimeout),
                  next_frame |-> t.next_frame]
<1>0. PICK k \in Nat : k = Len(p)
  <2>1. p \in Seq(Bytes) BY ResponseIs
  <2> QED BY <2>1, NotEmpty, Zenon
<1>1. p \in Seq(Bytes) /\ k >= 1 /\ k <= TxMax /\ TxMax \in Nat
  BY <1>0, ResponseIs, ConfigAssumption
<1>2. p = Short("RESET_OK") => k = 2 /\ p[1] = "RESET_OK" BY <1>0, ResponseIs, Zenon
<1>3. CASE k <= SfMax
  <2>1. TxStart(t, p, n) = TxResult(TxReset, "TX_FRAME_READY", <<sf>>)
    <3>1. ~(k > TxMax) BY <1>1
    <3> QED BY <1>0, <1>3, <3>1, Zenon DEF TxStart
  <2>2. k \in 1 .. SfMax BY <1>1, <1>3, FrameAssumption DEF SfMax
  <2>3. sf \in OutFrames BY <1>0, <1>1, <2>2 DEF OutFrames
  <2>4. sf.type = "SF" /\ sf.data = p OBVIOUS
  <2> HIDE DEF sf
  <2>5. TxStart(t, p, n).tx = TxReset /\ TxStart(t, p, n).out[1] = sf
    BY <2>1 DEF TxResult
  <2> QED BY <1>2, <2>3, <2>4, <2>5, TxResetOK DEF IsResetAnswer
<1>4. CASE ~(k <= SfMax)
  <2>1. TxStart(t, p, n) = TxResult(u, "TX_FRAME_READY", <<ff>>)
    <3>1. ~(k > TxMax) BY <1>1
    <3> QED BY <1>0, <1>4, <3>1, Zenon DEF TxStart
  <2>2. FfData \in 0 .. k /\ FfData \in Nat /\ FfData <= k
    BY <1>4, FrameAssumption DEF FfData, SfMax
  <2>3. Take(p, FfData) \in Seq(Bytes) /\ Len(Take(p, FfData)) = FfData
    BY <1>0, <1>1, <2>2, TakeIs, Zenon
  <2>4. ff \in OutFrames BY <1>0, <2>3 DEF OutFrames
  <2>5. u.state = "WAIT_FIRST_FC" /\ u.payload = p /\ u.offset = FfData
        /\ u.next_sequence = 1
    OBVIOUS
  <2> HIDE DEF ff, u
  <2>6. 1 \in 0 .. SeqMod - 1 BY SeqModAssumption
  <2>7. TxOK(u) BY <1>0, <1>1, <2>2, <2>5, <2>6, Zenon DEF TxOK, TxStates
  <2>8. TxStart(t, p, n).tx = u /\ TxStart(t, p, n).out[1] = ff
    BY <2>1 DEF TxResult
  <2>9. k # 2 BY <1>4, FrameAssumption DEF SfMax
  <2> QED BY <1>2, <2>4, <2>7, <2>8, <2>9, Zenon
<1> QED BY <1>3, <1>4

\* What isotp_tx_next() leaves.
Stepped(r) == /\ TxOK(r.tx)
              /\ r.out = <<>> \/ \E f \in OutFrames : r.out = <<f>>
              /\ (r.status = "COMPLETE" => r.tx.state = "IDLE")

\* A consecutive frame is padded to its full length.
LEMMA PaddedOK ==
    ASSUME NEW d \in Seq(Bytes), NEW k \in Nat, Len(d) <= k
    PROVE  Padded(d, k) \in Seq(Bytes) /\ Len(Padded(d, k)) = k
<1> DEFINE pad == [i \in 1 .. k - Len(d) |-> Fill]
<1>1. Fill \in Bytes BY DEF Bytes
<1>2. k - Len(d) \in Nat OBVIOUS
<1>3. pad \in Seq(Bytes) /\ Len(pad) = k - Len(d) BY <1>1, <1>2
<1> HIDE DEF pad
<1>4. d \o pad \in Seq(Bytes) /\ Len(d \o pad) = Len(d) + Len(pad) BY <1>3
<1>5. Len(d \o pad) = k BY <1>3, <1>4
<1> QED BY <1>4, <1>5 DEF Padded, pad

\* A consecutive frame takes what is left and no more.
LEMMA TxConsecutiveOK ==
    ASSUME NEW t, TxOK(t), t.offset < Len(t.payload), NEW n
    PROVE  Stepped(TxConsecutive(t, n))
<1> DEFINE size  == Smaller(Len(t.payload) - t.offset, CfData)
           count == (t.block_count + 1) % 256
           pause == /\ BlockSent(count, t.remote_bs)
                    /\ t.offset + size < Len(t.payload)
           part  == SubSeq(t.payload, t.offset + 1, t.offset + size)
           cf    == [type |-> "CF", sn |-> t.next_sequence,
                     data |-> Padded(part, CfData)]
           u     == [state         |-> IF pause THEN "WAIT_BLOCK_FC" ELSE t.state,
                     payload       |-> t.payload,
                     offset        |-> t.offset + size,
                     next_sequence |-> (t.next_sequence + 1) % SeqMod,
                     block_count   |-> IF pause THEN 0 ELSE count,
                     wait_frames   |-> t.wait_frames,
                     remote_bs     |-> t.remote_bs,
                     remote_st     |-> t.remote_st,
                     deadline      |-> Deadline(n, TxTimeout),
                     next_frame    |-> Deadline(n, t.remote_st)]
<1>1. /\ t.payload \in Seq(Bytes) /\ Len(t.payload) \in Nat /\ t.offset \in Nat
      /\ t.state \in TxStates /\ t.next_sequence \in 0 .. SeqMod - 1
  BY DEF TxOK
<1>2. t.next_sequence \in Nat BY <1>1, SeqModAssumption
<1>3. size \in Nat /\ size <= CfData /\ t.offset + size <= Len(t.payload) /\ CfData \in Nat
  BY <1>1, FrameAssumption DEF Smaller, CfData
<1> HIDE DEF size
<1>4. part \in Seq(Bytes) /\ Len(part) <= CfData BY <1>1, <1>3
<1> HIDE DEF part
<1>5. Padded(part, CfData) \in Seq(Bytes) /\ Len(Padded(part, CfData)) = CfData
  BY <1>3, <1>4, PaddedOK
<1>6. cf \in OutFrames BY <1>1, <1>5 DEF OutFrames
<1>7. (t.next_sequence + 1) % SeqMod \in 0 .. SeqMod - 1
  BY <1>2, SeqModAssumption
<1>8. u.state \in TxStates
  <2>1. u.state = IF pause THEN "WAIT_BLOCK_FC" ELSE t.state BY Zenon
  <2> HIDE DEF u, pause
  <2> QED BY <1>1, <2>1 DEF TxStates
<1>9. /\ u.payload = t.payload /\ u.offset = t.offset + size
      /\ u.next_sequence = (t.next_sequence + 1) % SeqMod
  BY Zenon
<1>10. TxConsecutive(t, n) = TxResult(u, "TX_FRAME_READY", <<cf>>)
  BY Zenon DEF TxConsecutive, size, part
<1> HIDE DEF cf, u
<1>11. t.offset + size \in Nat BY <1>1, <1>3
<1>12. TxOK(u) BY <1>1, <1>3, <1>7, <1>8, <1>9, <1>11, Zenon DEF TxOK
<1>13. /\ TxConsecutive(t, n).tx = u /\ TxConsecutive(t, n).out = <<cf>>
       /\ TxConsecutive(t, n).status = "TX_FRAME_READY"
  BY <1>10 DEF TxResult
<1>14. TxConsecutive(t, n).status # "COMPLETE" BY <1>13
<1> QED BY <1>6, <1>12, <1>13, <1>14, Zenon DEF Stepped

\* isotp_tx_next().
LEMMA TxNextOK ==
    ASSUME NEW t, TxOK(t), NEW n
    PROVE  Stepped(TxNext(t, n))
<1>1. \A s : s # "COMPLETE" => Stepped(TxResult(t, s, <<>>))
  BY Zenon DEF Stepped, TxResult
<1>2. \A s : Stepped(TxResult(TxReset, s, <<>>))
  BY TxResetOK, Zenon DEF Stepped, TxResult
<1>3. ~(t.offset >= Len(t.payload)) => Stepped(TxConsecutive(t, n))
  <2>1. t.offset \in Nat /\ Len(t.payload) \in Nat BY DEF TxOK
  <2> QED BY <2>1, TxConsecutiveOK
<1> QED BY <1>1, <1>2, <1>3 DEF TxNext

-----------------------------------------------------------------------------
(* What the server does. *)

\* The fields of a server.
LEMMA ServerFields ==
    ASSUME NEW s \in Servers
    PROVE  /\ s.session \in Sessions /\ s.reset_pending \in BOOLEAN
           /\ s.reset_ready \in BOOLEAN /\ s.reset_type \in {"none", "hard"}
           /\ s.last_activity \in Clock
BY DEF Servers

\* uds_server_complete_reset() changes nothing but reset_ready.
LEMMA CompleteResetOK ==
    ASSUME NEW s \in Servers
    PROVE  /\ CompleteReset(s) \in Servers
           /\ (ResponseResetPending(CompleteReset(s)) <=> ResponseResetPending(s))
           /\ (s.reset_ready => CompleteReset(s).reset_ready)
           /\ CompleteReset(s).reset_pending = s.reset_pending
<1> DEFINE u == [s EXCEPT !.reset_ready = TRUE]
<1>1. u \in Servers BY Zenon DEF Servers
<1>2. u.reset_ready BY Zenon DEF Servers
<1>3. u.reset_pending = s.reset_pending BY Zenon DEF Servers
<1>4. u.reset_type = s.reset_type BY Zenon DEF Servers
<1>5. CompleteReset(s) = u \/ CompleteReset(s) = s BY Zenon DEF CompleteReset
<1> HIDE DEF u
<1> QED BY <1>1, <1>2, <1>3, <1>4, <1>5, Zenon DEF ResponseResetPending

\* uds_server_clear_reset() drops the reset.
LEMMA ClearResetOK ==
    ASSUME NEW s \in Servers
    PROVE  ClearReset(s) \in Servers /\ ~ClearReset(s).reset_ready
<1>1. ClearReset(s) \in Servers BY Zenon DEF Servers, ClearReset
<1>2. ~ClearReset(s).reset_ready BY Zenon DEF ClearReset
<1> QED BY <1>1, <1>2

\* A restarted server has no reset to carry out.
LEMMA ServerInitOK == ServerInit(0) \in Servers /\ ~ServerInit(0).reset_ready
<1>1. "DEFAULT" \in Sessions /\ 0 \in Clock BY ClockAssumption DEF Sessions, Clock
<1>2. ServerInit(0) \in Servers BY <1>1, Zenon DEF Servers, ServerInit
<1>3. ~ServerInit(0).reset_ready BY Zenon DEF ServerInit
<1> QED BY <1>2, <1>3

\* The S3 timeout leaves the reset alone.
LEMMA ServerTickOK ==
    ASSUME NEW s \in Servers, NEW n \in Clock
    PROVE  /\ ServerTick(s, n) \in Servers
           /\ ServerTick(s, n).reset_ready = s.reset_ready
           /\ ServerTick(s, n).reset_pending = s.reset_pending
           /\ ServerTick(s, n).reset_type = s.reset_type
<1> DEFINE u == [s EXCEPT !.session = "DEFAULT", !.last_activity = n]
<1>1. "DEFAULT" \in Sessions BY DEF Sessions
<1>2. u \in Servers BY <1>1, Zenon DEF Servers
<1>3. u.reset_ready = s.reset_ready BY Zenon DEF Servers
<1>4. u.reset_pending = s.reset_pending BY Zenon DEF Servers
<1>5. u.reset_type = s.reset_type BY Zenon DEF Servers
<1>6. ServerTick(s, n) = u \/ ServerTick(s, n) = s BY Zenon DEF ServerTick
<1> HIDE DEF u
<1> QED BY <1>2, <1>3, <1>4, <1>5, <1>6, Zenon

\* What a request may do to a server that has accepted no ECUReset: only an
\* ECUReset makes one pending, its answer is RESET_OK or nothing, and nothing
\* makes it ready.
Handled(h) == /\ h.srv \in Servers /\ ~h.srv.reset_ready
              /\ (h.response = <<>> \/ h.response \in Responses)
              /\ (ResponseResetPending(h.srv) =>
                    h.response = <<>> \/ h.response = Short("RESET_OK"))

\* The parts of a reply.
LEMMA HandledIs ==
    ASSUME NEW s \in Servers, ~s.reset_ready, NEW r,
           r = <<>> \/ r \in Responses,
           ResponseResetPending(s) => r = <<>> \/ r = Short("RESET_OK")
    PROVE  Handled(Reply(s, r))
<1>1. Reply(s, r).srv = s /\ Reply(s, r).response = r BY DEF Reply
<1> QED BY <1>1, Zenon DEF Handled

\* uds_server_handle_addressed().
LEMMA HandleOK ==
    ASSUME NEW s \in Servers, NEW q, NEW n \in Clock,
           ~ResponseResetPending(s), ~s.reset_ready
    PROVE  Handled(Handle(s, q, n))
<1> DEFINE live == [s EXCEPT !.last_activity = n]
           positive(a) == IF q.spr THEN <<>> ELSE Short(a)
<1>1. live \in Servers BY Zenon DEF Servers
<1>2. /\ live.reset_ready = s.reset_ready /\ live.reset_pending = s.reset_pending
      /\ live.reset_type = s.reset_type
  <2>1. live.reset_ready = s.reset_ready BY Zenon DEF Servers
  <2>2. live.reset_pending = s.reset_pending BY Zenon DEF Servers
  <2>3. live.reset_type = s.reset_type BY Zenon DEF Servers
  <2> QED BY <2>1, <2>2, <2>3
<1> HIDE DEF live
<1>3. ~ResponseResetPending(live) /\ ~live.reset_ready
  BY <1>2, Zenon DEF ResponseResetPending
<1>4. \A a \in Answers : Short(a) \in Responses /\ Long(a) \in Responses
  BY DEF Responses
<1>5. \A a \in Answers : positive(a) = <<>> \/ positive(a) \in Responses BY <1>4, Zenon
<1>6. positive("RESET_OK") = <<>> \/ positive("RESET_OK") = Short("RESET_OK") BY Zenon
<1>7. \A r : r = <<>> \/ r \in Responses => Handled(Reply(live, r))
  BY <1>1, <1>3, HandledIs, Zenon
<1>8. Handled(Reply(RequestReset(live), positive("RESET_OK")))
  <2>1. "RESET_OK" \in Answers BY DEF Answers
  <2>2. RequestReset(live) \in Servers BY <1>1, Zenon DEF RequestReset, Servers
  <2>3. ~RequestReset(live).reset_ready BY Zenon DEF RequestReset
  <2>4. positive("RESET_OK") = <<>> \/ positive("RESET_OK") \in Responses BY <1>5, <2>1
  <2> HIDE DEF positive
  <2> QED BY <1>6, <2>2, <2>3, <2>4, HandledIs, Zenon
<1>9. ASSUME q.op \in Sessions
      PROVE  Handled(Reply(RequestSession(live, q.op, n), positive("SESSION")))
  <2> DEFINE announces == q.op = "PROGRAMMING"
                          \/ (q.op = "DEFAULT" /\ live.session # "DEFAULT")
             u == RequestSession(live, q.op, n)
             type == IF announces THEN "none" ELSE live.reset_type
  <2>1. u = [session |-> q.op, reset_pending |-> announces \/ live.reset_pending,
             reset_ready |-> live.reset_ready, reset_type |-> type,
             last_activity |-> n]
    BY Zenon DEF RequestSession
  <2>2. (announces \/ live.reset_pending) \in BOOLEAN BY Zenon
  <2>3. live.reset_ready \in BOOLEAN /\ live.reset_type \in {"none", "hard"}
    BY <1>1, ServerFields
  <2>4. type \in {"none", "hard"} BY <2>3
  <2>5. (announces => type = "none") /\ (~announces => type = live.reset_type) BY Zenon
  <2> HIDE DEF type, u
  <2>6. u \in Servers BY <1>9, <2>1, <2>2, <2>3, <2>4, Zenon DEF Servers
  <2>7. /\ u.reset_ready = live.reset_ready /\ u.reset_type = type
        /\ (u.reset_pending => announces \/ live.reset_pending)
    <3>1. u.reset_ready = live.reset_ready BY Zenon DEF u, RequestSession
    <3>2. u.reset_type = type BY Zenon DEF u, RequestSession, type
    <3>3. u.reset_pending => announces \/ live.reset_pending
      BY Zenon DEF u, RequestSession
    <3> QED BY <3>1, <3>2, <3>3
  <2> HIDE DEF announces
  <2>8. ~ResponseResetPending(u)
    BY <1>3, <2>5, <2>7, Zenon DEF ResponseResetPending
  <2>9. ~u.reset_ready BY <1>3, <2>7, Zenon
  <2>10. positive("SESSION") = <<>> \/ positive("SESSION") \in Responses
    <3>1. "SESSION" \in Answers BY DEF Answers
    <3> QED BY <1>5, <3>1
  <2> HIDE DEF positive
  <2>11. Handled(Reply(u, positive("SESSION")))
    BY <2>6, <2>8, <2>9, <2>10, HandledIs, Zenon
  <2> QED BY <2>11, Zenon DEF u
<1>10. "NEGATIVE" \in Answers /\ "PRESENT" \in Answers /\ "DATA" \in Answers
  BY DEF Answers
<1>11. /\ Handled(Reply(live, Short("NEGATIVE")))
       /\ Handled(Reply(live, positive("PRESENT")))
       /\ Handled(Reply(live, Long("DATA")))
  BY <1>4, <1>5, <1>7, <1>10, Zenon
<1>12. Handle(s, q, n) =
         IF q.op \in Sessions
           THEN IF TransitionAllowed(s.session, q.op)
                  THEN Reply(RequestSession(live, q.op, n), positive("SESSION"))
                  ELSE Reply(live, Short("NEGATIVE"))
         ELSE IF q.op = "RESET" THEN Reply(RequestReset(live), positive("RESET_OK"))
         ELSE IF q.op = "PRESENT" THEN Reply(live, positive("PRESENT"))
         ELSE Reply(live, Long("DATA"))
  BY Zenon DEF Handle, live
<1> HIDE DEF positive
<1> QED BY <1>8, <1>9, <1>11, <1>12, Zenon

-----------------------------------------------------------------------------
(* The environment keeps the invariant. *)

\* What does not touch the transmit path or the server.
LEMMA PathUnchanged ==
    ASSUME IInv, UNCHANGED <<rx, tx, pending, flight, txReset, queued, control, srv>>
    PROVE  PathTyped' /\ MarksAreCurrent' /\ MarkedIsAnswer' /\ ReadyIsReset'
<1>1. PathTyped' BY Zenon DEF IInv, PathTyped
<1>2. MarksAreCurrent' BY Zenon DEF IInv, MarksAreCurrent, Marked
<1>3. MarkedIsAnswer' BY Zenon DEF IInv, MarkedIsAnswer
<1>4. ReadyIsReset' BY Zenon DEF IInv, ReadyIsReset
<1> QED BY <1>1, <1>2, <1>3, <1>4

\* What does not touch the mailboxes or the fate of the answer.
LEMMA CanUnchanged ==
    ASSUME IInv, UNCHANGED <<flight, srv, mbox, mask, txError, answer, silent>>,
           busOff' \in BOOLEAN
    PROVE  CanTyped' /\ FlightCarries' /\ ResetAfterAnswer'
<1>1. CanTyped' BY Zenon DEF IInv, CanTyped
<1>2. FlightCarries' BY Zenon DEF IInv, FlightCarries, AnswerWaits
<1>3. ResetAfterAnswer' BY Zenon DEF IInv, ResetAfterAnswer
<1> QED BY <1>1, <1>2, <1>3

\* A frame arrives, or is dropped by a full ring.
LEMMA TesterSendsKeeps ==
    ASSUME IInv, NEW tf \in TesterFrames, TesterSends(tf)
    PROVE  IInv'
<1>1. LoopTyped'
  <2>1. /\ ring \in Seq(TesterFrames) /\ Len(ring) < RingSlots /\ Len(ring) \in Nat
        /\ RingSlots \in Nat
    BY EndpointAssumption DEF IInv, LoopTyped
  <2>2. ring' \in Seq(TesterFrames) /\ Len(ring') < RingSlots
    <3>1. CASE RingFull(ring) BY <2>1, <3>1 DEF TesterSends
    <3>2. CASE ~RingFull(ring)
      <4>1. ring' = Append(ring, tf) BY <3>2 DEF TesterSends
      <4>2. Len(ring) < RingSlots - 1 BY <2>1, <3>2 DEF RingFull
      <4> QED BY <2>1, <4>1, <4>2
    <3> QED BY <3>1, <3>2
  <2>3. UNCHANGED <<pc, clock, now, lastDiag, frame>> BY DEF TesterSends, loopVars
  <2> QED BY <2>2, <2>3, Zenon DEF IInv, LoopTyped
<1>2. UNCHANGED <<rx, tx, pending, flight, txReset, queued, control, srv, mbox, mask,
                  txError, answer, silent>> /\ busOff' \in BOOLEAN
  BY DEF TesterSends, loopVars, canVars, history, IInv, CanTyped
<1> QED BY <1>1, <1>2, PathUnchanged, CanUnchanged DEF IInv

\* The bus decides on the frame in a mailbox: what it decides about the answer
\* to the ECUReset is recorded before the mailbox is empty.
LEMMA MailboxEmptied ==
    ASSUME IInv, NEW m \in Mailboxes, mbox[m] # <<>>, NEW fate \in {"lost", "sent"},
           mbox' = [mbox EXCEPT ![m] = <<>>], Fate(mbox[m][1], fate),
           UNCHANGED <<flight, srv, mask, txError, busOff, silent>>
    PROVE  CanTyped' /\ FlightCarries' /\ ResetAfterAnswer'
<1>1. mbox \in [Mailboxes -> Slot(OutFrames)] /\ mask \subseteq Mailboxes
  BY DEF IInv, CanTyped
<1>2. mbox' \in [Mailboxes -> Slot(OutFrames)] BY <1>1, SlotOf
<1>3. answer' = IF IsResetAnswer(mbox[m][1]) THEN fate ELSE answer BY DEF Fate
<1>4. answer' \in Fates BY <1>3 DEF IInv, CanTyped, Fates
<1>5. answer # "none" => answer' # "none" BY <1>3
<1>6. CanTyped' BY <1>2, <1>4, Zenon DEF IInv, CanTyped
<1>7. ResetAfterAnswer' BY <1>5, Zenon DEF IInv, ResetAfterAnswer
<1>8. FlightCarries'
  <2> SUFFICES ASSUME flight # <<>>, flight[1].reset, answer' = "none"
               PROVE  AnswerWaits'
    BY DEF FlightCarries
  <2>1. AnswerWaits BY <1>5, Zenon DEF IInv, FlightCarries
  <2>2. PICK k \in mask : mbox[k] # <<>> /\ IsResetAnswer(mbox[k][1])
    BY <2>1 DEF AnswerWaits
  <2>3. k # m
    <3>1. IsResetAnswer(mbox[m][1]) => answer' = fate BY <1>3
    <3>2. fate # "none" OBVIOUS
    <3> QED BY <2>2, <3>1, <3>2
  <2>4. mbox'[k] = mbox[k] BY <1>1, <2>3
  <2> QED BY <2>2, <2>4, Zenon DEF AnswerWaits
<1> QED BY <1>6, <1>7, <1>8

\* A frame is acknowledged.
LEMMA TransmitKeeps ==
    ASSUME IInv, NEW m \in Mailboxes, Transmit(m)
    PROVE  IInv'
<1>1. LoopTyped' BY Zenon DEF IInv, LoopTyped, Transmit, loopVars, envVars
<1>2. /\ UNCHANGED <<rx, tx, pending, flight, txReset, queued, control, srv, mask,
                     txError, busOff, silent>>
      /\ mbox[m] # <<>> /\ mbox' = [mbox EXCEPT ![m] = <<>>]
      /\ Fate(mbox[m][1], "sent")
  BY DEF Transmit, loopVars, envVars
<1> QED BY <1>1, <1>2, PathUnchanged, MailboxEmptied DEF IInv

\* A frame fails.
LEMMA TransmitFailsKeeps ==
    ASSUME IInv, NEW m \in Mailboxes, TransmitFails(m)
    PROVE  IInv'
<1>1. LoopTyped' BY Zenon DEF IInv, LoopTyped, TransmitFails, loopVars
<1>2. /\ UNCHANGED <<rx, tx, pending, flight, txReset, queued, control, srv, mask,
                     txError, busOff, silent>>
      /\ mbox[m] # <<>> /\ mbox' = [mbox EXCEPT ![m] = <<>>]
      /\ Fate(mbox[m][1], "lost")
  BY DEF TransmitFails, loopVars
<1> QED BY <1>1, <1>2, PathUnchanged, MailboxEmptied DEF IInv

\* The controller goes bus-off.
LEMMA BusGoesOffKeeps ==
    ASSUME IInv, BusGoesOff
    PROVE  IInv'
<1>1. LoopTyped' BY Zenon DEF IInv, LoopTyped, BusGoesOff, loopVars
<1>2. UNCHANGED <<rx, tx, pending, flight, txReset, queued, control, srv, mbox, mask,
                  txError, answer, silent>> /\ busOff' \in BOOLEAN
  BY DEF BusGoesOff, loopVars, canVars, history
<1> QED BY <1>1, <1>2, PathUnchanged, CanUnchanged DEF IInv

\* The millisecond tick.
LEMMA ClockTickKeeps ==
    ASSUME IInv, ClockTick
    PROVE  IInv'
<1>1. LoopTyped'
  <2>1. clock + 1 \in Int BY ClockAssumption DEF IInv, LoopTyped, Clock
  <2>2. clock' \in Clock BY <2>1, DeadlineInClock DEF ClockTick
  <2> QED BY <2>2, Zenon DEF IInv, LoopTyped, ClockTick, loopVars
<1>2. UNCHANGED <<rx, tx, pending, flight, txReset, queued, control, srv, mbox, mask,
                  txError, answer, silent>> /\ busOff' \in BOOLEAN
  BY DEF ClockTick, loopVars, canVars, history, IInv, CanTyped
<1> QED BY <1>1, <1>2, PathUnchanged, CanUnchanged DEF IInv

-----------------------------------------------------------------------------
(* The loop keeps the invariant: Poll and Receive. *)

\* complete_in_flight() makes a reset ready only for a marked response.
LEMMA CompleteInFlightOK ==
    ASSUME NEW s \in Servers, NEW fl
    PROVE  /\ CompleteInFlight(fl, s) \in Servers
           /\ (ResponseResetPending(CompleteInFlight(fl, s)) <=> ResponseResetPending(s))
           /\ (CompleteInFlight(fl, s).reset_ready =>
                 s.reset_ready \/ (fl # <<>> /\ fl[1].reset))
           /\ CompleteInFlight(fl, s).reset_pending = s.reset_pending
BY CompleteResetOK, Zenon DEF CompleteInFlight

\* When the watched mailboxes are empty the fate of a marked response is known.
LEMMA AnswerGone ==
    ASSUME FlightCarries, TxComplete(mbox, mask), flight # <<>>, flight[1].reset
    PROVE  answer # "none"
BY Zenon DEF FlightCarries, AnswerWaits, TxComplete

\* The start of an iteration.
LEMMA PollKeeps ==
    ASSUME IInv, Poll
    PROVE  IInv'
<1>1. LoopTyped'
  <2>1. ring \in Seq(TesterFrames) /\ Len(ring) < RingSlots BY DEF IInv, LoopTyped
  <2>2. CASE ring = <<>>
    <3>1. ring' = ring /\ frame' = <<>> BY <2>2 DEF Poll
    <3> QED BY <3>1, SlotOf DEF IInv, LoopTyped, Poll
  <2>3. CASE ring # <<>>
    <3>1. ring' = Tail(ring) /\ frame' = <<Head(ring)>> BY <2>3 DEF Poll
    <3>2. /\ Head(ring) \in TesterFrames /\ Tail(ring) \in Seq(TesterFrames)
          /\ Len(Tail(ring)) = Len(ring) - 1
      BY <2>1, <2>3, HeadTailProperties
    <3>3. Len(ring') < RingSlots BY <2>1, <3>1, <3>2, EndpointAssumption
    <3>4. frame' \in Slot(TesterFrames) BY <3>1, <3>2, SlotOf
    <3> QED BY <3>1, <3>2, <3>3, <3>4 DEF IInv, LoopTyped, Poll
  <2> QED BY <2>2, <2>3
<1>2. UNCHANGED <<rx, tx, pending, txReset, queued, control, mbox, txError, busOff,
                  answer, silent>>
  BY DEF Poll, history
<1>3. CASE ~TxComplete(mbox, mask)
  <2>1. UNCHANGED <<mask, flight, srv>> BY <1>3 DEF Poll
  <2>2. busOff' \in BOOLEAN BY <1>2 DEF IInv, CanTyped
  <2>3. PathTyped' /\ MarksAreCurrent' /\ MarkedIsAnswer' /\ ReadyIsReset'
    BY <1>2, <2>1, PathUnchanged
  <2>4. CanTyped' /\ FlightCarries' /\ ResetAfterAnswer'
    BY <1>2, <2>1, <2>2, CanUnchanged
  <2> QED BY <1>1, <2>3, <2>4 DEF IInv
<1>4. CASE TxComplete(mbox, mask)
  <2>1. mask' = {} /\ flight' = <<>> /\ srv' = CompleteInFlight(flight, srv)
    BY <1>4 DEF Poll
  <2>2. srv \in Servers BY DEF IInv, PathTyped
  <2>3. /\ srv' \in Servers
        /\ (ResponseResetPending(srv') <=> ResponseResetPending(srv))
        /\ (srv'.reset_ready => srv.reset_ready \/ (flight # <<>> /\ flight[1].reset))
        /\ srv'.reset_pending = srv.reset_pending
    BY <2>1, <2>2, CompleteInFlightOK, Zenon
  <2>4. PathTyped' BY <1>2, <2>1, <2>3, SlotOf, Zenon DEF IInv, PathTyped
  <2>5. CanTyped' BY <1>2, <2>1 DEF IInv, CanTyped
  <2>6. MarksAreCurrent' BY <1>2, <2>1, <2>3, Zenon DEF IInv, MarksAreCurrent, Marked
  <2>7. MarkedIsAnswer' BY <1>2, Zenon DEF IInv, MarkedIsAnswer
  <2>8. ReadyIsReset' BY <2>3, Zenon DEF IInv, ReadyIsReset, MarksAreCurrent, Marked
  <2>9. FlightCarries' BY <2>1, Zenon DEF FlightCarries
  <2>10. ResetAfterAnswer'
    <3>1. flight # <<>> /\ flight[1].reset => answer # "none"
      BY <1>4, AnswerGone, Zenon DEF IInv
    <3> QED BY <1>2, <2>3, <3>1, Zenon DEF IInv, ResetAfterAnswer, ResetDue
  <2> QED BY <1>1, <2>4, <2>5, <2>6, <2>7, <2>8, <2>9, <2>10 DEF IInv
<1> QED BY <1>3, <1>4

\* A frame in the pending slot.
LEMMA SubmittedIs ==
    ASSUME NEW f \in OutFrames, NEW b \in BOOLEAN, NEW m \in BOOLEAN, NEW s,
           s = <<[frame |-> f, final |-> b, reset |-> m]>>
    PROVE  s \in Slot(Submitted) /\ s[1].frame = f /\ s[1].reset = m
<1> DEFINE e == [frame |-> f, final |-> b, reset |-> m]
<1>1. e \in Submitted BY Zenon DEF Submitted
<1>2. e.frame = f BY Zenon
<1>3. e.reset = m BY Zenon
<1> HIDE DEF e
<1>4. s = <<e>> BY DEF e
<1>5. s \in Slot(Submitted) BY <1>1, <1>4, SlotOf, Zenon
<1>6. s[1] = e BY <1>4
<1> QED BY <1>2, <1>3, <1>5, <1>6, Zenon

\* The transmit path after a step that marks a response only if m holds.
PathAfter(m) ==
    /\ TxOK(tx') /\ pending' \in Slot(Submitted) /\ queued' \in Slot(Queued)
    /\ txReset' \in BOOLEAN /\ (tx'.state # "IDLE" => ~txReset')
    /\ (pending' # <<>> /\ pending'[1].reset => m /\ IsResetAnswer(pending'[1].frame))
    /\ (queued' # <<>> /\ queued'[1].reset =>
          m /\ queued'[1].payload = Short("RESET_OK"))

\* isotp_tx_start() and the frame it leaves in the pending slot.
LEMMA StartedOK ==
    ASSUME NEW t, NEW p \in Responses, NEW m \in BOOLEAN, m => p = Short("RESET_OK"),
           NEW n, tx' = TxStart(t, p, n).tx, txReset' = m,
           pending' = <<[frame |-> TxStart(t, p, n).out[1],
                         final |-> TxStart(t, p, n).tx.state = "IDLE", reset |-> m]>>
    PROVE  /\ TxOK(tx') /\ pending' \in Slot(Submitted) /\ txReset' \in BOOLEAN
           /\ (tx'.state # "IDLE" => ~txReset')
           /\ (pending'[1].reset => m /\ IsResetAnswer(pending'[1].frame))
<1>1. /\ TxOK(TxStart(t, p, n).tx) /\ TxStart(t, p, n).out[1] \in OutFrames
      /\ (p = Short("RESET_OK") => /\ TxStart(t, p, n).tx.state = "IDLE"
                                   /\ IsResetAnswer(TxStart(t, p, n).out[1]))
  BY TxStartOK, Zenon
<1>2. (TxStart(t, p, n).tx.state = "IDLE") \in BOOLEAN BY Zenon
<1>3. /\ pending' \in Slot(Submitted) /\ pending'[1].reset = m
      /\ pending'[1].frame = TxStart(t, p, n).out[1]
  <2>1. PICK f \in OutFrames : f = TxStart(t, p, n).out[1] BY <1>1, Zenon
  <2>2. PICK b \in BOOLEAN : b = (TxStart(t, p, n).tx.state = "IDLE") BY <1>2, Zenon
  <2>3. pending' = <<[frame |-> f, final |-> b, reset |-> m]>> BY <2>1, <2>2, Zenon
  <2>4. pending' \in Slot(Submitted) /\ pending'[1].frame = f /\ pending'[1].reset = m
    BY <2>3, SubmittedIs
  <2> QED BY <2>1, <2>4, Zenon
<1> QED BY <1>1, <1>3, Zenon

\* start_response(), when nothing else is marked.
LEMMA StartResponseOK ==
    ASSUME IInv, NEW p \in Responses, NEW m \in BOOLEAN, m => p = Short("RESET_OK"),
           ~Marked, StartResponse(p, m)
    PROVE  PathAfter(m) /\ (pending' = <<>> \/ flight = <<>>)
<1>0. /\ TxOK(tx) /\ pending \in Slot(Submitted) /\ queued \in Slot(Queued)
      /\ txReset \in BOOLEAN /\ (tx.state # "IDLE" => ~txReset)
      /\ (pending = <<>> \/ flight = <<>>)
  BY Zenon DEF IInv, PathTyped, MarkedIsAnswer
<1>1. /\ ~(pending # <<>> /\ pending[1].reset) /\ ~(queued # <<>> /\ queued[1].reset)
  BY Zenon DEF Marked
<1>2. CASE pending # <<>> \/ flight # <<>> \/ tx.state # "IDLE"
  <2> DEFINE e == [payload |-> p, reset |-> m]
  <2>1. /\ queued' = IF queued = <<>> THEN <<e>> ELSE queued
        /\ UNCHANGED <<tx, pending, txReset>>
    BY <1>2, Zenon DEF StartResponse
  <2>2. e \in Queued BY Zenon DEF Queued
  <2>3. e.payload = p /\ e.reset = m OBVIOUS
  <2> HIDE DEF e
  <2>4. <<e>> \in Slot(Queued) BY <2>2, SlotOf
  <2>5. <<e>>[1] = e OBVIOUS
  <2>6. CASE queued = <<>>
    <3>1. queued' = <<e>> BY <2>1, <2>6
    <3> QED BY <1>0, <1>1, <2>1, <2>3, <2>4, <2>5, <3>1, Zenon DEF PathAfter
  <2>7. CASE queued # <<>>
    <3>1. queued' = queued BY <2>1, <2>7
    <3> QED BY <1>0, <1>1, <2>1, <3>1, Zenon DEF PathAfter
  <2> QED BY <2>6, <2>7
<1>3. CASE ~(pending # <<>> \/ flight # <<>> \/ tx.state # "IDLE")
  <2>1. /\ tx' = TxStart(tx, p, now).tx /\ txReset' = m /\ queued' = queued
        /\ pending' = <<[frame |-> TxStart(tx, p, now).out[1],
                         final |-> TxStart(tx, p, now).tx.state = "IDLE",
                         reset |-> m]>>
    BY <1>3, Zenon DEF StartResponse
  <2>2. /\ TxOK(tx') /\ pending' \in Slot(Submitted) /\ txReset' \in BOOLEAN
        /\ (tx'.state # "IDLE" => ~txReset')
        /\ (pending'[1].reset => m /\ IsResetAnswer(pending'[1].frame))
    BY <2>1, StartedOK, Zenon
  <2> QED BY <1>0, <1>1, <1>3, <2>1, <2>2, Zenon DEF PathAfter
<1> QED BY <1>2, <1>3

\* A response stays unmarked unless an ECUReset has been accepted.
LEMMA NothingMarked ==
    ASSUME IInv, ~ResponseResetPending(srv)
    PROVE  ~Marked /\ ~srv.reset_ready
BY Zenon DEF IInv, MarksAreCurrent, ReadyIsReset

\* The transmit path as it was.
LEMMA PathAsBefore ==
    ASSUME IInv, NEW m, Marked => m, UNCHANGED <<tx, pending, txReset, queued>>
    PROVE  PathAfter(m) /\ (pending' = <<>> \/ flight = <<>>)
<1>1. /\ TxOK(tx) /\ pending \in Slot(Submitted) /\ queued \in Slot(Queued)
      /\ txReset \in BOOLEAN /\ (pending = <<>> \/ flight = <<>>)
  BY Zenon DEF IInv, PathTyped
<1>2. MarkedIsAnswer BY DEF IInv
<1> QED BY <1>1, <1>2, Zenon DEF PathAfter, MarkedIsAnswer, Marked

\* What a handled request leaves.
RequestDone ==
    /\ srv' \in Servers /\ PathAfter(ResponseResetPending(srv'))
    /\ (pending' = <<>> \/ flight = <<>>) /\ silent' \in BOOLEAN /\ (silent => silent')
    /\ (ResponseResetPending(srv) => ResponseResetPending(srv'))
    /\ (srv'.reset_ready => /\ ResponseResetPending(srv')
                            /\ (silent' \/ (srv.reset_ready /\ srv.reset_pending)))

\* handle_rx_completion(): an accepted ECUReset is ready at once only when the
\* tester wants no answer; otherwise its answer carries the mark.
LEMMA HandleRequestOK ==
    ASSUME IInv, ~ResponseResetPending(srv), NEW q, HandleRequest(q)
    PROVE  RequestDone
<1> DEFINE h    == Handle(srv, q, now)
           mine == ~srv.reset_pending /\ ResponseResetPending(h.srv)
<1>1. srv \in Servers /\ now \in Clock /\ silent \in BOOLEAN
  BY DEF IInv, PathTyped, LoopTyped, CanTyped
<1>2. ~Marked /\ ~srv.reset_ready BY NothingMarked
<1>3. Handled(h) BY <1>1, <1>2, HandleOK
<1>4. silent' = (silent \/ (mine /\ h.response = <<>>)) BY Zenon DEF HandleRequest
<1>5. silent' \in BOOLEAN /\ (silent => silent') BY <1>4, Zenon
<1>6. CASE h.response = <<>>
  <2>1. /\ srv' = IF mine THEN CompleteReset(h.srv) ELSE h.srv
        /\ UNCHANGED <<tx, pending, txReset, queued>>
    BY <1>6, Zenon DEF HandleRequest
  <2>2. PathAfter(ResponseResetPending(srv')) /\ (pending' = <<>> \/ flight = <<>>)
    BY <1>2, <2>1, PathAsBefore, Zenon
  <2>3. CASE mine
    <3>1. srv' = CompleteReset(h.srv) BY <2>1, <2>3, Zenon
    <3>2. srv' \in Servers /\ (ResponseResetPending(srv') <=> ResponseResetPending(h.srv))
      BY <1>3, <3>1, CompleteResetOK, Zenon DEF Handled
    <3>3. silent' BY <1>4, <1>6, <2>3, Zenon
    <3>4. ResponseResetPending(srv') BY <2>3, <3>2, Zenon
    <3>5. srv' \in Servers BY <3>2
    <3> QED BY <1>5, <2>2, <3>3, <3>4, <3>5, Zenon DEF RequestDone
  <2>4. CASE ~mine
    <3>1. srv' = h.srv BY <2>1, <2>4, Zenon
    <3> QED BY <1>3, <1>5, <2>2, <3>1, Zenon DEF RequestDone, Handled
  <2> QED BY <2>3, <2>4
<1>7. CASE h.response # <<>>
  <2>1. srv' = h.srv /\ StartResponse(h.response, mine)
    BY <1>7, Zenon DEF HandleRequest
  <2>2. mine \in BOOLEAN BY Zenon
  <2>3. h.response \in Responses /\ (mine => h.response = Short("RESET_OK"))
    BY <1>3, <1>7, Zenon DEF Handled
  <2>4. mine => ResponseResetPending(srv') BY <2>1, Zenon
  <2> HIDE DEF mine
  <2>5. PathAfter(mine) /\ (pending' = <<>> \/ flight = <<>>)
    BY <1>2, <2>1, <2>2, <2>3, StartResponseOK
  <2>6. PathAfter(ResponseResetPending(srv')) BY <2>4, <2>5, Zenon DEF PathAfter
  <2> QED BY <1>3, <1>5, <2>1, <2>5, <2>6, Zenon DEF RequestDone, Handled
<1> QED BY <1>6, <1>7

\* A step that handles no request.
LEMMA NoRequest ==
    ASSUME IInv, UNCHANGED <<pending, txReset, queued, srv, silent>>,
           TxOK(tx'), tx.state = "IDLE" => tx'.state = "IDLE"
    PROVE  RequestDone
<1>1. /\ pending \in Slot(Submitted) /\ queued \in Slot(Queued) /\ srv \in Servers
      /\ txReset \in BOOLEAN /\ (pending = <<>> \/ flight = <<>>) /\ silent \in BOOLEAN
  BY Zenon DEF IInv, PathTyped, CanTyped
<1>2. MarkedIsAnswer /\ MarksAreCurrent /\ ReadyIsReset BY DEF IInv
<1>3. PathAfter(ResponseResetPending(srv'))
  BY <1>1, <1>2, Zenon DEF PathAfter, MarkedIsAnswer, MarksAreCurrent, Marked
<1>4. srv.reset_ready => ResponseResetPending(srv) /\ srv.reset_pending
  BY <1>2, Zenon DEF ReadyIsReset, ResponseResetPending
<1> QED BY <1>1, <1>3, <1>4, Zenon DEF RequestDone

\* uds_isotp_endpoint_receive().
LEMMA ReceiveKeeps ==
    ASSUME IInv, Receive
    PROVE  IInv'
<1>1. /\ UNCHANGED <<now, lastDiag, flight, mbox, mask, txError, clock, ring, busOff, answer>>
      /\ pc' = "process" /\ frame' = <<>>
  BY DEF Receive, canVars, envVars
<1>2. LoopTyped' BY <1>1, SlotOf DEF IInv, LoopTyped
<1>3. TxOK(tx) /\ RxOK(rx) /\ control \in Slot(FlowControls) /\ flight \in Slot(Tagged)
  BY Zenon DEF IInv, PathTyped
<1>4. frame # <<>> => frame[1] \in TesterFrames BY SlotHolds DEF IInv, LoopTyped
<1>5. RequestDone /\ RxOK(rx') /\ control' \in Slot(FlowControls)
  <2>1. CASE ReceiveNothing
    <3>1. UNCHANGED <<rx, tx, pending, txReset, queued, control, srv, silent>>
      BY <2>1 DEF ReceiveNothing
    <3>2. TxOK(tx') /\ (tx.state = "IDLE" => tx'.state = "IDLE") BY <1>3, <3>1, Zenon
    <3>3. RequestDone BY <3>1, <3>2, NoRequest
    <3> QED BY <1>3, <3>1, <3>3, Zenon
  <2>2. CASE ReceiveFlowControl
    <3>1. /\ UNCHANGED <<rx, pending, txReset, queued, control, srv, silent>>
          /\ tx' = TxFlowControl(tx, frame[1].f, now).tx
          /\ frame # <<>> /\ frame[1].f.type = "FC"
      BY <2>2 DEF ReceiveFlowControl
    <3>2. frame[1].f.fs = "CTS"
      <4>1. frame[1] \in TesterFrames BY <1>4, <3>1
      <4>2. \A tf \in TesterFrames : tf.f.type = "FC" => tf.f.fs = "CTS"
        BY DEF TesterFrames, SingleFrame, Segments
      <4> QED BY <3>1, <4>1, <4>2, Zenon
    <3>3. TxOK(tx') /\ (tx.state = "IDLE" => tx'.state = "IDLE")
      BY <1>3, <3>1, <3>2, TxFlowControlOK, Zenon
    <3>4. RequestDone BY <3>1, <3>3, NoRequest
    <3> QED BY <1>3, <3>1, <3>4, Zenon
  <2>3. CASE ReceiveData
    <3> DEFINE r == RxFeed(rx, frame[1].f, now)
    <3>1. /\ frame # <<>> /\ frame[1].f.type # "FC" /\ ~Ignored(frame[1])
          /\ rx' = r.rx /\ control' = IF control = <<>> THEN r.fc ELSE control
          /\ IF r.status = "COMPLETE"
               THEN HandleRequest(r.payload[1])
               ELSE UNCHANGED <<tx, pending, txReset, queued, srv, silent>>
      BY <2>3, Zenon DEF ReceiveData
    <3>2. ~ResponseResetPending(srv) BY <3>1, Zenon DEF Ignored
    <3>3. Fed(r) BY <1>3, <1>4, <3>1, RxFeedOK, Zenon
    <3> HIDE DEF r
    <3>4. RxOK(rx') /\ control' \in Slot(FlowControls)
      BY <1>3, <3>1, <3>3, Zenon DEF Fed
    <3>5. CASE r.status = "COMPLETE"
      <4>1. HandleRequest(r.payload[1]) BY <3>1, <3>5
      <4>2. RequestDone BY <3>2, <4>1, HandleRequestOK, Zenon
      <4> QED BY <3>4, <4>2
    <3>6. CASE r.status # "COMPLETE"
      <4>1. UNCHANGED <<tx, pending, txReset, queued, srv, silent>> BY <3>1, <3>6, Zenon
      <4>2. TxOK(tx') /\ (tx.state = "IDLE" => tx'.state = "IDLE") BY <1>3, <4>1, Zenon
      <4>3. RequestDone BY <4>1, <4>2, NoRequest
      <4> QED BY <3>4, <4>3
    <3> QED BY <3>5, <3>6
  <2> QED BY <2>1, <2>2, <2>3 DEF Receive
<1>6. PathTyped' BY <1>1, <1>3, <1>5, Zenon DEF PathTyped, RequestDone, PathAfter
<1>7. CanTyped' BY <1>1, <1>5, Zenon DEF IInv, CanTyped, RequestDone
<1>8. MarksAreCurrent'
  <2>1. flight # <<>> /\ flight[1].reset => ResponseResetPending(srv)
    BY Zenon DEF IInv, MarksAreCurrent, Marked
  <2> QED BY <1>1, <1>5, <2>1, Zenon DEF MarksAreCurrent, Marked, RequestDone, PathAfter
<1>9. MarkedIsAnswer' BY <1>5, Zenon DEF MarkedIsAnswer, RequestDone, PathAfter
<1>10. ReadyIsReset' BY <1>5, Zenon DEF ReadyIsReset, RequestDone
<1>11. FlightCarries' BY <1>1, Zenon DEF IInv, FlightCarries, AnswerWaits
<1>12. ResetAfterAnswer'
  BY <1>1, <1>5, Zenon DEF IInv, ResetAfterAnswer, ResetDue, RequestDone
<1> QED BY <1>2, <1>6, <1>7, <1>8, <1>9, <1>10, <1>11, <1>12 DEF IInv

-----------------------------------------------------------------------------
(* The loop keeps the invariant: Process, by branch. *)

\* What every branch of uds_isotp_endpoint_process() leaves alone.
LEMMA ProcessLoop ==
    ASSUME IInv, pc' = "tick", UNCHANGED <<now, lastDiag, envVars, frame>>
    PROVE  LoopTyped' /\ busOff' = busOff
<1>1. LoopTyped' BY Zenon DEF IInv, LoopTyped, envVars
<1>2. busOff' = busOff BY DEF envVars
<1> QED BY <1>1, <1>2

\* The frame in flight has not been decided, or there is nothing to do.
LEMMA NoBranch ==
    ASSUME IInv, pc' = "tick", UNCHANGED <<now, lastDiag, envVars, silent>>,
           UNCHANGED <<loopVars, canVars, answer>>
    PROVE  IInv'
<1>1. UNCHANGED <<frame, rx, tx, pending, flight, txReset, queued, control, srv, mbox,
                  mask, txError, answer>>
  BY DEF loopVars, canVars
<1>2. LoopTyped' /\ busOff' = busOff BY <1>1, ProcessLoop
<1>3. busOff' \in BOOLEAN BY <1>2 DEF IInv, CanTyped
<1> QED BY <1>1, <1>2, <1>3, PathUnchanged, CanUnchanged DEF IInv

\* abort_in_flight(): nothing is pending behind a frame in flight, and the queue
\* is emptied, so that no mark survives the reset it belongs to.
LEMMA InFlightAbortedKeeps ==
    ASSUME IInv, pc' = "tick", UNCHANGED <<now, lastDiag, envVars, silent>>, InFlightAborted
    PROVE  IInv'
<1>1. /\ flight # <<>> /\ tx' = TxReset /\ flight' = <<>> /\ txReset' = FALSE
      /\ queued' = <<>> /\ srv' = ClearReset(srv) /\ answer' = "none"
      /\ UNCHANGED <<frame, rx, pending, control>> /\ mask' = {} /\ txError' = FALSE
      /\ mbox' = [m \in Mailboxes |-> IF m \in mask THEN <<>> ELSE mbox[m]]
  BY DEF InFlightAborted, AbortMailboxes, QueueAfterAbort, AbortedServer
<1>2. LoopTyped' /\ busOff' = busOff BY <1>1, ProcessLoop
<1>3. pending' = <<>> BY <1>1, Zenon DEF IInv, PathTyped
<1>4. srv' \in Servers /\ ~srv'.reset_ready
  BY <1>1, ClearResetOK, Zenon DEF IInv, PathTyped
<1>5. RxOK(rx) /\ control \in Slot(FlowControls) BY Zenon DEF IInv, PathTyped
<1>6. PathTyped'
  BY <1>1, <1>3, <1>4, <1>5, TxResetOK, SlotOf, Zenon DEF PathTyped
<1>7. CanTyped'
  <2>1. mbox \in [Mailboxes -> Slot(OutFrames)] BY DEF IInv, CanTyped
  <2>2. mbox' \in [Mailboxes -> Slot(OutFrames)] BY <1>1, <2>1, SlotOf
  <2>3. silent' = silent OBVIOUS
  <2> QED BY <1>1, <1>2, <2>2, <2>3 DEF IInv, CanTyped, Fates
<1>8. MarksAreCurrent' BY <1>1, <1>3, Zenon DEF MarksAreCurrent, Marked
<1>9. MarkedIsAnswer' BY <1>1, <1>3, TxResetOK, Zenon DEF MarkedIsAnswer
<1>10. ReadyIsReset' BY <1>4, Zenon DEF ReadyIsReset
<1>11. FlightCarries' BY <1>1, Zenon DEF FlightCarries
<1>12. ResetAfterAnswer' BY <1>4, Zenon DEF ResetAfterAnswer, ResetDue
<1> QED BY <1>2, <1>6, <1>7, <1>8, <1>9, <1>10, <1>11, <1>12 DEF IInv

\* uds_can_transport_send() fails: only the transport remembers it.
LEMMA SendFailsCan ==
    ASSUME IInv, SendFails, UNCHANGED <<flight, srv, busOff, silent>>
    PROVE  CanTyped' /\ FlightCarries' /\ ResetAfterAnswer'
<1>1. txError' = TRUE /\ UNCHANGED <<mbox, mask, answer>> BY DEF SendFails
<1>2. CanTyped' BY <1>1 DEF IInv, CanTyped
<1>3. FlightCarries' BY <1>1, Zenon DEF IInv, FlightCarries, AnswerWaits
<1>4. ResetAfterAnswer' BY <1>1, Zenon DEF IInv, ResetAfterAnswer
<1> QED BY <1>2, <1>3, <1>4

\* A frame in a mailbox, or gone already.
LEMMA MailboxFilled ==
    ASSUME mbox \in [Mailboxes -> Slot(OutFrames)], NEW m \in Mailboxes,
           NEW f \in OutFrames, NEW instant \in BOOLEAN
    PROVE  [mbox EXCEPT ![m] = IF instant THEN <<>> ELSE <<f>>]
             \in [Mailboxes -> Slot(OutFrames)]
<1>1. (IF instant THEN <<>> ELSE <<f>>) \in Slot(OutFrames) BY SlotOf
<1> DEFINE e == IF instant THEN <<>> ELSE <<f>>
<1> HIDE DEF e
<1>2. [mbox EXCEPT ![m] = e] \in [Mailboxes -> Slot(OutFrames)] BY <1>1 DEF e
<1> QED BY <1>2 DEF e

\* A flow control goes out, or not; it is no answer to an ECUReset.
LEMMA SubmitControlKeeps ==
    ASSUME IInv, pc' = "tick", UNCHANGED <<now, lastDiag, envVars, silent>>, SubmitControl
    PROVE  IInv'
<1>1. /\ flight = <<>> /\ control # <<>>
      /\ UNCHANGED <<frame, rx, tx, pending, flight, txReset, queued, srv>>
  BY DEF SubmitControl
<1>2. LoopTyped' /\ busOff' = busOff BY <1>1, ProcessLoop
<1>3. control \in Slot(FlowControls) BY Zenon DEF IInv, PathTyped
<1>4. control' \in Slot(FlowControls) /\ CanTyped' /\ ResetAfterAnswer'
  <2>1. CASE \E instant \in BOOLEAN : Send(control[1], instant) /\ control' = <<>>
    <3>1. PICK instant \in BOOLEAN : Send(control[1], instant) /\ control' = <<>>
      BY <2>1
    <3>2. PICK m \in Mailboxes :
            /\ mbox' = [mbox EXCEPT ![m] = IF instant THEN <<>> ELSE <<control[1]>>]
            /\ IF instant THEN Fate(control[1], "sent") ELSE UNCHANGED answer
            /\ mask' = mask \cup {m} /\ UNCHANGED txError
      BY <3>1, Zenon DEF Send
    <3>3. control[1] \in FlowControls BY <1>1, <1>3, SlotHolds, Zenon
    <3>4. control[1] \in OutFrames BY <3>3, Zenon DEF OutFrames
    <3>5. control[1].type = "FC" BY <3>3 DEF FlowControls, FlowControl
    <3>6. answer' = answer BY <3>2, <3>5 DEF Fate, IsResetAnswer
    <3>7. mbox \in [Mailboxes -> Slot(OutFrames)] BY DEF IInv, CanTyped
    <3>8. mbox' \in [Mailboxes -> Slot(OutFrames)] BY <3>2, <3>4, <3>7, MailboxFilled, Zenon
    <3>9. mask' \subseteq Mailboxes BY <3>2 DEF IInv, CanTyped
    <3>10. silent' = silent OBVIOUS
    <3>11. CanTyped' BY <1>2, <3>2, <3>6, <3>8, <3>9, <3>10, Zenon DEF IInv, CanTyped
    <3>12. ResetAfterAnswer'
      BY <1>1, <3>6, Zenon DEF IInv, ResetAfterAnswer
    <3> QED BY <3>1, <3>11, <3>12, SlotOf
  <2>2. CASE SendFails /\ UNCHANGED control
    <3>1. CanTyped' /\ ResetAfterAnswer' BY <1>1, <1>2, <2>2, SendFailsCan
    <3> QED BY <1>3, <2>2, <3>1
  <2> QED BY <2>1, <2>2 DEF SubmitControl
<1>5. PathTyped' BY <1>1, <1>4, Zenon DEF IInv, PathTyped
<1>6. MarksAreCurrent' BY <1>1, Zenon DEF IInv, MarksAreCurrent, Marked
<1>7. MarkedIsAnswer' BY <1>1, Zenon DEF IInv, MarkedIsAnswer
<1>8. ReadyIsReset' BY <1>1, Zenon DEF IInv, ReadyIsReset
<1>9. FlightCarries' BY <1>1, Zenon DEF FlightCarries
<1> QED BY <1>2, <1>4, <1>5, <1>6, <1>7, <1>8, <1>9 DEF IInv

\* The pending frame finds no mailbox.
LEMMA SubmitFailsKeeps ==
    ASSUME IInv, pc' = "tick", UNCHANGED <<now, lastDiag, envVars, silent>>, SubmitFails
    PROVE  IInv'
<1>1. UNCHANGED <<frame, rx, tx, pending, flight, txReset, queued, control, srv>>
      /\ SendFails
  BY DEF SubmitFails, loopVars
<1>2. LoopTyped' /\ busOff' = busOff BY <1>1, ProcessLoop
<1> QED BY <1>1, <1>2, PathUnchanged, SendFailsCan DEF IInv

\* The flags that go into flight with a frame.
LEMMA FlagsAre ==
    ASSUME NEW e \in Submitted, NEW s, s = <<[final |-> e.final, reset |-> e.reset]>>
    PROVE  s \in Slot(Tagged) /\ s # <<>> /\ s[1].reset = e.reset
<1> DEFINE g == [final |-> e.final, reset |-> e.reset]
<1>1. g \in Tagged BY Zenon DEF Tagged, Submitted
<1>2. g.reset = e.reset BY Zenon
<1> HIDE DEF g
<1>3. s = <<g>> BY DEF g
<1>4. s \in Slot(Tagged) /\ s # <<>> BY <1>1, <1>3, SlotOf, Zenon
<1>5. s[1] = g BY <1>3
<1> QED BY <1>2, <1>4, <1>5, Zenon

\* The pending frame goes into flight, or is complete at once.
LEMMA SubmitPendingKeeps ==
    ASSUME IInv, pc' = "tick", UNCHANGED <<now, lastDiag, envVars, silent>>, SubmitPending
    PROVE  IInv'
<1> DEFINE f    == pending[1].frame
           mine == <<[final |-> pending[1].final, reset |-> pending[1].reset]>>
           box(m, instant) == [mbox EXCEPT ![m] = IF instant THEN <<>> ELSE <<f>>]
           done(m, instant) == TxComplete(box(m, instant), mask \cup {m})
<1>1. /\ pending # <<>> /\ flight = <<>> /\ pending' = <<>>
      /\ UNCHANGED <<frame, rx, tx, txReset, queued, control, txError>>
  BY DEF SubmitPending
<1>2. PICK m \in Mailboxes, instant \in BOOLEAN :
        /\ mbox' = box(m, instant)
        /\ mask' = IF done(m, instant) THEN {} ELSE mask \cup {m}
        /\ flight' = IF done(m, instant) THEN <<>> ELSE mine
        /\ srv' = IF done(m, instant) THEN CompleteInFlight(mine, srv) ELSE srv
        /\ IF instant THEN Fate(f, "sent") ELSE UNCHANGED answer
  BY Zenon DEF SubmitPending
<1>3. LoopTyped' /\ busOff' = busOff BY <1>1, ProcessLoop
<1>4. pending[1] \in Submitted BY <1>1, SlotHolds, Zenon DEF IInv, PathTyped
<1>5. f \in OutFrames BY <1>4 DEF Submitted
<1>6. mine \in Slot(Tagged) /\ mine # <<>> /\ mine[1].reset = pending[1].reset
  BY <1>4, FlagsAre, Zenon
<1>7. pending[1].reset => IsResetAnswer(f) /\ ResponseResetPending(srv)
  BY <1>1, Zenon DEF IInv, MarkedIsAnswer, MarksAreCurrent, Marked
<1>8. /\ mbox \in [Mailboxes -> Slot(OutFrames)] /\ mask \subseteq Mailboxes
      /\ answer \in Fates
  BY DEF IInv, CanTyped
<1>9. mbox' \in [Mailboxes -> Slot(OutFrames)]
  BY <1>2, <1>5, <1>8, MailboxFilled, Zenon
<1>10. srv \in Servers /\ srv' \in Servers
       /\ (ResponseResetPending(srv') <=> ResponseResetPending(srv))
       /\ (srv'.reset_ready => srv.reset_ready \/ (done(m, instant) /\ mine[1].reset))
       /\ srv'.reset_pending = srv.reset_pending
  <2>1. srv \in Servers BY DEF IInv, PathTyped
  <2> HIDE DEF mine, done
  <2>2. /\ CompleteInFlight(mine, srv) \in Servers
        /\ (ResponseResetPending(CompleteInFlight(mine, srv))
              <=> ResponseResetPending(srv))
        /\ (CompleteInFlight(mine, srv).reset_ready =>
              srv.reset_ready \/ (mine # <<>> /\ mine[1].reset))
        /\ CompleteInFlight(mine, srv).reset_pending = srv.reset_pending
    BY <2>1, CompleteInFlightOK
  <2>3. CASE done(m, instant)
    <3>1. srv' = CompleteInFlight(mine, srv) BY <1>2, <2>3, Zenon
    <3> QED BY <2>1, <2>2, <2>3, <3>1, Zenon
  <2>4. CASE ~done(m, instant)
    <3>1. srv' = srv BY <1>2, <2>4, Zenon
    <3> QED BY <2>1, <3>1, Zenon
  <2> QED BY <2>3, <2>4
<1>11. /\ answer' \in Fates /\ (answer # "none" => answer' # "none")
       /\ (instant /\ IsResetAnswer(f) => answer' # "none")
  BY <1>2, <1>8 DEF Fate, Fates
<1>12. instant \/ mbox'[m] = <<f>> BY <1>2, <1>8
<1>13. done(m, instant) => instant
  <2> SUFFICES ASSUME done(m, instant), ~instant PROVE FALSE BY Zenon
  <2>1. box(m, instant)[m] = <<>> BY Zenon DEF TxComplete
  <2>2. box(m, instant)[m] = <<f>> BY <1>8
  <2>3. <<f>> # <<>> BY SlotOf, <1>5
  <2> QED BY <2>1, <2>2, <2>3, Zenon
<1> HIDE DEF mine, f, box
<1>14. PathTyped'
  <2>1. flight' \in Slot(Tagged) BY <1>2, <1>6, SlotOf, Zenon
  <2> QED BY <1>1, <1>10, <2>1, SlotOf, Zenon DEF IInv, PathTyped
<1>15. CanTyped'
  <2>1. mask' \subseteq Mailboxes BY <1>2, <1>8
  <2> QED BY <1>1, <1>3, <1>9, <1>11, <2>1, Zenon DEF IInv, CanTyped
<1>16. MarksAreCurrent'
  <2>1. flight' # <<>> /\ flight'[1].reset => ResponseResetPending(srv)
    BY <1>2, <1>6, <1>7, Zenon
  <2>2. queued # <<>> /\ queued[1].reset => ResponseResetPending(srv)
    BY Zenon DEF IInv, MarksAreCurrent, Marked
  <2> QED BY <1>1, <1>10, <2>1, <2>2, Zenon DEF MarksAreCurrent, Marked
<1>17. MarkedIsAnswer' BY <1>1, Zenon DEF IInv, MarkedIsAnswer
<1>18. ReadyIsReset' BY <1>6, <1>7, <1>10, Zenon DEF IInv, ReadyIsReset
<1>19. FlightCarries'
  <2> SUFFICES ASSUME flight' # <<>>, flight'[1].reset, answer' = "none"
               PROVE  AnswerWaits'
    BY Zenon DEF FlightCarries
  <2>1. ~done(m, instant) BY <1>2, Zenon
  <2>2. flight' = mine /\ mask' = mask \cup {m} BY <1>2, <2>1, Zenon
  <2>3. IsResetAnswer(f) BY <1>6, <1>7, <2>2, Zenon
  <2>4. mbox'[m] = <<f>> BY <1>11, <1>12, <2>3, Zenon
  <2>5. mbox'[m] # <<>> /\ mbox'[m][1] = f BY <2>4
  <2>6. m \in mask' BY <2>2
  <2> QED BY <2>3, <2>5, <2>6, Zenon DEF AnswerWaits
<1>20. ResetAfterAnswer'
  <2>1. done(m, instant) /\ mine[1].reset => answer' # "none"
    BY <1>6, <1>7, <1>11, <1>13, Zenon
  <2> HIDE DEF done
  <2> QED BY <1>10, <1>11, <2>1, Zenon DEF IInv, ResetAfterAnswer, ResetDue
<1> QED BY <1>3, <1>14, <1>15, <1>16, <1>17, <1>18, <1>19, <1>20 DEF IInv

\* A step of the transmit path that submits nothing and leaves the server alone.
LEMMA PathMoved ==
    ASSUME IInv, pc' = "tick", UNCHANGED <<now, lastDiag, envVars, silent>>,
           UNCHANGED <<frame, rx, flight, control, srv, canVars, answer>>,
           flight = <<>>, PathAfter(ResponseResetPending(srv))
    PROVE  IInv'
<1>1. LoopTyped' /\ busOff' = busOff BY ProcessLoop
<1>2. busOff' \in BOOLEAN BY <1>1 DEF IInv, CanTyped
<1>3. CanTyped' /\ FlightCarries' /\ ResetAfterAnswer' BY <1>2, CanUnchanged DEF canVars
<1>4. PathTyped' BY Zenon DEF IInv, PathTyped, PathAfter
<1>5. MarksAreCurrent' BY Zenon DEF MarksAreCurrent, Marked, PathAfter
<1>6. MarkedIsAnswer' BY Zenon DEF MarkedIsAnswer, PathAfter
<1>7. ReadyIsReset' BY Zenon DEF IInv, ReadyIsReset
<1> QED BY <1>1, <1>3, <1>4, <1>5, <1>6, <1>7 DEF IInv

\* The queued response is started, with the mark it has.
LEMMA StartQueuedOK ==
    ASSUME IInv, queued # <<>>, NEW t, StartQueued(t)
    PROVE  PathAfter(ResponseResetPending(srv))
<1> DEFINE p == queued[1].payload
           m == queued[1].reset
<1>1. /\ tx' = TxStart(t, p, now).tx /\ txReset' = m /\ queued' = <<>>
      /\ pending' = <<[frame |-> TxStart(t, p, now).out[1],
                       final |-> TxStart(t, p, now).tx.state = "IDLE", reset |-> m]>>
  BY Zenon DEF StartQueued
<1>2. queued[1] \in Queued BY SlotHolds, Zenon DEF IInv, PathTyped
<1>3. p \in Responses /\ m \in BOOLEAN BY <1>2, Zenon DEF Queued
<1>4. (m => p = Short("RESET_OK")) /\ (m => ResponseResetPending(srv))
  BY Zenon DEF IInv, MarkedIsAnswer, MarksAreCurrent, Marked
<1> HIDE DEF p, m
<1>5. /\ TxOK(tx') /\ pending' \in Slot(Submitted) /\ txReset' \in BOOLEAN
      /\ (tx'.state # "IDLE" => ~txReset')
      /\ (pending'[1].reset => m /\ IsResetAnswer(pending'[1].frame))
  BY <1>1, <1>3, <1>4, StartedOK, Zenon
<1> QED BY <1>1, <1>4, <1>5, SlotOf, Zenon DEF PathAfter

\* The next frame of a segmented transfer, which is never marked.
LEMMA ContinueTransferKeeps ==
    ASSUME IInv, pc' = "tick", UNCHANGED <<now, lastDiag, envVars, silent>>, ContinueTransfer
    PROVE  IInv'
<1> DEFINE r == TxNext(tx, now)
<1>1. /\ flight = <<>> /\ pending = <<>> /\ tx.state # "IDLE"
      /\ UNCHANGED <<frame, rx, flight, control, srv, canVars, answer>>
  BY DEF ContinueTransfer
<1>2. Stepped(r) BY TxNextOK, Zenon DEF IInv, PathTyped
<1>3. ~txReset /\ txReset \in BOOLEAN
  BY <1>1, Zenon DEF IInv, MarkedIsAnswer, PathTyped
<1>4. PathAfter(ResponseResetPending(srv))
  <2>1. CASE r.status = "COMPLETE" /\ queued # <<>>
    <3>1. StartQueued(r.tx) BY <2>1, Zenon DEF ContinueTransfer
    <3> QED BY <2>1, <3>1, StartQueuedOK, Zenon
  <2>2. CASE ~(r.status = "COMPLETE" /\ queued # <<>>)
    <3> DEFINE b == r.tx.offset >= Len(r.tx.payload)
    <3>1. /\ tx' = r.tx /\ UNCHANGED <<txReset, queued>>
          /\ pending' = IF r.out = <<>> THEN <<>>
                        ELSE <<[frame |-> r.out[1], reset |-> txReset, final |-> b]>>
      BY <2>2, Zenon DEF ContinueTransfer
    <3>2. TxOK(tx') BY <1>2, <3>1, Zenon DEF Stepped
    <3>3. queued' \in Slot(Queued) /\ (queued' # <<>> /\ queued'[1].reset =>
            /\ ResponseResetPending(srv)
            /\ queued'[1].payload = Short("RESET_OK"))
      BY <3>1, Zenon DEF IInv, PathTyped, MarkedIsAnswer, MarksAreCurrent, Marked
    <3>4. b \in BOOLEAN OBVIOUS
    <3>5. pending' \in Slot(Submitted) /\ ~(pending' # <<>> /\ pending'[1].reset)
      <4>1. CASE r.out = <<>> BY <3>1, <4>1, SlotOf, Zenon
      <4>2. CASE r.out # <<>>
        <5>1. PICK f \in OutFrames : r.out = <<f>> BY <1>2, <4>2, Zenon DEF Stepped
        <5>2. r.out[1] = f BY <5>1
        <5> HIDE DEF r, b
        <5>3. pending' = <<[frame |-> f, reset |-> txReset, final |-> b]>>
          BY <3>1, <4>2, <5>2, Zenon
        <5>4. pending' = <<[frame |-> f, final |-> b, reset |-> txReset]>> BY <5>3
        <5>5. pending' \in Slot(Submitted) /\ pending'[1].reset = txReset
          BY <1>3, <3>4, <5>4, SubmittedIs
        <5> QED BY <1>3, <5>5, Zenon
      <4> QED BY <4>1, <4>2
    <3> QED BY <1>3, <3>1, <3>2, <3>3, <3>5, Zenon DEF PathAfter
  <2> QED BY <2>1, <2>2
<1> QED BY <1>1, <1>4, PathMoved

\* The queued response when the path is free.
LEMMA NextQueuedKeeps ==
    ASSUME IInv, pc' = "tick", UNCHANGED <<now, lastDiag, envVars, silent>>, NextQueued
    PROVE  IInv'
<1>1. /\ flight = <<>> /\ queued # <<>> /\ StartQueued(tx)
      /\ UNCHANGED <<frame, rx, flight, control, srv, canVars, answer>>
  BY DEF NextQueued, Idle
<1>2. PathAfter(ResponseResetPending(srv)) BY <1>1, StartQueuedOK
<1> QED BY <1>1, <1>2, PathMoved

\* uds_isotp_endpoint_process().
LEMMA ProcessKeeps ==
    ASSUME IInv, Process
    PROVE  IInv'
<1>1. pc' = "tick" /\ UNCHANGED <<now, lastDiag, envVars, silent>> BY DEF Process
<1>2. CASE InFlightOk BY <1>1, <1>2, NoBranch DEF InFlightOk
<1>3. CASE InFlightAborted BY <1>1, <1>3, InFlightAbortedKeeps
<1>4. CASE SubmitControl BY <1>1, <1>4, SubmitControlKeeps
<1>5. CASE SubmitFails BY <1>1, <1>5, SubmitFailsKeeps
<1>6. CASE SubmitPending BY <1>1, <1>6, SubmitPendingKeeps
<1>7. CASE ContinueTransfer BY <1>1, <1>7, ContinueTransferKeeps
<1>8. CASE NextQueued BY <1>1, <1>8, NextQueuedKeeps
<1>9. CASE NothingToDo BY <1>1, <1>9, NoBranch DEF NothingToDo
<1> QED BY <1>2, <1>3, <1>4, <1>5, <1>6, <1>7, <1>8, <1>9 DEF Process

-----------------------------------------------------------------------------
(* The loop keeps the invariant: Tick. *)

\* The timers of the transport and of the session.
LEMMA TickTimersKeeps ==
    ASSUME IInv, TickTimers
    PROVE  IInv'
<1>1. /\ pc' = "diagnose" /\ rx' = RxTick(rx, now) /\ tx' = TxTick(tx, now)
      /\ srv' = ServerTick(srv, now)
      /\ UNCHANGED <<now, lastDiag, frame, pending, flight, txReset, queued, control,
                     mbox, mask, txError, clock, ring, busOff, answer, silent>>
  BY DEF TickTimers, canVars, envVars, history
<1>2. LoopTyped' BY <1>1 DEF IInv, LoopTyped
<1>3. RxOK(rx) /\ TxOK(tx) /\ srv \in Servers /\ now \in Clock
  BY Zenon DEF IInv, PathTyped, LoopTyped
<1>4. RxOK(rx') BY <1>1, <1>3, RxTickOK, Zenon
<1>5. TxOK(tx') /\ (tx.state = "IDLE" => tx'.state = "IDLE") BY <1>1, <1>3, TxTickOK, Zenon
<1>6. /\ srv' \in Servers /\ srv'.reset_ready = srv.reset_ready
      /\ srv'.reset_pending = srv.reset_pending /\ srv'.reset_type = srv.reset_type
  BY <1>1, <1>3, ServerTickOK, Zenon
<1>7. ResponseResetPending(srv') <=> ResponseResetPending(srv)
  BY <1>6, Zenon DEF ResponseResetPending
<1>8. PathTyped' BY <1>1, <1>4, <1>5, <1>6, Zenon DEF IInv, PathTyped
<1>9. CanTyped' BY <1>1, Zenon DEF IInv, CanTyped
<1>10. MarksAreCurrent' BY <1>1, <1>7, Zenon DEF IInv, MarksAreCurrent, Marked
<1>11. MarkedIsAnswer' BY <1>1, <1>5, Zenon DEF IInv, MarkedIsAnswer
<1>12. ReadyIsReset' BY <1>6, <1>7, Zenon DEF IInv, ReadyIsReset
<1>13. FlightCarries' BY <1>1, Zenon DEF IInv, FlightCarries, AnswerWaits
<1>14. ResetAfterAnswer' BY <1>1, <1>6, Zenon DEF IInv, ResetAfterAnswer, ResetDue
<1> QED BY <1>2, <1>8, <1>9, <1>10, <1>11, <1>12, <1>13, <1>14 DEF IInv

\* The state main() starts from.
LEMMA StartOK ==
    /\ RxOK(RxReset) /\ TxOK(TxReset) /\ TxReset.state = "IDLE"
    /\ ServerInit(0) \in Servers /\ ~ServerInit(0).reset_ready
    /\ 0 \in Clock /\ NoFrames \in [Mailboxes -> Slot(OutFrames)]
    /\ <<>> \in Seq(TesterFrames) /\ Len(<<>>) < RingSlots
<1>1. 0 \in Clock BY ClockAssumption DEF Clock
<1>2. NoFrames \in [Mailboxes -> Slot(OutFrames)] BY SlotOf DEF NoFrames
<1>3. <<>> \in Seq(TesterFrames) /\ Len(<<>>) < RingSlots BY EndpointAssumption
<1> QED BY <1>1, <1>2, <1>3, RxResetOK, TxResetOK, ServerInitOK

\* The initial state satisfies the invariant.
LEMMA InitIInv == Init => IInv
<1> SUFFICES ASSUME Init PROVE IInv OBVIOUS
<1>1. LoopTyped BY StartOK, SlotOf DEF Init, LoopTyped
<1>2. PathTyped BY StartOK, SlotOf, Zenon DEF Init, PathTyped
<1>3. CanTyped BY StartOK DEF Init, CanTyped, Fates
<1>4. MarksAreCurrent BY Zenon DEF Init, MarksAreCurrent, Marked
<1>5. MarkedIsAnswer BY StartOK, Zenon DEF Init, MarkedIsAnswer
<1>6. ReadyIsReset BY StartOK, Zenon DEF Init, ReadyIsReset
<1>7. FlightCarries BY Zenon DEF Init, FlightCarries
<1>8. ResetAfterAnswer BY StartOK, Zenon DEF Init, ResetAfterAnswer, ResetDue
<1> QED BY <1>1, <1>2, <1>3, <1>4, <1>5, <1>6, <1>7, <1>8 DEF IInv

-----------------------------------------------------------------------------
(* The loop keeps the invariant: App_DiagnosticTask(). *)

\* Between two rounds of the diagnostic task nothing happens.
LEMMA DiagnosisNotDueKeeps ==
    ASSUME IInv, DiagnosisNotDue
    PROVE  IInv'
<1>1. /\ pc' = "poll"
      /\ UNCHANGED <<now, lastDiag, clock, ring, frame, rx, tx, pending, flight, txReset,
                     queued, control, srv, mbox, mask, txError, busOff, answer, silent>>
  BY DEF DiagnosisNotDue, loopVars, canVars, envVars, history
<1>2. LoopTyped' BY <1>1 DEF IInv, LoopTyped
<1>3. busOff' \in BOOLEAN BY <1>1 DEF IInv, CanTyped
<1> QED BY <1>1, <1>2, <1>3, PathUnchanged, CanUnchanged DEF IInv

\* The diagnostic task may abort the mailbox in which the answer waits, and then
\* the fate of the answer is known.
LEMMA DiagnoseKeeps ==
    ASSUME IInv, Diagnose
    PROVE  IInv'
<1>1. /\ pc' = "poll" /\ lastDiag' = now
      /\ UNCHANGED <<now, clock, ring, frame, rx, tx, pending, flight, txReset, queued,
                     control, srv, busOff, silent>>
  BY DEF Diagnose, loopVars, envVars
<1>2. LoopTyped' BY <1>1 DEF IInv, LoopTyped
<1>3. busOff' \in BOOLEAN BY <1>1 DEF IInv, CanTyped
<1>4. PathTyped' /\ MarksAreCurrent' /\ MarkedIsAnswer' /\ ReadyIsReset'
  BY <1>1, PathUnchanged
<1>5. CASE ~TransportError
  <2>1. UNCHANGED <<mbox, mask, txError, answer>> BY <1>5 DEF Diagnose, canVars
  <2> QED BY <1>1, <1>2, <1>3, <1>4, <2>1, CanUnchanged DEF IInv
<1>6. CASE TransportError
  <2>1. /\ mask' = {} /\ txError' = FALSE
        /\ mbox' = [m \in Mailboxes |-> IF m \in mask THEN <<>> ELSE mbox[m]]
        /\ answer' = IF AnswerWaits THEN "aborted" ELSE answer
    BY <1>6 DEF Diagnose, AbortMailboxes
  <2>2. mbox' \in [Mailboxes -> Slot(OutFrames)]
    <3>1. mbox \in [Mailboxes -> Slot(OutFrames)] BY DEF IInv, CanTyped
    <3> QED BY <2>1, <3>1, SlotOf
  <2>3. answer' \in Fates /\ (answer # "none" \/ AnswerWaits => answer' # "none")
    BY <2>1 DEF IInv, CanTyped, Fates
  <2>4. CanTyped' BY <1>1, <1>3, <2>1, <2>2, <2>3 DEF IInv, CanTyped
  <2>5. FlightCarries' BY <1>1, <2>3, Zenon DEF IInv, FlightCarries
  <2>6. ResetAfterAnswer' BY <1>1, <2>3, Zenon DEF IInv, ResetAfterAnswer
  <2> QED BY <1>2, <1>4, <2>4, <2>5, <2>6 DEF IInv
<1> QED BY <1>5, <1>6

\* A system reset starts main() again.
LEMMA TickExecutesResetKeeps ==
    ASSUME TickExecutesReset
    PROVE  IInv'
<1>1. LoopTyped' BY StartOK, SlotOf DEF TickExecutesReset, LoopTyped
<1>2. PathTyped' BY StartOK, SlotOf, Zenon DEF TickExecutesReset, PathTyped
<1>3. CanTyped' BY StartOK DEF TickExecutesReset, CanTyped, Fates
<1>4. MarksAreCurrent' BY Zenon DEF TickExecutesReset, MarksAreCurrent, Marked
<1>5. MarkedIsAnswer' BY StartOK, Zenon DEF TickExecutesReset, MarkedIsAnswer
<1>6. ReadyIsReset' BY StartOK, Zenon DEF TickExecutesReset, ReadyIsReset
<1>7. FlightCarries' BY Zenon DEF TickExecutesReset, FlightCarries
<1>8. ResetAfterAnswer'
  BY StartOK, Zenon DEF TickExecutesReset, ResetAfterAnswer, ResetDue
<1> QED BY <1>1, <1>2, <1>3, <1>4, <1>5, <1>6, <1>7, <1>8 DEF IInv

-----------------------------------------------------------------------------
(* The theorems. *)

\* Every step keeps the invariant.
LEMMA NextIInv == IInv /\ [Next]_vars => IInv'
<1> SUFFICES ASSUME IInv, [Next]_vars PROVE IInv' OBVIOUS
<1>1. ASSUME NEW tf \in TesterFrames, TesterSends(tf) PROVE IInv'
  BY <1>1, TesterSendsKeeps
<1>2. ASSUME NEW m \in Mailboxes, Transmit(m) PROVE IInv' BY <1>2, TransmitKeeps
<1>3. ASSUME NEW m \in Mailboxes, TransmitFails(m) PROVE IInv'
  BY <1>3, TransmitFailsKeeps
<1>4. CASE BusGoesOff BY <1>4, BusGoesOffKeeps
<1>5. CASE ClockTick BY <1>5, ClockTickKeeps
<1>6. CASE Poll BY <1>6, PollKeeps
<1>7. CASE Receive BY <1>7, ReceiveKeeps
<1>8. CASE Process BY <1>8, ProcessKeeps
<1>9. CASE TickTimers BY <1>9, TickTimersKeeps
<1>10. CASE TickExecutesReset BY <1>10, TickExecutesResetKeeps
<1>11. CASE DiagnosisNotDue BY <1>11, DiagnosisNotDueKeeps
<1>12. CASE Diagnose BY <1>12, DiagnoseKeeps
<1>13. CASE UNCHANGED vars
  <2>1. UNCHANGED <<pc, now, lastDiag, clock, ring, frame, rx, tx, pending, flight, txReset,
                    queued, control, srv, mbox, mask, txError, busOff, answer, silent>>
    BY <1>13 DEF vars, loopVars, canVars, envVars, history
  <2>2. LoopTyped' BY <2>1, Zenon DEF IInv, LoopTyped
  <2>3. busOff' \in BOOLEAN BY <2>1 DEF IInv, CanTyped
  <2> QED BY <2>1, <2>2, <2>3, PathUnchanged, CanUnchanged DEF IInv
<1> QED BY <1>1, <1>2, <1>3, <1>4, <1>5, <1>6, <1>7, <1>8, <1>9, <1>10, <1>11, <1>12,
           <1>13 DEF Next

\* The strengthening holds in every behaviour: a marked response is the single
\* frame of a RESET_OK, and while it is in flight it waits in a mailbox that
\* uds_can_transport_tx_complete() watches, or it was acknowledged, failed on the
\* bus, or was aborted by the diagnostic task.
THEOREM InvariantHolds == Spec => []IInv
BY InitIInv, NextIInv, PTL DEF Spec

\* A frame the endpoint sends is well formed.
LEMMA OutgoingIs ==
    ASSUME NEW f \in OutFrames
    PROVE  Outgoing(f)
<1>1. CASE f \in [type : {"SF"}, len : 1 .. SfMax, data : Seq(Bytes)]
  BY <1>1 DEF Outgoing
<1>2. CASE f \in [type : {"FF"}, len : Nat, data : {d \in Seq(Bytes) : Len(d) = FfData}]
  BY <1>2 DEF Outgoing
<1>3. CASE f \in [type : {"CF"}, sn : 0 .. SeqMod - 1,
                  data : {d \in Seq(Bytes) : Len(d) = CfData}]
  BY <1>3 DEF Outgoing
<1>4. CASE f \in FlowControls
  BY <1>4 DEF FlowControls, FlowControl, Outgoing
<1> QED BY <1>1, <1>2, <1>3, <1>4 DEF OutFrames

\* The endpoint of uds_app.c and endpoint.c stays within its types for every
\* frame length, clock and number of mailboxes: the ring keeps a slot free, no
\* frame is pending and in flight at once, and every frame sent is well formed.
THEOREM TypeCorrect == Spec => []TypeOK
<1>1. IInv => TypeOK
  <2> SUFFICES ASSUME IInv PROVE TypeOK OBVIOUS
  <2>1. /\ pc \in {"poll", "receive", "process", "tick", "diagnose"}
        /\ clock \in Clock /\ now \in Clock /\ lastDiag \in Clock
        /\ Len(ring) < RingSlots /\ frame \in Slot(TesterFrames)
    BY Zenon DEF IInv, LoopTyped
  <2>2. /\ rx.active \in BOOLEAN /\ Len(rx.buffer) <= rx.expected_len
        /\ tx.state \in TxStates /\ tx.offset <= Len(tx.payload)
    BY Zenon DEF IInv, PathTyped, RxOK, TxOK
  <2>3. /\ pending \in Slot(Submitted) /\ flight \in Slot(Tagged)
        /\ (pending = <<>> \/ flight = <<>>) /\ queued \in Slot(Queued)
        /\ control \in Slot(FlowControls) /\ txReset \in BOOLEAN /\ srv \in Servers
    BY Zenon DEF IInv, PathTyped
  <2>4. Len(frame) <= 1 /\ Len(queued) <= 1 /\ Len(control) <= 1
    BY <2>1, <2>3 DEF Slot
  <2>5. Len(pending) + Len(flight) <= 1
    <3>1. Len(pending) = IF pending = <<>> THEN 0 ELSE 1 BY <2>3, SlotHolds, Zenon
    <3>2. Len(flight) = IF flight = <<>> THEN 0 ELSE 1 BY <2>3, SlotHolds, Zenon
    <3> QED BY <2>3, <3>1, <3>2
  <2>6. pending # <<>> => Outgoing(pending[1].frame)
    <3>1. pending # <<>> => pending[1] \in Submitted BY <2>3, SlotHolds, Zenon
    <3>2. \A e \in Submitted : e.frame \in OutFrames BY DEF Submitted
    <3> QED BY <3>1, <3>2, OutgoingIs, Zenon
  <2>7. flight # <<>> => flight[1] \in Tagged BY <2>3, SlotHolds, Zenon
  <2>8. /\ \A m \in Mailboxes : mbox[m] \in Slot(OutFrames)
        /\ mask \subseteq Mailboxes /\ txError \in BOOLEAN /\ busOff \in BOOLEAN
        /\ answer \in Fates /\ silent \in BOOLEAN
    BY DEF IInv, CanTyped
  <2>9. \A m \in Mailboxes : mbox[m] # <<>> => Outgoing(mbox[m][1])
    BY <2>8, SlotHolds, OutgoingIs, Zenon
  <2> QED BY <2>1, <2>2, <2>3, <2>4, <2>5, <2>6, <2>7, <2>8, <2>9, Zenon
          DEF TypeOK, Servers
<1> QED BY <1>1, InvariantHolds, PTL

\* Whatever is lost, aborted or queued, a response marked as the answer to an
\* ECUReset exists only while the server still has that reset pending.
THEOREM MarksAlwaysCurrent == Spec => []MarksAreCurrent
<1>1. IInv => MarksAreCurrent BY DEF IInv
<1> QED BY <1>1, InvariantHolds, PTL

\* The ECU never resets over an answer to the ECUReset that still waits: it was
\* acknowledged, it failed on the bus or its mailbox was aborted, unless the
\* tester asked for no answer.
THEOREM ResetAlwaysAfterAnswer == Spec => []ResetAfterAnswer
<1>1. IInv => ResetAfterAnswer BY DEF IInv
<1> QED BY <1>1, InvariantHolds, PTL
=============================================================================
