------------------------------ MODULE IsoTpLink ------------------------------
(***************************************************************************)
(* One direction of an ISO-TP connection: a sender and a receiver of       *)
(* library/src/isotp.c, each called from its node's super-loop, joined by a *)
(* CAN bus that keeps frames in order but may lose them (an arbitration     *)
(* abort, or the eight-entry receive ring of uds_app.c dropping a frame).   *)
(*                                                                          *)
(* Submission n carries the bytes <<n, 1>>, <<n, 2>>, ... so that a byte of *)
(* another message, or a padding byte, is recognised wherever it ends up.   *)
(***************************************************************************)
EXTENDS IsoTp

CONSTANTS Lengths,     \* payload lengths the application submits
          MaxMsgs,     \* bound: number of submissions
          MaxLoss,     \* bound: number of frames lost
          QuietMsgs    \* bound: WAIT answers and late frames come after so many

ASSUME LinkAssumption == /\ Lengths \subseteq Nat \ {0}
                         /\ MaxMsgs \in Nat /\ MaxLoss \in Nat
                         /\ QuietMsgs \in Nat

VARIABLES now,      \* the millisecond tick, shared by both nodes
          tx, rx,   \* sender and receiver
          toRx,     \* SF, FF and CF frames on their way to the receiver
          toTx,     \* FC frames on their way to the sender
          sent,     \* history: payloads submitted
          got,      \* history: payloads delivered
          losses,   \* frames lost so far
          spoiled   \* history: latest submission a loss, WAIT or delay may have hit

vars == <<now, tx, rx, toRx, toTx, sent, got, losses, spoiled>>

Payload(n, len) == [i \in 1 .. len |-> <<n, i>>]

Init == /\ now \in Clock
        /\ tx = TxReset /\ rx = RxReset
        /\ toRx = <<>> /\ toTx = <<>>
        /\ sent = <<>> /\ got = <<>>
        /\ losses = 0 /\ spoiled = 0

\* The application hands over a message while the sender is idle.
Submit(len) ==
    LET p == Payload(Len(sent) + 1, len)
        r == TxStart(tx, p, now)
    IN  /\ Len(sent) < MaxMsgs
        /\ tx.state = "IDLE"
        /\ r.status = "TX_FRAME_READY"
        /\ tx' = r.tx
        /\ toRx' = toRx \o r.out
        /\ sent' = Append(sent, p)
        /\ UNCHANGED <<now, rx, toTx, got, losses, spoiled>>

\* The sender's loop calls isotp_tx_next().
SendNext ==
    LET r == TxNext(tx, now)
    IN  /\ tx.state = "SEND_CF"
        /\ tx' = r.tx
        /\ toRx' = toRx \o r.out
        /\ UNCHANGED <<now, rx, toTx, sent, got, losses, spoiled>>

\* The sender's loop receives a flow-control frame.
SenderReceive ==
    /\ toTx # <<>>
    /\ tx' = TxFlowControl(tx, Head(toTx), now).tx
    /\ toTx' = Tail(toTx)
    /\ UNCHANGED <<now, rx, toRx, sent, got, losses, spoiled>>

SenderTick == /\ tx' = TxTick(tx, now)
              /\ UNCHANGED <<now, rx, toRx, toTx, sent, got, losses, spoiled>>

\* The receiver's loop feeds a frame, sends the flow control it asks for and
\* hands a completed payload to the application.
ReceiverReceive ==
    /\ toRx # <<>>
    /\ LET r == RxFeed(rx, Head(toRx), now)
       IN  /\ rx' = r.rx
           /\ toTx' = toTx \o r.fc
           /\ got' = IF r.status = "COMPLETE" THEN Append(got, r.payload) ELSE got
    /\ toRx' = Tail(toRx)
    /\ UNCHANGED <<now, tx, sent, losses, spoiled>>

ReceiverTick == /\ rx' = RxTick(rx, now)
                /\ UNCHANGED <<now, tx, toRx, toTx, sent, got, losses, spoiled>>

\* From here on the bus may delay frames and the peer may answer WAIT.
Unruly == Len(sent) > QuietMsgs

\* A receiving stack that is not ready says WAIT before its next answer.  This
\* library never sends WAIT, but its sender must cope with a peer that does.
PeerWait == /\ Unruly
            /\ tx.state \in {"WAIT_FIRST_FC", "WAIT_BLOCK_FC"}
            /\ \A i \in 1 .. Len(toTx) : toTx[i].fs # "WAIT"
            /\ toTx' = <<FlowControl("WAIT")>> \o toTx
            /\ spoiled' = Len(sent)
            /\ UNCHANGED <<now, tx, rx, toRx, sent, got, losses>>

LoseData == /\ losses < MaxLoss /\ toRx # <<>>
            /\ toRx' = Tail(toRx)
            /\ losses' = losses + 1 /\ spoiled' = Len(sent)
            /\ UNCHANGED <<now, tx, rx, toTx, sent, got>>

LoseFc == /\ losses < MaxLoss /\ toTx # <<>>
          /\ toTx' = Tail(toTx)
          /\ losses' = losses + 1 /\ spoiled' = Len(sent)
          /\ UNCHANGED <<now, tx, rx, toRx, sent, got>>

\* Nothing is due at the present tick: each node has run its loop.
LoopsDone == /\ RxTick(rx, now) = rx
             /\ TxTick(tx, now) = tx
             /\ TxNext(tx, now).tx = tx

\* Both loops run at least once per tick.  Unless Unruly, a frame that is not
\* lost is also received within the tick in which it was sent.
Tick == /\ LoopsDone
        /\ \/ toRx = <<>> /\ toTx = <<>> /\ spoiled' = spoiled
           \/ Unruly /\ ~(toRx = <<>> /\ toTx = <<>>) /\ spoiled' = Len(sent)
        /\ now' = (now + 1) % ClockMod
        /\ UNCHANGED <<tx, rx, toRx, toTx, sent, got, losses>>

Next == \/ \E len \in Lengths : Submit(len)
        \/ SendNext \/ SenderReceive \/ SenderTick
        \/ ReceiverReceive \/ ReceiverTick
        \/ PeerWait \/ LoseData \/ LoseFc
        \/ Tick

\* The super-loops never stop and the bus transmits what is queued.
Fairness == /\ WF_vars(SendNext) /\ WF_vars(SenderReceive) /\ WF_vars(SenderTick)
            /\ WF_vars(ReceiverReceive) /\ WF_vars(ReceiverTick)
            /\ WF_vars(Tick)

Spec == Init /\ [][Next]_vars
FairSpec == Spec /\ Fairness

-----------------------------------------------------------------------------
(* Properties *)

Byte == (Nat \X Nat) \cup {Fill}

Data(n) == {d \in Seq(Byte) : Len(d) <= n}

DataFrame == [type : {"SF"}, len : Nat, data : Data(SfMax)]
             \cup [type : {"FF"}, len : Nat, data : Data(FfData)]
             \cup [type : {"CF"}, sn : 0 .. SeqMod - 1, data : Data(CfData)]

FcFrame == [type : {"FC"}, fs : {"CTS", "WAIT", "OVERFLOW"}, bs : 0 .. 255, st : Nat]

RxType == [active : BOOLEAN, expected_len : 0 .. RxMax, buffer : Seq(Byte),
           next_sequence : 0 .. SeqMod - 1, block_count : 0 .. 255,
           deadline : Clock]

TxType == [state : TxStates, payload : Seq(Byte), offset : Nat,
           next_sequence : 0 .. SeqMod - 1, block_count : 0 .. 255,
           wait_frames : 0 .. MaxWait, remote_bs : 0 .. 255, remote_st : Nat,
           deadline : Clock, next_frame : Clock]

\* The state stays within its C types; wait_frames never exceeds its limit.
TypeOK == /\ now \in Clock
          /\ rx \in RxType /\ tx \in TxType
          /\ toRx \in Seq(DataFrame) /\ toTx \in Seq(FcFrame)
          /\ sent \in Seq(Seq(Byte)) /\ got \in Seq(Seq(Byte))
          /\ losses \in 0 .. MaxLoss /\ spoiled \in Nat

\* isotp.c copies to rx->buffer[received_len + i] and from tx->buffer[offset + i]
\* without a bounds check of its own: the lengths it keeps must imply one.
RxBounded(r) == /\ Len(r.buffer) <= r.expected_len
                /\ r.active => Len(r.buffer) < r.expected_len
TxBounded(t) == Len(t.payload) <= TxMax /\ t.offset <= Len(t.payload)

BuffersRespected == RxBounded(rx) /\ TxBounded(tx)

\* The receiver's bookkeeping agrees with what it holds: the sequence number it
\* expects is the number of consecutive frames it has copied, plus one, and it
\* never collects a full block without asking for the next one.
ReceiverConsistent ==
    rx.active =>
      /\ \E k \in 0 .. rx.expected_len :
            /\ Len(rx.buffer) = FfData + k * CfData
            /\ rx.next_sequence = (k + 1) % SeqMod
      /\ BlockSize # 0 => rx.block_count < BlockSize

\* The link implements the service: whole messages, in order, at most once.
DeliveredNumbers == {got[k][1][1] : k \in 1 .. Len(got)}
LastDelivered == IF got = <<>> THEN 0 ELSE got[Len(got)][1][1]
Service == INSTANCE IsoTpService WITH last <- LastDelivered
ServiceSpec == Service!Spec

\* Neither side waits for the other for ever: a transfer and a reception always
\* end, with completion, an error answer or a timeout.
SidesReleased == []<>(tx.state = "IDLE") /\ []<>(~rx.active)

\* What an earlier loss left behind in the sender or the receiver never costs a
\* later message: one submitted after the last loss, WAIT or delay is delivered.
Recovery ==
    \A n \in 1 .. MaxMsgs :
        (Len(sent) >= n /\ Len(sent[n]) <= RxMax)
          ~> (spoiled >= n \/ n \in DeliveredNumbers)
=============================================================================
