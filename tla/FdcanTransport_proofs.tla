----------------------- MODULE FdcanTransport_proofs -----------------------
(***************************************************************************)
(* Theorems about FdcanTransport for any number of markers, depth of the    *)
(* FIFOs, wiring of the event interrupts, order of the stores of send(),    *)
(* and any number of frames.                                               *)
(***************************************************************************)
EXTENDS FdcanTransport, TLAPS

USE FdcanAssumption

Markers == 0 .. MarkerMod - 1
Entries == [marker : Markers, own : BOOLEAN]
Slots   == Seq([reset : BOOLEAN])
Flags   == [pending : BOOLEAN, complete : BOOLEAN, error : BOOLEAN,
            marker : Markers \ {0}]
Sending == {"pend", "clear", "add"}

\* The error interrupts of the event FIFO are not enabled.
Quiet == wired \cap {"lost", "full"} = {}

Marked(f) == {i \in DOMAIN f : f[i].marker # 0}

-----------------------------------------------------------------------------
(* The invariant. *)

Typed ==
    /\ wired \subseteq {"new", "lost", "full"} /\ late \in BOOLEAN
    /\ pc \in Sending \cup {"poll", "process", "check", "tick"}
    /\ tr \in Flags /\ rxbox \in Seq(Outcomes)
    /\ ep \in [control : BOOLEAN, pending : Slots, flight : Slots, queued : Slots]
    /\ txfifo \in Seq(Entries) /\ events \in Seq(Entries) /\ irq \subseteq wired
    /\ gone \in BOOLEAN /\ done \in BOOLEAN /\ alarm \in BOOLEAN /\ aliased \in BOOLEAN

\* Nothing is in flight while a frame is being submitted.
NoneWhileSending == pc \in Sending => ep.flight = <<>>

\* An error flag is as young as the submission, but for the moment between the
\* two stores that set the one and clear the other.
ErrorsRaised == pc # "clear" => (tr.error => alarm)

\* An own entry among the events is that of a frame that has left.
EventsGone == \A i \in DOMAIN events : events[i].own => gone

\* A build that stores the marker first: only the latest frame has its marker.
MarkersOwn ==
    ~late /\ ~aliased =>
        /\ \A i \in DOMAIN txfifo : txfifo[i].marker = tr.marker => txfifo[i].own
        /\ \A i \in DOMAIN events : events[i].marker = tr.marker => events[i].own

\* Without the error interrupts no frame is given up, so that the FIFOs hold at
\* most one frame of the endpoint, and hold it only while the transmitter is busy.
OneMarked ==
    Quiet =>
        /\ \A i, j \in Marked(txfifo) : i = j
        /\ Marked(events) # {} => Marked(txfifo) = {}
        /\ Marked(txfifo) \cup Marked(events) # {} => tr.pending /\ pc \notin Sending
        /\ \A i \in Marked(txfifo) : txfifo[i].own
        /\ \A i \in Marked(events) : events[i].own
        /\ pc \in {"clear", "add"} => tr.pending
        /\ tr.error => ep.flight = <<>> /\ pc # "add"

\* Completion is reported after the latest frame has left.
CompleteGone ==
    (Quiet \/ (~late /\ ~aliased)) /\ pc \notin {"pend", "clear"} /\ tr.complete => gone

DoneGone == done /\ ~Raced /\ ~aliased => gone

IInv == /\ Typed /\ NoneWhileSending /\ ErrorsRaised /\ EventsGone /\ MarkersOwn
        /\ OneMarked /\ CompleteGone /\ DoneGone

-----------------------------------------------------------------------------
(* The operators. *)

\* Markers of the endpoint's frames are never that of foreign frames.
LEMMA NextMarkerTyped ==
  ASSUME NEW m \in Markers \ {0}
  PROVE  NextMarker(m) \in Markers \ {0}
  BY DEF NextMarker, Markers

\* Taking the entries from the latest frame changes nothing else of them.
LEMMA DisownedMeans ==
  ASSUME NEW f \in Seq(Entries)
  PROVE  /\ Disowned(f) \in Seq(Entries) /\ DOMAIN Disowned(f) = DOMAIN f
         /\ \A i \in DOMAIN f : /\ Disowned(f)[i].marker = f[i].marker
                                /\ Disowned(f)[i].own = FALSE
<1>1. DOMAIN f = 1 .. Len(f) /\ Len(f) \in Nat /\ \A i \in DOMAIN f : f[i] \in Entries
  OBVIOUS
<1>2. \A i \in DOMAIN f : [f[i] EXCEPT !.own = FALSE] \in Entries
  BY <1>1 DEF Entries
<1> QED
  BY <1>1, <1>2 DEF Disowned, Entries

\* drain_tx_events() touches the flags only, and reports completion only for a
\* matching event.
LEMMA DrainedMeans ==
  ASSUME NEW t \in Flags, NEW evs, NEW bad \in BOOLEAN
  PROVE  LET u == Drained(t, evs, bad) IN
         /\ u \in Flags /\ u.marker = t.marker
         /\ u.complete => t.complete \/ Matching(t, evs)
         /\ u.error => bad \/ t.error
         /\ ~Matching(t, evs) => u = t
         /\ u.pending => t.pending
<1>1. CASE ~Matching(t, evs)
  BY <1>1 DEF Drained
<1>2. CASE Matching(t, evs)
  <2> DEFINE u == [t EXCEPT !.pending = FALSE, !.complete = ~(bad \/ t.error),
                            !.error = bad \/ t.error]
  <2>1. Drained(t, evs, bad) = u
    BY <1>2 DEF Drained
  <2>2. (~(bad \/ t.error)) \in BOOLEAN /\ (bad \/ t.error) \in BOOLEAN
    BY Zenon
  <2>3. /\ u \in Flags /\ u.marker = t.marker /\ u.error = (bad \/ t.error)
        /\ ~u.pending
    BY <2>2 DEF Flags
  <2>4. u.error => bad \/ t.error
    BY <2>3, Zenon
  <2> HIDE DEF u
  <2> QED
    BY <1>2, <2>1, <2>3, <2>4, Zenon
<1> QED
  BY <1>1, <1>2

-----------------------------------------------------------------------------
(* The steps. *)

\* The application starts with nothing to send and empty FIFOs.
LEMMA InitIInv == Init => IInv
<1> SUFFICES ASSUME Init PROVE IInv
  OBVIOUS
<1>1. Typed
  <2>1. Idle \in Flags
    BY DEF Idle, Flags, Markers
  <2>2. Empty \in [control : BOOLEAN, pending : Slots, flight : Slots, queued : Slots]
    BY DEF Empty, Slots
  <2>3. /\ gone \in BOOLEAN /\ done \in BOOLEAN /\ alarm \in BOOLEAN /\ aliased \in BOOLEAN
        /\ late \in BOOLEAN
    BY DEF Init
  <2>4. /\ rxbox \in Seq(Outcomes) /\ txfifo \in Seq(Entries) /\ events \in Seq(Entries)
        /\ irq \subseteq wired /\ wired \subseteq {"new", "lost", "full"}
    BY DEF Init
  <2> QED
    BY <2>1, <2>2, <2>3, <2>4 DEF Init, Typed
<1>2. NoneWhileSending /\ ErrorsRaised /\ EventsGone /\ MarkersOwn /\ DoneGone
  BY DEF Init, NoneWhileSending, ErrorsRaised, EventsGone, MarkersOwn, DoneGone, Idle, Sending
<1>3. CompleteGone
  BY DEF Init, CompleteGone, Idle
<1>4. OneMarked
  <2>1. Marked(txfifo) = {} /\ Marked(events) = {} /\ pc = "poll" /\ ~tr.error
    BY DEF Init, Marked, Idle
  <2> QED
    BY <2>1 DEF OneMarked
<1> QED
  BY <1>1, <1>2, <1>3, <1>4 DEF IInv

\* Steps that leave the flags, the FIFOs and what is in flight alone.
LEMMA OtherIInv ==
  ASSUME IInv, UNCHANGED <<fixed, tr, txfifo, events, irq, gone, done, alarm, aliased>>,
         pc' = pc \/ (pc \notin Sending /\ pc' \in {"poll", "process", "check", "tick"}),
         ep' \in [control : BOOLEAN, pending : Slots, flight : Slots, queued : Slots],
         ep'.flight = ep.flight, rxbox' \in Seq(Outcomes)
  PROVE  IInv'
<1>1. Typed'
  BY DEF IInv, Typed, fixed
<1>2. NoneWhileSending' /\ ErrorsRaised' /\ EventsGone' /\ MarkersOwn' /\ CompleteGone'
  BY DEF IInv, NoneWhileSending, ErrorsRaised, EventsGone, MarkersOwn, CompleteGone,
         Sending, fixed, Quiet
<1>3. OneMarked'
  BY DEF IInv, OneMarked, Sending, fixed, Quiet, Marked
<1>4. DoneGone'
  BY DEF IInv, DoneGone, Raced, fixed
<1> QED
  BY <1>1, <1>2, <1>3, <1>4 DEF IInv

\* The controller sends the frame at the head of its FIFO.
LEMMA TransmitIInv ==
  ASSUME IInv, Transmit
  PROVE  IInv'
<1> DEFINE e == Head(txfifo)
           fits == Len(events) < EventDepth
<1>1. /\ txfifo \in Seq(Entries) /\ events \in Seq(Entries) /\ txfifo # <<>>
      /\ gone \in BOOLEAN
  BY DEF IInv, Typed, Transmit
<1>2. /\ UNCHANGED <<fixed, pc, tr, loopVars, done, alarm, aliased>>
      /\ txfifo' = Tail(txfifo) /\ irq' \subseteq wired
      /\ events' = (IF fits THEN Append(events, e) ELSE events)
      /\ gone' = (gone \/ e.own)
  BY DEF Transmit, IInv, Typed
<1>3. /\ e \in Entries /\ e = txfifo[1] /\ 1 \in DOMAIN txfifo
      /\ txfifo' \in Seq(Entries)
      /\ \A i \in DOMAIN txfifo' : i + 1 \in DOMAIN txfifo /\ txfifo'[i] = txfifo[i + 1]
                                   /\ i + 1 # 1
  BY <1>1, <1>2
<1>4. /\ events' \in Seq(Entries)
      /\ \A i \in DOMAIN events' : \/ i \in DOMAIN events /\ events'[i] = events[i]
                                   \/ events'[i] = e
  BY <1>1, <1>2, <1>3
<1> HIDE DEF e, fits
<1>5. gone' \in BOOLEAN /\ (gone => gone') /\ (e.own => gone')
  BY <1>1, <1>2, <1>3 DEF Entries
<1>6. Typed'
  BY <1>2, <1>3, <1>4, <1>5 DEF IInv, Typed, fixed, loopVars
<1>7. NoneWhileSending' /\ ErrorsRaised' /\ CompleteGone' /\ DoneGone'
  BY <1>2, <1>5 DEF IInv, NoneWhileSending, ErrorsRaised, CompleteGone, DoneGone, Raced,
                    Quiet, fixed, loopVars
<1>8. EventsGone'
  BY <1>4, <1>5 DEF IInv, EventsGone
<1>9. MarkersOwn'
  BY <1>2, <1>3, <1>4 DEF IInv, MarkersOwn, fixed
<1>10. OneMarked'
  <2> SUFFICES ASSUME Quiet PROVE OneMarked'
    BY <1>2 DEF OneMarked, Quiet, fixed
  <2>1. /\ \A i, j \in Marked(txfifo) : i = j
        /\ Marked(events) # {} => Marked(txfifo) = {}
        /\ Marked(txfifo) \cup Marked(events) # {} => tr.pending /\ pc \notin Sending
        /\ \A i \in Marked(txfifo) : txfifo[i].own
        /\ \A i \in Marked(events) : events[i].own
        /\ pc \in {"clear", "add"} => tr.pending
        /\ tr.error => ep.flight = <<>> /\ pc # "add"
    BY DEF IInv, OneMarked
  <2>2. \A i \in Marked(txfifo') : i + 1 \in Marked(txfifo)
    BY <1>3 DEF Marked
  <2>3. \A i \in Marked(events') : \/ i \in Marked(events) /\ events'[i] = events[i]
                                   \/ 1 \in Marked(txfifo) /\ events'[i] = txfifo[1]
    BY <1>3, <1>4 DEF Marked
  <2>4. \A i, j \in Marked(txfifo') : i = j
    <3>1. \A i \in Marked(txfifo') : i \in Int
      BY <1>3 DEF Marked
    <3> QED
      BY <2>1, <2>2, <3>1
  <2>5. 1 \in Marked(txfifo) => Marked(txfifo') = {}
    <3>1. \A i \in Marked(txfifo') : i + 1 # 1
      BY <1>3 DEF Marked
    <3> QED
      BY <2>1, <2>2, <3>1
  <2>6. Marked(events') # {} => Marked(txfifo') = {}
    BY <2>1, <2>2, <2>3, <2>5
  <2>7. \A i \in Marked(txfifo') : txfifo'[i].own
    BY <1>3, <2>1, <2>2 DEF Marked
  <2>8. \A i \in Marked(events') : events'[i].own
    BY <2>1, <2>3
  <2>9. Marked(txfifo') \cup Marked(events') # {} => Marked(txfifo) \cup Marked(events) # {}
    BY <2>2, <2>3
  <2>10. OneMarked' <=> (Quiet' =>
            /\ \A i, j \in Marked(txfifo') : i = j
            /\ Marked(events') # {} => Marked(txfifo') = {}
            /\ Marked(txfifo') \cup Marked(events') # {} => tr'.pending /\ pc' \notin Sending
            /\ \A i \in Marked(txfifo') : txfifo'[i].own
            /\ \A i \in Marked(events') : events'[i].own
            /\ pc' \in {"clear", "add"} => tr'.pending
            /\ tr'.error => ep'.flight = <<>> /\ pc' # "add")
    BY DEF OneMarked, Marked, Sending
  <2> QED
    BY <1>2, <2>1, <2>4, <2>6, <2>7, <2>8, <2>9, <2>10 DEF loopVars
<1> QED
  BY <1>6, <1>7, <1>8, <1>9, <1>10 DEF IInv

\* The facts of OneMarked, for the primed state too.
LEMMA OneMarkedNext ==
  ASSUME Quiet' =>
            /\ \A i, j \in Marked(txfifo') : i = j
            /\ Marked(events') # {} => Marked(txfifo') = {}
            /\ Marked(txfifo') \cup Marked(events') # {} => tr'.pending /\ pc' \notin Sending
            /\ \A i \in Marked(txfifo') : txfifo'[i].own
            /\ \A i \in Marked(events') : events'[i].own
            /\ pc' \in {"clear", "add"} => tr'.pending
            /\ tr'.error => ep'.flight = <<>> /\ pc' # "add"
  PROVE  OneMarked'
  BY DEF OneMarked, Marked, Sending

\* The application puts a frame of its own, marked 0, behind the others.
LEMMA SendForeignIInv ==
  ASSUME IInv, SendForeign
  PROVE  IInv'
<1> DEFINE e == [marker |-> 0, own |-> FALSE]
<1>1. /\ UNCHANGED <<fixed, pc, tr, loopVars, events, irq, history>>
      /\ txfifo' = Append(txfifo, e) /\ txfifo \in Seq(Entries) /\ pc = "poll"
  BY DEF SendForeign, IInv, Typed
<1>2. e \in Entries /\ e.marker = 0
  BY DEF Entries, Markers
<1> HIDE DEF e
<1>3. /\ txfifo' \in Seq(Entries)
      /\ \A i \in DOMAIN txfifo' : \/ i \in DOMAIN txfifo /\ txfifo'[i] = txfifo[i]
                                   \/ txfifo'[i].marker = 0
  BY <1>1, <1>2
<1>4. Typed'
  BY <1>1, <1>3 DEF IInv, Typed, fixed, loopVars, history
<1>5. NoneWhileSending' /\ ErrorsRaised' /\ EventsGone' /\ CompleteGone' /\ DoneGone'
  BY <1>1 DEF IInv, NoneWhileSending, ErrorsRaised, EventsGone, CompleteGone, DoneGone,
              Raced, Quiet, fixed, loopVars, history
<1>6. MarkersOwn'
  <2>1. tr.marker # 0
    BY DEF IInv, Typed, Flags
  <2> QED
    BY <1>1, <1>3, <2>1 DEF IInv, MarkersOwn, fixed, history
<1>7. OneMarked'
  <2>1. Marked(events') = Marked(events)
    BY <1>1
  <2>2. \A i \in Marked(txfifo') : i \in Marked(txfifo) /\ txfifo'[i] = txfifo[i]
    BY <1>3 DEF Marked
  <2>3. Quiet' => Quiet
    BY <1>1 DEF Quiet, fixed
  <2> QED
    BY <1>1, <2>1, <2>2, <2>3, OneMarkedNext DEF IInv, OneMarked, loopVars
<1> QED
  BY <1>4, <1>5, <1>6, <1>7 DEF IInv

\* A matching event is that of the latest frame, unless a marker came round or
\* the build and the wiring allow the race.
LEMMA MatchingOwn ==
  ASSUME IInv, NEW t, t.marker = tr.marker, Matching(t, events),
         Quiet \/ (~late /\ ~aliased)
  PROVE  gone /\ (Quiet => Marked(txfifo) = {} /\ pc \notin Sending)
<1>1. PICK i \in DOMAIN events : events[i].marker = tr.marker
  BY DEF Matching
<1>2. tr.marker # 0
  BY DEF IInv, Typed, Flags
<1>3. i \in Marked(events)
  BY <1>1, <1>2 DEF Marked
<1>4. events[i].own
  BY <1>1, <1>3 DEF IInv, OneMarked, MarkersOwn
<1> QED
  BY <1>1, <1>3, <1>4 DEF IInv, EventsGone, OneMarked

\* uds_c092_fdcan_on_tx_event(), between any two steps of the loop.
LEMMA TxEventIInv ==
  ASSUME IInv, TxEventInterrupt
  PROVE  IInv'
<1> DEFINE bad == irq \cap {"lost", "full"} # {}
           t == IF bad THEN [tr EXCEPT !.pending = FALSE, !.complete = FALSE, !.error = TRUE]
                       ELSE tr
           new == "new" \in irq
<1>1. /\ UNCHANGED <<fixed, pc, loopVars, txfifo, gone, done, aliased>>
      /\ irq' = {} /\ alarm' = (alarm \/ bad)
      /\ tr' = (IF new THEN Drained(t, events, bad) ELSE t)
      /\ events' = (IF new THEN <<>> ELSE events)
  BY DEF TxEventInterrupt
<1>2. /\ tr \in Flags /\ alarm \in BOOLEAN /\ irq \subseteq wired
      /\ events \in Seq(Entries)
  BY DEF IInv, Typed
<1>3. /\ t \in Flags /\ t.marker = tr.marker
      /\ bad => ~t.complete /\ ~t.pending
      /\ t.error => bad \/ tr.error
      /\ ~bad => t = tr
  <2>1. CASE bad
    <3> DEFINE u == [tr EXCEPT !.pending = FALSE, !.complete = FALSE, !.error = TRUE]
    <3>1. u \in Flags /\ u.marker = tr.marker /\ ~u.complete /\ ~u.pending
      BY <1>2 DEF Flags
    <3>2. t = u
      BY <2>1
    <3> HIDE DEF u, t
    <3> QED
      BY <2>1, <3>1, <3>2
  <2>2. CASE ~bad
    BY <1>2, <2>2
  <2> QED
    BY <2>1, <2>2
<1>4. bad \in BOOLEAN
  BY Zenon
<1> HIDE DEF t
<1>5. /\ tr' \in Flags /\ tr'.marker = tr.marker
      /\ tr'.complete => (~bad /\ tr.complete) \/ (new /\ Matching(t, events))
      /\ tr'.error => bad \/ tr.error
      /\ ~bad /\ ~(new /\ Matching(t, events)) => tr' = tr
  <2>1. CASE new
    <3>1. tr' = Drained(t, events, bad)
      BY <1>1, <2>1
    <3> HIDE DEF bad
    <3> QED
      BY <1>3, <1>4, <2>1, <3>1, DrainedMeans
  <2>2. CASE ~new
    <3>1. tr' = t
      BY <1>1, <2>2
    <3> HIDE DEF bad
    <3> QED
      BY <1>3, <2>2, <3>1
  <2> QED
    BY <2>1, <2>2
<1>6. Quiet => ~bad
  BY <1>2 DEF Quiet
<1>7. alarm' \in BOOLEAN /\ (alarm => alarm') /\ (bad => alarm')
  BY <1>1, <1>2
<1> HIDE DEF bad, new
<1>8. events' \in Seq(Entries) /\ (new => events' = <<>>) /\ (~new => events' = events)
  BY <1>1, <1>2
<1>9. Typed'
  BY <1>1, <1>5, <1>7, <1>8 DEF IInv, Typed, fixed, loopVars
<1>10. NoneWhileSending' /\ ErrorsRaised'
  BY <1>1, <1>5, <1>7 DEF IInv, NoneWhileSending, ErrorsRaised, loopVars
<1>11. EventsGone'
  BY <1>1, <1>8 DEF IInv, EventsGone
<1>12. MarkersOwn'
  BY <1>1, <1>5, <1>8 DEF IInv, MarkersOwn, fixed
<1>13. CompleteGone'
  BY <1>1, <1>3, <1>5, MatchingOwn DEF IInv, CompleteGone, Quiet, fixed
<1>14. DoneGone'
  BY <1>1 DEF IInv, DoneGone, Raced, fixed
<1>15. OneMarked'
  <2> SUFFICES ASSUME Quiet PROVE OneMarked'
    BY <1>1 DEF OneMarked, Quiet, fixed
  <2>1. CASE new /\ Matching(t, events)
    <3>1. Marked(txfifo) = {} /\ pc \notin Sending
      BY <1>3, <2>1, MatchingOwn
    <3>2. Marked(events') = {} /\ Marked(txfifo') = {}
      BY <1>1, <1>8, <2>1, <3>1 DEF Marked
    <3>3. tr'.error => tr.error
      BY <1>5, <1>6
    <3> QED
      BY <1>1, <3>1, <3>2, <3>3, OneMarkedNext DEF IInv, OneMarked, loopVars, Sending
  <2>2. CASE ~(new /\ Matching(t, events))
    <3>1. tr' = tr
      BY <1>5, <1>6, <2>2
    <3>2. Marked(events') \subseteq Marked(events) /\ Marked(txfifo') = Marked(txfifo)
          /\ \A i \in Marked(events') : events'[i] = events[i]
      BY <1>1, <1>8 DEF Marked
    <3> QED
      BY <1>1, <3>1, <3>2, OneMarkedNext DEF IInv, OneMarked, loopVars
  <2> QED
    BY <2>1, <2>2
<1> QED
  BY <1>9, <1>10, <1>11, <1>12, <1>13, <1>14, <1>15 DEF IInv

\* What the endpoint makes of a received frame never touches what is in flight.
LEMMA ReceivedKeeps ==
  ASSUME NEW o \in Outcomes, NEW rs,
         NEW e \in [control : BOOLEAN, pending : Slots, flight : Slots, queued : Slots]
  PROVE  LET n == Received(o, e, rs) IN
         /\ n.ep \in [control : BOOLEAN, pending : Slots, flight : Slots, queued : Slots]
         /\ n.ep.flight = e.flight
<1> DEFINE Eps == [control : BOOLEAN, pending : Slots, flight : Slots, queued : Slots]
<1>1. ASSUME NEW mark \in BOOLEAN
      PROVE  StartResponse(e, mark) \in Eps /\ StartResponse(e, mark).flight = e.flight
  <2>1. <<[reset |-> mark]>> \in Slots
    BY DEF Slots
  <2> QED
    BY <2>1 DEF StartResponse
<1>2. [e EXCEPT !.control = TRUE] \in Eps /\ [e EXCEPT !.control = TRUE].flight = e.flight
  OBVIOUS
<1>3. CASE rs # "none"
  BY <1>3 DEF Received
<1>4. CASE rs = "none" /\ o = "control"
  BY <1>2, <1>4 DEF Received
<1>5. CASE rs = "none" /\ o = "answer"
  BY <1>1, <1>5 DEF Received
<1>6. CASE rs = "none" /\ o = "reset"
  BY <1>1, <1>6 DEF Received
<1>7. CASE rs = "none" /\ o = "silent_reset"
  BY <1>7 DEF Received
<1> QED
  BY <1>3, <1>4, <1>5, <1>6, <1>7 DEF Outcomes

\* Completing a response takes it out of flight.
LEMMA CompletedTyped ==
  ASSUME NEW e \in [control : BOOLEAN, pending : Slots, flight : Slots, queued : Slots]
  PROVE  /\ Completed(e) \in [control : BOOLEAN, pending : Slots, flight : Slots,
                              queued : Slots]
         /\ Completed(e).flight = <<>>
<1>1. <<>> \in Slots
  BY DEF Slots
<1> QED
  BY <1>1 DEF Completed

\* The masked part of an iteration drains the events and may complete the
\* response in flight.
LEMMA PollIInv ==
  ASSUME IInv, Poll
  PROVE  IInv'
<1> DEFINE t == Drained(tr, events, FALSE)
           c == TxComplete(t)
           e == IF c THEN Completed(ep) ELSE ep
           r == IF c THEN ReadyReset ELSE reset
           n == IF rxbox = <<>> THEN [ep |-> e, reset |-> r] ELSE Received(rxbox[1], e, r)
           Eps == [control : BOOLEAN, pending : Slots, flight : Slots, queued : Slots]
<1>1. /\ UNCHANGED <<fixed, txfifo, irq, gone, alarm, aliased>>
      /\ pc = "poll" /\ pc' = "process" /\ rxbox' = <<>> /\ events' = <<>>
      /\ tr' = (IF c THEN [t EXCEPT !.complete = FALSE] ELSE t) /\ ep' = n.ep
      /\ done' = (done \/ (c /\ ep.flight # <<>>))
  BY DEF Poll
<1>2. /\ tr \in Flags /\ ep \in Eps /\ rxbox \in Seq(Outcomes)
      /\ done \in BOOLEAN
  BY DEF IInv, Typed
<1>3. /\ t \in Flags /\ t.marker = tr.marker
      /\ t.error => tr.error
      /\ t.complete => tr.complete \/ Matching(tr, events)
      /\ ~Matching(tr, events) => t = tr
  BY <1>2, DrainedMeans
<1>4. ep' \in Eps /\ (ep'.flight = <<>> \/ ep'.flight = ep.flight)
  <2>1. e \in Eps /\ (e.flight = <<>> \/ e.flight = ep.flight)
    BY <1>2, CompletedTyped
  <2> HIDE DEF e, r
  <2>2. CASE rxbox = <<>>
    <3>1. n.ep = e
      BY <2>2
    <3> QED
      BY <1>1, <2>1, <3>1
  <2>3. CASE rxbox # <<>>
    <3>1. rxbox[1] \in Outcomes
      BY <1>2, <2>3
    <3>2. n = Received(rxbox[1], e, r)
      BY <2>3
    <3> HIDE DEF n
    <3> QED
      BY <1>1, <2>1, <3>1, <3>2, ReceivedKeeps
  <2> QED
    BY <2>2, <2>3
<1>5. c => t.complete
  BY DEF TxComplete
<1>6. /\ tr' \in Flags /\ tr'.marker = tr.marker /\ tr'.error = t.error
      /\ tr'.pending = t.pending
      /\ tr'.complete => t.complete
  <2> HIDE DEF t, c
  <2>1. CASE c
    <3> DEFINE u == [t EXCEPT !.complete = FALSE]
    <3>1. /\ u \in Flags /\ u.marker = t.marker /\ u.error = t.error
          /\ u.pending = t.pending /\ ~u.complete
      BY <1>3 DEF Flags
    <3>2. tr' = u
      BY <1>1, <2>1
    <3> HIDE DEF u
    <3> QED
      BY <1>3, <3>1, <3>2
  <2>2. CASE ~c
    BY <1>1, <1>3, <2>2
  <2> QED
    BY <2>1, <2>2
<1> HIDE DEF t, c, e, r, n
<1>7. done' \in BOOLEAN /\ (done' => done \/ t.complete)
  BY <1>1, <1>2, <1>5
<1>8. t.complete /\ (Quiet \/ (~late /\ ~aliased)) => gone
  BY <1>1, <1>3, MatchingOwn DEF IInv, CompleteGone
<1>9. Typed'
  <2>1. rxbox' \in Seq(Outcomes) /\ events' \in Seq(Entries)
    BY <1>1
  <2> QED
    BY <1>1, <1>4, <1>6, <1>7, <2>1 DEF IInv, Typed, fixed
<1>10. NoneWhileSending' /\ EventsGone'
  BY <1>1 DEF NoneWhileSending, Sending, EventsGone
<1>11. ErrorsRaised'
  BY <1>1, <1>3, <1>6 DEF IInv, ErrorsRaised
<1>12. MarkersOwn'
  BY <1>1, <1>6 DEF IInv, MarkersOwn, fixed
<1>13. CompleteGone'
  BY <1>1, <1>6, <1>8 DEF CompleteGone, Quiet, fixed
<1>14. DoneGone'
  <2>1. ~Raced => ~late \/ Quiet
    BY DEF Raced, Quiet
  <2> QED
    BY <1>1, <1>7, <1>8, <2>1 DEF IInv, DoneGone, Raced, fixed
<1>15. OneMarked'
  <2> SUFFICES ASSUME Quiet PROVE OneMarked'
    BY <1>1 DEF OneMarked, Quiet, fixed
  <2>1. Marked(events') = {} /\ Marked(txfifo') = Marked(txfifo)
    BY <1>1 DEF Marked
  <2>2. tr'.error => ep'.flight = <<>>
    BY <1>3, <1>4, <1>6 DEF IInv, OneMarked
  <2>3. Marked(txfifo) # {} => tr'.pending
    BY <1>3, <1>6, MatchingOwn DEF IInv, OneMarked
  <2> QED
    BY <1>1, <2>1, <2>2, <2>3, OneMarkedNext DEF IInv, OneMarked, Sending
<1> QED
  BY <1>9, <1>10, <1>11, <1>12, <1>13, <1>14, <1>15 DEF IInv

\* A response given up for an error: with the error interrupts off there is none.
LEMMA AbortedIInv ==
  ASSUME IInv, Process, InFlightAborted
  PROVE  IInv'
<1>1. /\ UNCHANGED <<fixed, rxbox, irq, alarm, submitted>> /\ pc = "process" /\ pc' = "tick"
      /\ tr' = [tr EXCEPT !.error = FALSE, !.complete = FALSE, !.pending = FALSE]
      /\ ep' = [ep EXCEPT !.flight = <<>>, !.queued = <<>>]
      /\ ep.flight # <<>> /\ tr.error
  BY DEF Process, InFlightAborted
<1>2. tr' \in Flags /\ tr'.marker = tr.marker /\ ~tr'.error /\ ~tr'.complete
  BY <1>1 DEF IInv, Typed, Flags
<1>3. ep' \in [control : BOOLEAN, pending : Slots, flight : Slots, queued : Slots]
  <2>1. <<>> \in Slots
    BY DEF Slots
  <2> QED
    BY <1>1, <2>1 DEF IInv, Typed
<1>4. Typed'
  BY <1>1, <1>2, <1>3 DEF IInv, Typed, fixed, submitted
<1>5. NoneWhileSending' /\ ErrorsRaised' /\ EventsGone' /\ CompleteGone'
  BY <1>1, <1>2 DEF IInv, NoneWhileSending, ErrorsRaised, EventsGone, CompleteGone, Sending,
                    submitted
<1>6. MarkersOwn'
  BY <1>1, <1>2 DEF IInv, MarkersOwn, fixed, submitted
<1>7. DoneGone'
  BY <1>1 DEF IInv, DoneGone, Raced, fixed, submitted
<1>8. ~Quiet'
  BY <1>1 DEF IInv, OneMarked, Quiet, fixed
<1> QED
  BY <1>4, <1>5, <1>6, <1>7, <1>8 DEF IInv, OneMarked

\* send() takes a new marker, before or after the flags.
LEMMA BeginSendIInv ==
  ASSUME IInv, Process, BeginSend
  PROVE  IInv'
<1>1. /\ UNCHANGED <<fixed, rxbox, irq, alarm, ep>> /\ pc = "process" /\ pc' = "pend"
      /\ tr' = (IF late THEN tr ELSE [tr EXCEPT !.marker = NextMarker(tr.marker)])
      /\ txfifo' = Disowned(txfifo) /\ events' = Disowned(events)
      /\ gone' = FALSE /\ done' = FALSE /\ ep.flight = <<>> /\ ~tr.pending
      /\ aliased' = \E f \in {txfifo, events} : \E i \in DOMAIN f :
                       f[i].marker = NextMarker(tr.marker)
  BY DEF Process, BeginSend, HasToSend
<1>2. txfifo \in Seq(Entries) /\ events \in Seq(Entries) /\ tr \in Flags
  BY DEF IInv, Typed
<1>3. NextMarker(tr.marker) \in Markers \ {0}
  BY <1>2, NextMarkerTyped DEF Flags
<1>4. /\ tr' \in Flags /\ tr'.error = tr.error /\ tr'.pending = tr.pending
      /\ tr'.complete = tr.complete /\ (~late => tr'.marker = NextMarker(tr.marker))
  BY <1>1, <1>2, <1>3 DEF Flags
<1>5. /\ txfifo' \in Seq(Entries) /\ events' \in Seq(Entries)
      /\ DOMAIN txfifo' = DOMAIN txfifo /\ DOMAIN events' = DOMAIN events
      /\ \A i \in DOMAIN txfifo : txfifo'[i].marker = txfifo[i].marker
      /\ \A i \in DOMAIN events : /\ events'[i].marker = events[i].marker
                                  /\ events'[i].own = FALSE
  BY <1>1, <1>2, DisownedMeans
<1>6. aliased' \in BOOLEAN
  BY <1>1, Zenon
<1>7. Typed'
  <2>1. gone' \in BOOLEAN /\ done' \in BOOLEAN
    BY <1>1
  <2>2. pc' \in Sending
    BY <1>1 DEF Sending
  <2> QED
    BY <1>1, <1>4, <1>5, <1>6, <2>1, <2>2 DEF IInv, Typed, fixed
<1>8. NoneWhileSending' /\ ErrorsRaised' /\ EventsGone' /\ CompleteGone' /\ DoneGone'
  BY <1>1, <1>4, <1>5 DEF IInv, NoneWhileSending, ErrorsRaised, EventsGone, CompleteGone,
                          DoneGone
<1>9. MarkersOwn'
  <2> SUFFICES ASSUME ~late, ~aliased'
               PROVE  MarkersOwn'
    BY <1>1 DEF MarkersOwn, fixed
  <2>1. /\ \A i \in DOMAIN txfifo : txfifo[i].marker # NextMarker(tr.marker)
        /\ \A i \in DOMAIN events : events[i].marker # NextMarker(tr.marker)
    BY <1>1
  <2> QED
    BY <1>4, <1>5, <2>1 DEF MarkersOwn
<1>10. OneMarked'
  <2> SUFFICES ASSUME Quiet PROVE OneMarked'
    BY <1>1 DEF OneMarked, Quiet, fixed
  <2>1. Marked(txfifo) = {} /\ Marked(events) = {}
    BY <1>1 DEF IInv, OneMarked
  <2>2. Marked(txfifo') = {} /\ Marked(events') = {}
    BY <1>5, <2>1 DEF Marked
  <2> QED
    BY <1>1, <2>2, OneMarkedNext
<1> QED
  BY <1>7, <1>8, <1>9, <1>10 DEF IInv

\* The stores of send() that follow: the pending flag, then the two others.
LEMMA FlagsIInv ==
  ASSUME IInv, PendSend \/ ClearSend
  PROVE  IInv'
<1>1. /\ UNCHANGED <<fixed, loopVars, hwVars, gone, done, aliased>>
      /\ \/ pc = "pend" /\ pc' = "clear" /\ tr' = [tr EXCEPT !.pending = TRUE]
            /\ alarm' = FALSE
         \/ pc = "clear" /\ pc' = "add" /\ alarm' = alarm
            /\ tr' = [tr EXCEPT !.complete = FALSE, !.error = FALSE]
  BY DEF PendSend, ClearSend, Cleared, history
<1>2. /\ tr' \in Flags /\ tr'.marker = tr.marker /\ (tr.pending => tr'.pending)
      /\ pc = "pend" => tr'.pending
      /\ pc = "clear" => ~tr'.complete /\ ~tr'.error
  <2>1. tr \in Flags
    BY DEF IInv, Typed
  <2>2. CASE pc = "pend" /\ tr' = [tr EXCEPT !.pending = TRUE]
    BY <2>1, <2>2 DEF Flags
  <2>3. CASE pc = "clear" /\ tr' = [tr EXCEPT !.complete = FALSE, !.error = FALSE]
    <3>1. /\ tr' \in Flags /\ tr'.marker = tr.marker /\ tr'.pending = tr.pending
          /\ ~tr'.complete /\ ~tr'.error
      BY <2>1, <2>3 DEF Flags
    <3> QED
      BY <2>3, <3>1
  <2> QED
    BY <1>1, <2>2, <2>3
<1>3. alarm' \in BOOLEAN /\ pc' \in Sending /\ pc \in Sending /\ ep.flight = <<>>
  BY <1>1 DEF IInv, Typed, Sending, NoneWhileSending
<1>4. Typed'
  BY <1>1, <1>2, <1>3 DEF IInv, Typed, fixed, loopVars, hwVars
<1>5. NoneWhileSending' /\ ErrorsRaised' /\ EventsGone' /\ CompleteGone'
  BY <1>1, <1>2, <1>3 DEF IInv, NoneWhileSending, ErrorsRaised, EventsGone, CompleteGone,
                          loopVars, hwVars
<1>6. MarkersOwn'
  BY <1>1, <1>2 DEF IInv, MarkersOwn, fixed, hwVars
<1>7. DoneGone'
  BY <1>1 DEF IInv, DoneGone, Raced, fixed
<1>8. OneMarked'
  <2> SUFFICES ASSUME Quiet PROVE OneMarked'
    BY <1>1 DEF OneMarked, Quiet, fixed
  <2>1. Marked(txfifo) = {} /\ Marked(events) = {} /\ (pc = "clear" => tr.pending)
    BY <1>3 DEF IInv, OneMarked
  <2>2. Marked(txfifo') = {} /\ Marked(events') = {} /\ tr'.pending
    BY <1>1, <1>2, <2>1 DEF hwVars
  <2>3. ep'.flight = <<>> /\ (pc' = "add" => ~tr'.error)
    BY <1>1, <1>2, <1>3 DEF loopVars
  <2> QED
    BY <2>2, <2>3, OneMarkedNext
<1> QED
  BY <1>4, <1>5, <1>6, <1>7, <1>8 DEF IInv

\* The controller takes the frame: its entry is the only own one.
LEMMA AddedIInv ==
  ASSUME IInv, AddSend, Len(txfifo) < TxDepth
  PROVE  IInv'
<1> DEFINE m == IF late THEN NextMarker(tr.marker) ELSE tr.marker
           e == [marker |-> m, own |-> TRUE]
           Eps == [control : BOOLEAN, pending : Slots, flight : Slots, queued : Slots]
<1>1. /\ UNCHANGED <<fixed, rxbox, events, irq, gone, done, aliased, alarm>> /\ pc = "add"
      /\ txfifo' = Append(txfifo, e) /\ tr' = [tr EXCEPT !.marker = m]
      /\ \/ ep' = [ep EXCEPT !.control = FALSE]
         \/ ep' = [ep EXCEPT !.flight = ep.pending, !.pending = <<>>]
      /\ pc' \in {"tick", "check"}
  BY DEF AddSend
<1>2. txfifo \in Seq(Entries) /\ tr \in Flags /\ ep \in Eps
  BY DEF IInv, Typed
<1>3. m \in Markers \ {0} /\ (~late => m = tr.marker)
  BY <1>2, NextMarkerTyped DEF Flags
<1> HIDE DEF m
<1>4. /\ tr' \in Flags /\ tr'.marker = m /\ tr'.error = tr.error
      /\ tr'.pending = tr.pending /\ tr'.complete = tr.complete
  BY <1>1, <1>2, <1>3 DEF Flags
<1>5. e \in Entries /\ e.own
  BY <1>3 DEF Entries
<1> HIDE DEF e
<1>6. /\ txfifo' \in Seq(Entries) /\ Len(txfifo) \in Nat
      /\ \A i \in DOMAIN txfifo' : \/ i \in DOMAIN txfifo /\ txfifo'[i] = txfifo[i]
                                   \/ i = Len(txfifo) + 1 /\ txfifo'[i] = e
  BY <1>1, <1>2, <1>5
<1>7. ep' \in Eps
  <2>1. <<>> \in Slots
    BY DEF Slots
  <2> QED
    BY <1>1, <1>2, <2>1
<1>8. Typed'
  BY <1>1, <1>4, <1>6, <1>7 DEF IInv, Typed, fixed
<1>9. NoneWhileSending' /\ ErrorsRaised' /\ EventsGone' /\ CompleteGone'
  BY <1>1, <1>4 DEF IInv, NoneWhileSending, ErrorsRaised, EventsGone, CompleteGone, Sending,
                    Quiet, fixed
<1>10. MarkersOwn'
  <2> SUFFICES ASSUME ~late, ~aliased
               PROVE  MarkersOwn'
    BY <1>1 DEF MarkersOwn, fixed
  <2>1. tr'.marker = tr.marker
    BY <1>3, <1>4
  <2> QED
    BY <1>1, <1>5, <1>6, <2>1 DEF IInv, MarkersOwn
<1>11. DoneGone'
  BY <1>1 DEF IInv, DoneGone, Raced, fixed
<1>12. OneMarked'
  <2> SUFFICES ASSUME Quiet PROVE OneMarked'
    BY <1>1 DEF OneMarked, Quiet, fixed
  <2>1. Marked(txfifo) = {} /\ Marked(events) = {} /\ tr.pending /\ ~tr.error
    BY <1>1 DEF IInv, OneMarked, Sending
  <2>2. \A i \in Marked(txfifo') : i = Len(txfifo) + 1 /\ txfifo'[i] = e
    BY <1>6, <2>1 DEF Marked
  <2>3. Marked(events') = {}
    BY <1>1, <2>1
  <2>4. tr'.pending /\ ~tr'.error /\ pc' \notin Sending
    BY <1>1, <1>4, <2>1 DEF Sending
  <2> QED
    BY <1>5, <2>2, <2>3, <2>4, OneMarkedNext DEF Sending
<1> QED
  BY <1>8, <1>9, <1>10, <1>11, <1>12 DEF IInv

\* The controller refuses the frame: an error, and nothing in the FIFO.
LEMMA RefusedIInv ==
  ASSUME IInv, AddSend, ~(Len(txfifo) < TxDepth)
  PROVE  IInv'
<1> DEFINE m == IF late THEN NextMarker(tr.marker) ELSE tr.marker
           t == [tr EXCEPT !.marker = m]
<1>1. /\ UNCHANGED <<fixed, rxbox, events, irq, gone, done, aliased, txfifo, ep>>
      /\ pc = "add" /\ pc' = "tick" /\ alarm' = TRUE
      /\ tr' = [t EXCEPT !.pending = FALSE, !.error = TRUE]
  BY DEF AddSend, AddFailed
<1>2. tr \in Flags
  BY DEF IInv, Typed
<1>3. m \in Markers \ {0} /\ (~late => m = tr.marker)
  BY <1>2, NextMarkerTyped DEF Flags
<1> HIDE DEF m
<1>4. t \in Flags /\ t.marker = m /\ t.complete = tr.complete
  BY <1>2, <1>3 DEF Flags
<1> HIDE DEF t
<1>5. tr' \in Flags /\ tr'.marker = m /\ tr'.complete = tr.complete
  BY <1>1, <1>4 DEF Flags
<1>6. Typed'
  <2>1. alarm' \in BOOLEAN
    BY <1>1
  <2> QED
    BY <1>1, <1>5, <2>1 DEF IInv, Typed, fixed
<1>7. NoneWhileSending' /\ ErrorsRaised' /\ EventsGone' /\ CompleteGone'
  BY <1>1, <1>5 DEF IInv, NoneWhileSending, ErrorsRaised, EventsGone, CompleteGone, Sending,
                    Quiet, fixed
<1>8. MarkersOwn'
  BY <1>1, <1>3, <1>5 DEF IInv, MarkersOwn, fixed
<1>9. DoneGone'
  BY <1>1 DEF IInv, DoneGone, Raced, fixed
<1>10. OneMarked'
  <2> SUFFICES ASSUME Quiet PROVE OneMarked'
    BY <1>1 DEF OneMarked, Quiet, fixed
  <2>1. Marked(txfifo) = {} /\ Marked(events) = {} /\ ep.flight = <<>>
    BY <1>1 DEF IInv, OneMarked, NoneWhileSending, Sending
  <2>2. Marked(txfifo') = {} /\ Marked(events') = {} /\ ep'.flight = <<>>
    BY <1>1, <2>1
  <2> QED
    BY <1>1, <2>2, OneMarkedNext
<1> QED
  BY <1>6, <1>7, <1>8, <1>9, <1>10 DEF IInv

\* A submission may find its frame transmitted at once.
LEMMA CheckSendIInv ==
  ASSUME IInv, CheckSend
  PROVE  IInv'
<1>0. /\ UNCHANGED <<fixed, rxbox, hwVars, gone, alarm, aliased>>
      /\ pc = "check" /\ pc' = "tick"
  BY DEF CheckSend
<1>1. CASE TxComplete(tr)
  <2>1. /\ tr' = [tr EXCEPT !.complete = FALSE] /\ ep' = Completed(ep)
        /\ done' = (done \/ ep.flight # <<>>) /\ tr.complete
    BY <1>1 DEF CheckSend, TxComplete
  <2>2. /\ tr' \in Flags /\ tr'.marker = tr.marker /\ tr'.error = tr.error
        /\ tr'.pending = tr.pending /\ ~tr'.complete
    BY <2>1 DEF IInv, Typed, Flags
  <2>3. /\ ep' \in [control : BOOLEAN, pending : Slots, flight : Slots, queued : Slots]
        /\ ep'.flight = <<>>
    BY <2>1, CompletedTyped DEF IInv, Typed
  <2>4. Typed'
    <3>1. done' \in BOOLEAN
      BY <2>1, Zenon
    <3> QED
      BY <1>0, <2>2, <2>3, <3>1 DEF IInv, Typed, fixed, hwVars
  <2>5. NoneWhileSending' /\ ErrorsRaised' /\ EventsGone' /\ CompleteGone'
    BY <1>0, <2>2, <2>3 DEF IInv, NoneWhileSending, ErrorsRaised, EventsGone, CompleteGone,
                            hwVars
  <2>6. MarkersOwn'
    BY <1>0, <2>2 DEF IInv, MarkersOwn, fixed, hwVars
  <2>7. DoneGone'
    <3>1. ~Raced => ~late \/ Quiet
      BY DEF Raced, Quiet
    <3>2. ~Raced /\ ~aliased => gone
      BY <1>0, <2>1, <3>1 DEF IInv, CompleteGone
    <3> QED
      BY <1>0, <3>2 DEF DoneGone, Raced, fixed
  <2>8. OneMarked'
    BY <1>0, <2>2, <2>3, OneMarkedNext DEF IInv, OneMarked, hwVars, fixed, Quiet, Sending
  <2> QED
    BY <2>4, <2>5, <2>6, <2>7, <2>8 DEF IInv
<1>2. CASE ~TxComplete(tr)
  BY <1>0, <1>2, OtherIInv DEF CheckSend, hwVars, IInv, Typed, Sending
<1> QED
  BY <1>1, <1>2

\* The reset of the controller: everything starts over.
LEMMA RebootIInv ==
  ASSUME IInv, TickReboots
  PROVE  IInv'
<1>1. /\ UNCHANGED fixed /\ pc' = "poll" /\ tr' = Idle /\ rxbox' = <<>> /\ ep' = Empty
      /\ txfifo' = <<>> /\ events' = <<>> /\ irq' = {}
      /\ gone' = FALSE /\ done' = FALSE /\ alarm' = FALSE /\ aliased' = FALSE
  BY DEF TickReboots
<1>2. Typed'
  <2>1. Idle \in Flags
    BY DEF Idle, Flags, Markers
  <2>2. Empty \in [control : BOOLEAN, pending : Slots, flight : Slots, queued : Slots]
    BY DEF Empty, Slots
  <2>3. /\ gone' \in BOOLEAN /\ done' \in BOOLEAN /\ alarm' \in BOOLEAN
        /\ aliased' \in BOOLEAN
    BY <1>1
  <2>4. /\ rxbox' \in Seq(Outcomes) /\ txfifo' \in Seq(Entries) /\ events' \in Seq(Entries)
    BY <1>1
  <2> QED
    BY <1>1, <2>1, <2>2, <2>3, <2>4 DEF IInv, Typed, fixed
<1>3. ~tr'.error /\ ~tr'.complete
  BY <1>1 DEF Idle
<1>4. /\ NoneWhileSending' /\ ErrorsRaised' /\ EventsGone' /\ MarkersOwn' /\ DoneGone'
      /\ CompleteGone'
  BY <1>1, <1>3 DEF NoneWhileSending, ErrorsRaised, EventsGone, MarkersOwn, DoneGone,
                    CompleteGone, Sending
<1>5. OneMarked'
  <2>1. Marked(txfifo') = {} /\ Marked(events') = {}
    BY <1>1 DEF Marked
  <2> QED
    BY <1>1, <1>3, <2>1, OneMarkedNext DEF Sending
<1> QED
  BY <1>2, <1>4, <1>5 DEF IInv

\* Every step of the loop, the interrupts, the controller and the clock.
LEMMA NextIInv == IInv /\ [Next]_vars => IInv'
<1> SUFFICES ASSUME IInv, [Next]_vars PROVE IInv'
  OBVIOUS
<1> DEFINE Eps == [control : BOOLEAN, pending : Slots, flight : Slots, queued : Slots]
<1>0. ep \in Eps /\ rxbox \in Seq(Outcomes)
  BY DEF IInv, Typed
<1>1. CASE UNCHANGED vars
  BY <1>0, <1>1, OtherIInv DEF vars, fixed, loopVars, hwVars, history
<1>2. CASE ClockTick
  BY <1>0, <1>2, OtherIInv DEF ClockTick, hwVars, history
<1>3. ASSUME NEW o \in Outcomes, RxInterrupt(o) PROVE IInv'
  <2>1. rxbox' \in Seq(Outcomes)
    BY <1>0, <1>3 DEF RxInterrupt
  <2> QED
    BY <1>0, <1>3, <2>1, OtherIInv DEF RxInterrupt, hwVars, history
<1>4. CASE TickHandsOver \/ TickNothing
  <2>1. pc = "tick" /\ pc' = "poll" /\ ep' = ep /\ rxbox' = rxbox
        /\ UNCHANGED <<fixed, tr, txfifo, events, irq, gone, done, alarm, aliased>>
    BY <1>4 DEF TickHandsOver, TickNothing, loopVars, hwVars, history
  <2> QED
    BY <1>0, <2>1, OtherIInv DEF Sending
<1>5. CASE Process
  <2>1. CASE InFlightOk \/ SendRefused \/ NothingToDo
    <3>1. pc = "process" /\ pc' = "tick" /\ ep' = ep /\ rxbox' = rxbox
          /\ UNCHANGED <<fixed, tr, txfifo, events, irq, gone, done, alarm, aliased>>
      BY <1>5, <2>1 DEF Process, InFlightOk, SendRefused, NothingToDo, submitted
    <3> QED
      BY <1>0, <3>1, OtherIInv DEF Sending
  <2>2. CASE SubmitQueued
    <3>1. /\ pc = "process" /\ pc' = "tick" /\ rxbox' = rxbox
          /\ ep' = [ep EXCEPT !.pending = ep.queued, !.queued = <<>>]
          /\ UNCHANGED <<fixed, tr, txfifo, events, irq, gone, done, alarm, aliased>>
      BY <1>5, <2>2 DEF Process, SubmitQueued, submitted
    <3>2. ep' \in Eps /\ ep'.flight = ep.flight
      <4>1. <<>> \in Slots
        BY DEF Slots
      <4> QED
        BY <1>0, <3>1, <4>1
    <3> QED
      BY <1>0, <3>1, <3>2, OtherIInv DEF Sending
  <2> QED
    BY <1>5, <2>1, <2>2, AbortedIInv, BeginSendIInv DEF Process
<1> QED
  BY <1>1, <1>2, <1>3, <1>4, <1>5, TransmitIInv, SendForeignIInv, TxEventIInv, PollIInv,
     FlagsIInv, AddedIInv, RefusedIInv, CheckSendIInv, RebootIInv DEF Next

-----------------------------------------------------------------------------
(* Theorems *)

\* The inductive invariant holds in every reachable state.
THEOREM InvariantHolds == Spec => []IInv
  BY InitIInv, NextIInv, PTL DEF Spec

\* What the endpoint is told of a response is about that very frame
\* (drain_tx_events(), uds_c092_fdcan_tx_complete(), uds_c092_fdcan_tx_error()).
THEOREM OutcomeAlwaysOwn == Spec => []OutcomeIsOwn
<1>1. IInv => OutcomeIsOwn
  BY DEF IInv, DoneGone, NoneWhileSending, ErrorsRaised, Sending, OutcomeIsOwn
<1> QED
  BY <1>1, InvariantHolds, PTL
=============================================================================
