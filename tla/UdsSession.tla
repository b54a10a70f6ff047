----------------------------- MODULE UdsSession -----------------------------
(***************************************************************************)
(* The part of UdsServer (library/src/uds.c) that decides sessions and ECU *)
(* resets: DiagnosticSessionControl, ECUReset, TesterPresent, one service  *)
(* with a long answer, the S3 timeout and the deferred reset.  A request is *)
(* the service and sub-function it names; a response is a sequence of opaque*)
(* bytes that only says which answer it is and whether it fits one frame.  *)
(***************************************************************************)
EXTENDS Integers, Sequences

CONSTANTS S3Timeout,   \* s3_server_timeout_ms
          S3Mod        \* the clock wraps here

ASSUME S3Assumption == /\ S3Timeout \in Nat \ {0}
                       /\ S3Mod \in Nat /\ S3Mod > S3Timeout

Sessions == {"DEFAULT", "EXTENDED", "PROGRAMMING"}

\* reset_type: pending_reset_subfunction, "none" for the resets that a session
\* change announces and "hard" for an accepted ECUReset.
ServerInit(now) == [session |-> "DEFAULT", reset_pending |-> FALSE,
                    reset_ready |-> FALSE, reset_type |-> "none",
                    last_activity |-> now]

\* The safety session exists but no transition leads into it.
TransitionAllowed(from, to) ==
    \/ from = to
    \/ from = "DEFAULT" /\ to = "EXTENDED"
    \/ from = "EXTENDED" /\ to \in {"DEFAULT", "PROGRAMMING"}
    \/ from = "PROGRAMMING" /\ to = "DEFAULT"

\* A session change towards Programming, or back to Default, announces a reset
\* that the application is to carry out.
RequestSession(s, to, now) ==
    LET announces == to = "PROGRAMMING" \/ (to = "DEFAULT" /\ s.session # "DEFAULT")
    IN  [session       |-> to,
         reset_pending |-> announces \/ s.reset_pending,
         reset_ready   |-> s.reset_ready,
         reset_type    |-> IF announces THEN "none" ELSE s.reset_type,
         last_activity |-> now]

\* A request: the operation and whether it suppresses the positive response.
RequestsFor(ops) == {q \in [op : ops, spr : BOOLEAN] : q.op = "READ" => ~q.spr}

Short(answer) == <<answer, answer>>
Long(answer)  == <<answer, answer, answer, answer>>

Reply(s, response) == [srv |-> s, response |-> response]

\* service_ecu_reset() for the one type the application prepares, hardReset.
RequestReset(s) == [session |-> s.session, reset_pending |-> TRUE,
                    reset_ready |-> FALSE, reset_type |-> "hard",
                    last_activity |-> s.last_activity]

\* uds_server_handle_addressed(): <<>> is UDS_RESULT_NO_RESPONSE.  The services
\* modelled here are allowed in every session and with both address modes; a
\* denied session is answered with conditionsNotCorrect in both modes.
Handle(s, q, now) ==
    LET live          == [s EXCEPT !.last_activity = now]
        positive(a)   == IF q.spr THEN <<>> ELSE Short(a)
    IN  IF q.op \in Sessions
          THEN IF TransitionAllowed(s.session, q.op)
                 THEN Reply(RequestSession(live, q.op, now), positive("SESSION"))
                 ELSE Reply(live, Short("NEGATIVE"))
        ELSE IF q.op = "RESET"
          THEN Reply(RequestReset(live), positive("RESET_OK"))
        ELSE IF q.op = "PRESENT"
          THEN Reply(live, positive("PRESENT"))
        ELSE Reply(live, Long("DATA"))

\* uds_server_complete_reset() and uds_server_clear_reset().
CompleteReset(s) == IF s.reset_pending THEN [s EXCEPT !.reset_ready = TRUE] ELSE s

ClearReset(s) == [session |-> s.session, reset_pending |-> FALSE,
                  reset_ready |-> FALSE, reset_type |-> "none",
                  last_activity |-> s.last_activity]

\* uds_server_tick() executes a reset that is ready; otherwise it watches S3.
ResetDue(s) == s.reset_pending /\ s.reset_ready

ServerTick(s, now) ==
    IF (now - s.last_activity) % S3Mod >= S3Timeout
    THEN [s EXCEPT !.session = "DEFAULT", !.last_activity = now]
    ELSE s
=============================================================================
