------------------------------ MODULE Services ------------------------------
(***************************************************************************)
(* The services the two applications offer beside sessions, downloads and   *)
(* trouble codes: data identifiers (0x22, 0x2E) and authentication (0x29) in *)
(* both; IO control (0x2F), ResponseOnEvent (0x86) and LinkControl (0x87) in *)
(* the F767 one; memory access (0x23, 0x3D) in the C092 one.  In front of    *)
(* them is the dispatcher of library/src/uds.c, which admits a request by    *)
(* the session and the address mode of its service.                         *)
(*                                                                         *)
(* One action is one request, from uds_server_handle_addressed() to its      *)
(* answer.  SecurityAccess is reduced to what the other services see of it,  *)
(* the active level (module SecurityAccess has its state machine).          *)
(*                                                                         *)
(* Memory access on the F767 is left out.  uds_app_init() registers the same *)
(* handlers there, but makes the CAN transport the server's context, and     *)
(* resolve_manager() takes any context for a memory manager: the regions and *)
(* limits are read from the bytes of the transport, and what 0x23 and 0x3D   *)
(* then do depends on the contents of RAM.  The C092 application passes no   *)
(* context, and its handlers find the manager of uds_memory_app.c.           *)
(***************************************************************************)
EXTENDS Integers, FiniteSets

CONSTANTS Targets,      \* the applications looked at, of "F767" and "C092"
          Default,      \* start value of each output: 50, 20 and 80
          PercentMax,   \* the largest position or duty: 100
          Values,       \* bytes a tester asks an output to take
          Writable,     \* data identifiers of s_did_table with is_writable
          ReadOnly,     \* and those without
          Regions,      \* s_app_memory_regions
          AddrEnd,      \* one past the last address: 2^32
          MaxAccess,    \* max_read_size, max_write_size: 4096
          ChallengeMod, \* period of the challenge sequence: 256
          Rates,        \* baud rates LinkControl supports
          DefaultRate,  \* UDS_LINK_DEFAULT_BAUDRATE
          MaxChanges    \* bound on requests that change something

Outputs == {"air", "egr", "iac"}
IoDids  == {"air", "egr_iac"}
Flags   == {"read", "write", "secureRead", "secureWrite", "progOnly"}
Events  == {"dtc", "did"}
Modes   == {"physical", "functional"}

Cells(r) == r.start .. r.start + r.size - 1

ASSUME ServicesAssumption ==
    /\ Targets \subseteq {"F767", "C092"}
    /\ PercentMax \in Nat /\ Values \subseteq Nat
    /\ Default \in [Outputs -> Nat] /\ Default["air"] <= PercentMax
    /\ Default["egr"] <= PercentMax
    /\ AddrEnd \in Nat /\ MaxAccess \in Nat
    /\ Regions \subseteq [start : Nat, size : Nat \ {0}, flags : SUBSET Flags]
    /\ \A r, q \in Regions : r # q => Cells(r) \cap Cells(q) = {}
    /\ \A r \in Regions : Cells(r) \subseteq 0 .. AddrEnd - 1
    /\ ChallengeMod \in Nat \ {0} /\ DefaultRate \in Rates
    /\ Writable \cap ReadOnly = {} /\ MaxChanges \in Nat

VARIABLES target,    \* the application this ECU runs
          session,   \* session of the UDS server
          level,     \* active_level of its security gate, 0 or not
          outputs,   \* position or duty of each output, and whether it is under control
          frozen,    \* the identifiers with their frozen flag set
          dids,      \* data identifiers a tester has written
          written,   \* memory cells a tester has written
          auth,      \* challenge, s_challenge_valid, s_is_authenticated
          roe,       \* UdsRoeEventState
          link,      \* s_verified, pending and active baud rate
          answer,    \* to the last request: "positive", "negative", "silent"
          earned,    \* history: the session a key was accepted in, while it lasts
          uses,      \* history: accepted proofs of each challenge in this period
          changes    \* requests so far that changed something

server  == <<session, level, earned>>
io      == <<outputs, frozen>>
stored  == <<dids, written>>
proofs  == <<auth, uses>>
vars    == <<target, server, io, stored, proofs, roe, link, answer, changes>>

S == INSTANCE UdsSession WITH S3Timeout <- 1, S3Mod <- 2
Sessions == S!Sessions

TypeOK ==
    /\ target \in Targets /\ session \in Sessions /\ level \in {0, 1}
    /\ outputs \in [Outputs -> [value : Nat, ctl : BOOLEAN]]
    /\ outputs["air"].value <= PercentMax /\ outputs["egr"].value <= PercentMax
    /\ frozen \subseteq IoDids
    /\ dids \subseteq Writable /\ written \subseteq UNION {Cells(r) : r \in Regions}
    /\ auth \in [challenge : 0 .. ChallengeMod - 1, valid : BOOLEAN,
                 authenticated : BOOLEAN]
    /\ roe \in [configured : BOOLEAN, active : BOOLEAN, event : Events \cup {"none"}]
    /\ link \in [verified : BOOLEAN, pending : Rates, active : Rates]
    /\ answer \in {"none", "positive", "negative", "silent"}
    /\ earned \in Sessions \cup {"none"} /\ uses \in [0 .. ChallengeMod - 1 -> Nat]
    /\ changes \in 0 .. MaxChanges

-----------------------------------------------------------------------------
(* Start, the service table and the answers. *)

Unused == [c \in 0 .. ChallengeMod - 1 |-> 0]

Idle(o) == [value |-> Default[o], ctl |-> FALSE]

\* uds_app_init(), uds_c092_app_init(): every back end starts over; nothing of
\* theirs is persistent.
Init ==
    /\ target \in Targets /\ session = "DEFAULT" /\ level = 0
    /\ outputs = [o \in Outputs |-> Idle(o)] /\ frozen = {}
    /\ dids = {} /\ written = {}
    /\ auth = [challenge |-> 0, valid |-> FALSE, authenticated |-> FALSE]
    /\ roe = [configured |-> FALSE, active |-> FALSE, event |-> "none"]
    /\ link = [verified |-> FALSE, pending |-> DefaultRate, active |-> DefaultRate]
    /\ answer = "none" /\ earned = "none" /\ uses = Unused /\ changes = 0

\* service_attributes: the sessions and the address modes of each service.
Attr(sid) ==
    CASE sid \in {"10", "22", "3E"} -> [sessions |-> Sessions, modes |-> Modes]
      [] sid \in {"29", "86", "87"} -> [sessions |-> Sessions, modes |-> {"physical"}]
      [] sid = "2F" -> [sessions |-> {"EXTENDED"}, modes |-> {"physical"}]
      [] sid \in {"23", "27", "2E", "3D"} ->
             [sessions |-> {"EXTENDED", "PROGRAMMING"}, modes |-> {"physical"}]

Services == {"10", "22", "23", "27", "29", "2E", "2F", "3D", "3E", "86", "87"}

\* The services the application has a handler for, memory access on the F767
\* left out.
Offered ==
    IF target = "F767" THEN Services \ {"23", "3D"} ELSE Services \ {"2F", "86", "87"}

Admitted(sid, mode) == session \in Attr(sid).sessions /\ mode \in Attr(sid).modes

\* The request reaches the handler of its service.
Handled(sid, mode) == sid \in Offered /\ Admitted(sid, mode) /\ UNCHANGED target

\* Negative answers that negative_response() keeps from a functional request.
Suppressed == {"notInSession", "notSupported", "subfunction", "outOfRange"}

Refuse(mode, nrc) ==
    /\ answer' = IF mode = "functional" /\ nrc \in Suppressed THEN "silent" ELSE "negative"
    /\ UNCHANGED changes

Accept == answer' = "positive" /\ UNCHANGED changes

Change == changes < MaxChanges /\ changes' = changes + 1 /\ answer' = "positive"

\* check_service_attributes() turns the request away.
NotAdmitted(sid, mode) ==
    /\ ~Admitted(sid, mode) /\ Refuse(mode, "notInSession")
    /\ UNCHANGED <<target, server, io, stored, proofs, roe, link>>

\* A service without a handler, a wrong length, an unknown sub-function,
\* identifier, baud rate or address format: each is refused before anything
\* changes.  Some handlers also look at the room for their answer, after they
\* changed something (0x29, 0x2F, 0x3D, 0x87).  The endpoint always offers the
\* 4095 bytes of its response buffer, and each of these answers takes a few bytes,
\* so that none of these late refusals is ever made.
Malformed(sid, mode, nrc) ==
    /\ Admitted(sid, mode) /\ Refuse(mode, nrc)
    /\ UNCHANGED <<target, server, io, stored, proofs, roe, link>>

-----------------------------------------------------------------------------
(* Sessions and SecurityAccess, as the other services see them. *)

\* Mutant: a session change leaves the security level alone.
SessionControl_KeepsLevel(mode, to) ==
    /\ Handled("10", mode)
    /\ IF S!TransitionAllowed(session, to)
       THEN session' = to /\ earned' = "none" /\ UNCHANGED level /\ Accept
       ELSE UNCHANGED server /\ Refuse(mode, "denied")
    /\ UNCHANGED <<io, stored, proofs, roe, link>>

SessionControl(mode, to) ==
    /\ Handled("10", mode)
    /\ IF S!TransitionAllowed(session, to)
       THEN session' = to /\ level' = 0 /\ earned' = "none" /\ Accept
       ELSE UNCHANGED server /\ Refuse(mode, "denied")
    /\ UNCHANGED <<io, stored, proofs, roe, link>>

S3Timeout ==
    /\ session' = "DEFAULT" /\ level' = 0 /\ earned' = "none" /\ answer' = "none"
    /\ UNCHANGED <<target, io, stored, proofs, roe, link, changes>>

\* A key that the gate accepts, or finds wrong; any other answer is Malformed.
SecurityKey(right) ==
    /\ Handled("27", "physical")
    /\ IF right
       THEN level' = 1 /\ earned' = session /\ Accept
       ELSE level' = 0 /\ earned' = "none" /\ Refuse("physical", "invalidKey")
    /\ UNCHANGED <<session, io, stored, proofs, roe, link>>

\* TesterPresent and the services that only report: any accepted 0x22, the
\* authentication configuration and the activated events.
Report(sid, mode) ==
    /\ Handled(sid, mode) /\ Accept
    /\ UNCHANGED <<server, io, stored, proofs, roe, link>>

\* A power cycle, or the reset that ends an ECUReset.
Restart ==
    /\ session' = "DEFAULT" /\ level' = 0
    /\ outputs' = [o \in Outputs |-> Idle(o)] /\ frozen' = {}
    /\ dids' = {} /\ written' = {}
    /\ auth' = [challenge |-> 0, valid |-> FALSE, authenticated |-> FALSE]
    /\ roe' = [configured |-> FALSE, active |-> FALSE, event |-> "none"]
    /\ link' = [verified |-> FALSE, pending |-> DefaultRate, active |-> DefaultRate]
    /\ answer' = "none" /\ earned' = "none" /\ uses' = Unused
    /\ UNCHANGED <<target, changes>>

-----------------------------------------------------------------------------
(* IO control.  A request names an identifier and, through its length and its *)
(* mask bytes, the outputs of that identifier it is for.                      *)

Named == {[did |-> "air", for |-> {"air"}]}
           \cup {[did |-> "egr_iac", for |-> f] : f \in SUBSET {"egr", "iac"}}

Put(new) == [o \in Outputs |-> IF o \in DOMAIN new THEN new[o] ELSE outputs[o]]

\* Mutant: control is given back for both outputs, whatever the mask says.
ReturnControl_NoMask(n) ==
    /\ outputs' = [o \in Outputs |-> IF o \in n.for THEN Idle(o)
                                    ELSE IF o = "air" THEN outputs[o]
                                    ELSE [outputs[o] EXCEPT !.ctl = FALSE]]
    /\ frozen' = frozen \ {n.did}

ReturnControl(n) ==
    /\ outputs' = Put([o \in n.for |-> Idle(o)])
    /\ frozen' = frozen \ {n.did}

ResetToDefault(n) ==
    /\ outputs' = Put([o \in n.for |-> [value |-> Default[o], ctl |-> TRUE]])
    /\ frozen' = frozen \ {n.did}

\* Freezing EGR and IAC sets their common flag and takes control of neither.
FreezeState(n) ==
    /\ outputs' = Put([o \in n.for \cap {"air"} |-> [outputs[o] EXCEPT !.ctl = TRUE]])
    /\ frozen' = frozen \cup {n.did}

\* Mutant: the duty of the EGR valve is not looked at.
InRange_AirOnly(for, v) == \A o \in for \cap {"air"} : v[o] <= PercentMax

\* Steps of the IAC valve take any byte; the others are percentages.
InRange(for, v) == \A o \in for \ {"iac"} : v[o] <= PercentMax

Adjust(n, v) ==
    /\ outputs' = Put([o \in n.for |-> [value |-> v[o], ctl |-> TRUE]])
    /\ frozen' = frozen \ {n.did}

IoControl(n) ==
    /\ Handled("2F", "physical")
    /\ \/ Change /\ ReturnControl(n)
       \/ Change /\ ResetToDefault(n)
       \/ Change /\ FreezeState(n)
       \/ \E v \in [n.for -> Values] :
            IF InRange(n.for, v)
            THEN Change /\ Adjust(n, v)
            ELSE Refuse("physical", "outOfRange") /\ UNCHANGED io
    /\ UNCHANGED <<server, stored, proofs, roe, link>>

-----------------------------------------------------------------------------
(* Data identifiers and memory. *)

WriteData(d) ==
    /\ Handled("2E", "physical")
    /\ IF d \in Writable
       THEN Change /\ dids' = dids \cup {d}
       ELSE Refuse("physical", "denied") /\ UNCHANGED dids
    /\ UNCHANGED <<server, io, written, proofs, roe, link>>

\* find_region(): the sum is 64 bits wide, and the whole range is in one region.
FindRegion(a, n) ==
    {r \in Regions : n # 0 /\ a + n <= AddrEnd /\ a >= r.start /\ a + n <= r.start + r.size}

\* validate_memory_access()
Access(a, n, right, secure) ==
    LET found == {r \in FindRegion(a, n) : right \in r.flags}
    IN  IF n = 0 \/ n > MaxAccess \/ found = {}
          THEN "outOfRange"
        ELSE IF session # "PROGRAMMING" /\ \E r \in found : "progOnly" \in r.flags
          THEN "denied"
        ELSE IF level = 0 /\ \E r \in found : secure \in r.flags
          THEN "securityDenied"
        ELSE "ok"

ReadMemory(a, n) ==
    /\ Handled("23", "physical")
    /\ LET result == Access(a, n, "read", "secureRead")
       IN  IF result = "ok" THEN Accept ELSE Refuse("physical", result)
    /\ UNCHANGED <<server, io, stored, proofs, roe, link>>

WriteMemory(a, n) ==
    /\ Handled("3D", "physical")
    /\ LET result == Access(a, n, "write", "secureWrite")
       IN  IF result = "ok"
           THEN Change /\ written' = written \cup (a .. a + n - 1)
           ELSE Refuse("physical", result) /\ UNCHANGED written
    /\ UNCHANGED <<server, io, dids, proofs, roe, link>>

-----------------------------------------------------------------------------
(* Authentication, ResponseOnEvent, LinkControl. *)

\* The next challenge of the sequence; the sequence repeats after its period.
RequestChallenge ==
    LET next == (auth.challenge + 1) % ChallengeMod
    IN  /\ auth' = [auth EXCEPT !.challenge = next, !.valid = TRUE]
        /\ uses' = IF next = 0 THEN Unused ELSE uses
        /\ Change

\* Mutant: an accepted proof leaves its challenge open.
VerifyProof_ChallengeKept(c) ==
    IF ~auth.valid
      THEN UNCHANGED proofs /\ Refuse("physical", "sequence")
    ELSE IF c # auth.challenge
      THEN /\ auth' = [auth EXCEPT !.authenticated = FALSE]
           /\ UNCHANGED uses /\ Refuse("physical", "invalidKey")
    ELSE /\ auth' = [auth EXCEPT !.authenticated = TRUE]
         /\ uses' = [uses EXCEPT ![c] = @ + 1] /\ Change

\* The proof of challenge c.  A wrong one ends an earlier authentication and
\* leaves the challenge open.
VerifyProof(c) ==
    IF ~auth.valid
      THEN UNCHANGED proofs /\ Refuse("physical", "sequence")
    ELSE IF c # auth.challenge
      THEN /\ auth' = [auth EXCEPT !.authenticated = FALSE]
           /\ UNCHANGED uses /\ Refuse("physical", "invalidKey")
    ELSE /\ auth' = [auth EXCEPT !.authenticated = TRUE, !.valid = FALSE]
         /\ uses' = [uses EXCEPT ![c] = @ + 1] /\ Change

Deauthenticate ==
    /\ auth' = [auth EXCEPT !.authenticated = FALSE, !.valid = FALSE]
    /\ UNCHANGED uses /\ Change

Authentication ==
    /\ Handled("29", "physical")
    /\ \/ RequestChallenge
       \/ \E c \in 0 .. ChallengeMod - 1 : VerifyProof(c)
       \/ Deauthenticate
    /\ UNCHANGED <<server, io, stored, roe, link>>

RoeConfigure(e) == roe' = [configured |-> TRUE, active |-> FALSE, event |-> e] /\ Change
RoeStop         == roe' = [roe EXCEPT !.active = FALSE] /\ Change
RoeClear        == roe' = [configured |-> FALSE, active |-> FALSE, event |-> "none"] /\ Change

RoeStart ==
    IF roe.configured
    THEN roe' = [roe EXCEPT !.active = TRUE] /\ Change
    ELSE Refuse("physical", "denied") /\ UNCHANGED roe

ResponseOnEvent ==
    /\ Handled("86", "physical")
    /\ \/ \E e \in Events : RoeConfigure(e)
       \/ RoeStart
       \/ RoeStop
       \/ RoeClear
    /\ UNCHANGED <<server, io, stored, proofs, link>>

VerifyLink(rate) == link' = [link EXCEPT !.pending = rate, !.verified = TRUE] /\ Change

TransitionLink ==
    IF link.verified
    THEN link' = [link EXCEPT !.active = link.pending, !.verified = FALSE] /\ Change
    ELSE Refuse("physical", "sequence") /\ UNCHANGED link

LinkControl ==
    /\ Handled("87", "physical")
    /\ \/ \E rate \in Rates : VerifyLink(rate)
       \/ TransitionLink
    /\ UNCHANGED <<server, io, stored, proofs, roe>>

-----------------------------------------------------------------------------
Next ==
    \/ \E sid \in Services, mode \in Modes :
         \/ NotAdmitted(sid, mode)
         \/ \E nrc \in {"format", "notSupported", "subfunction", "outOfRange"} :
              Malformed(sid, mode, nrc)
    \/ \E mode \in Modes, to \in Sessions : SessionControl(mode, to)
    \/ S3Timeout
    \/ \E right \in BOOLEAN : SecurityKey(right)
    \/ \E sid \in {"22", "29", "3E", "86"}, mode \in Modes : Report(sid, mode)
    \/ Restart
    \/ \E n \in Named : IoControl(n)
    \/ \E d \in Writable \cup ReadOnly : WriteData(d)
    \/ \E a \in 0 .. AddrEnd - 1, n \in 0 .. MaxAccess + 1 : ReadMemory(a, n) \/ WriteMemory(a, n)
    \/ Authentication
    \/ ResponseOnEvent
    \/ LinkControl

Spec == Init /\ [][Next]_vars

-----------------------------------------------------------------------------
(* Properties *)

\* IO control: an output that differs from its default is under a tester's
\* control, and so is a frozen air inlet door, so that returning control to the
\* ECU is always enough to undo what testers did, whatever the masks of the
\* requests in between.
OutputsAccounted ==
    /\ \A o \in Outputs : outputs[o].value # Default[o] => outputs[o].ctl
    /\ "air" \in frozen => outputs["air"].ctl

\* WriteMemoryByAddress, in the C092 application: a cell is written only through a region that may be,
\* one region a request; a programming-only one in the programming session, and
\* a secured one with a key accepted in the present session, since its start.
MemoryGuarded ==
    [][LET new == written' \ written
       IN  new # {} =>
             \E r \in Regions :
                /\ new \subseteq Cells(r) /\ "write" \in r.flags
                /\ "progOnly" \in r.flags => session = "PROGRAMMING"
                /\ "secureWrite" \in r.flags => earned = session]_vars

\* Authentication: within a period of the challenge sequence the proof of one
\* challenge is accepted once, however challenges, wrong proofs, deauthentications
\* and sessions are interleaved with it.
ProofAcceptedOnce == \A c \in 0 .. ChallengeMod - 1 : uses[c] <= 1
=============================================================================
