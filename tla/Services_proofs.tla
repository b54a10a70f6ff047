-------------------------- MODULE Services_proofs --------------------------
(***************************************************************************)
(* Theorems about Services for any outputs' defaults, memory map, period of *)
(* the challenge sequence, set of identifiers and rates, and any number of  *)
(* requests.                                                               *)
(***************************************************************************)
EXTENDS Services, TLAPS

USE ServicesAssumption

Challenges == 0 .. ChallengeMod - 1

\* A level is active only in the session its key was accepted in.
LevelEarned == level # 0 => earned = session

\* Challenges the sequence has not reached yet, and the one that is open, have
\* not been used in this period.
ChallengesFresh ==
    /\ \A c \in Challenges : c > auth.challenge => uses[c] = 0
    /\ auth.valid => uses[auth.challenge] = 0

IInv == /\ TypeOK /\ OutputsAccounted /\ LevelEarned
        /\ ProofAcceptedOnce /\ ChallengesFresh

-----------------------------------------------------------------------------
(* The operators the services are built from. *)

\* The next challenge is one more, or the first of the next period.
LEMMA NextChallenge ==
  ASSUME NEW c \in Challenges
  PROVE  (c + 1) % ChallengeMod = IF c + 1 = ChallengeMod THEN 0 ELSE c + 1
  BY DEF Challenges

\* Handing new states to some outputs leaves the others alone.
LEMMA PutKeeps ==
  ASSUME NEW new, outputs \in [Outputs -> [value : Nat, ctl : BOOLEAN]],
         \A o \in DOMAIN new : new[o] \in [value : Nat, ctl : BOOLEAN]
  PROVE  /\ Put(new) \in [Outputs -> [value : Nat, ctl : BOOLEAN]]
         /\ \A o \in Outputs :
               Put(new)[o] = IF o \in DOMAIN new THEN new[o] ELSE outputs[o]
  BY DEF Put

\* A request is for outputs of the identifier it names.
LEMMA NamedOutputs ==
  ASSUME NEW n \in Named
  PROVE  \/ n.did = "air" /\ n.for = {"air"}
         \/ n.did = "egr_iac" /\ n.for \subseteq {"egr", "iac"}
<1>1. CASE n = [did |-> "air", for |-> {"air"}]
  BY <1>1
<1>2. CASE n \in {[did |-> "egr_iac", for |-> f] : f \in SUBSET {"egr", "iac"}}
  <2>1. PICK f \in SUBSET {"egr", "iac"} : n = [did |-> "egr_iac", for |-> f]
    BY <1>2
  <2> QED
    BY <2>1
<1> QED
  BY <1>1, <1>2 DEF Named

\* A range that may be written is inside one region that may be written, and
\* the region's demands on session and level are met.
LEMMA AccessMeans ==
  ASSUME NEW a \in Nat, NEW n \in Nat, NEW right, NEW secure,
         Access(a, n, right, secure) = "ok"
  PROVE  \E r \in Regions :
            /\ right \in r.flags /\ a .. a + n - 1 \subseteq Cells(r)
            /\ "progOnly" \in r.flags => session = "PROGRAMMING"
            /\ secure \in r.flags => level # 0
<1> DEFINE found == {r \in FindRegion(a, n) : right \in r.flags}
<1>1. /\ found # {}
      /\ session # "PROGRAMMING" => \A r \in found : "progOnly" \notin r.flags
      /\ level = 0 => \A r \in found : secure \notin r.flags
  BY Zenon DEF Access
<1>2. PICK r \in found : TRUE
  BY <1>1
<1>3. r \in Regions /\ a >= r.start /\ a + n <= r.start + r.size /\ right \in r.flags
  BY DEF FindRegion
<1>4. r.start \in Nat /\ r.size \in Nat
  BY <1>3
<1>5. a .. a + n - 1 \subseteq Cells(r)
  BY <1>3, <1>4 DEF Cells
<1> HIDE DEF found
<1> QED
  BY <1>1, <1>2, <1>3, <1>5

-----------------------------------------------------------------------------
(* The invariant. *)

\* uds_app_init() establishes the invariant.
LEMMA InitIInv == Init => IInv
<1> SUFFICES ASSUME Init PROVE IInv
  OBVIOUS
<1>1. TypeOK
  BY DEF Init, TypeOK, Sessions, S!Sessions, Idle, Outputs, Unused, Events
<1>2. OutputsAccounted
  BY DEF Init, OutputsAccounted, Idle
<1>3. LevelEarned /\ ProofAcceptedOnce /\ ChallengesFresh
  BY DEF Init, LevelEarned, ProofAcceptedOnce, ChallengesFresh, Unused, Challenges
<1> QED
  BY <1>1, <1>2, <1>3 DEF IInv

\* The answers and the count of changes.
LEMMA AnswersTyped ==
  ASSUME changes \in 0 .. MaxChanges, NEW mode, NEW nrc,
         Refuse(mode, nrc) \/ Accept \/ Change
  PROVE  /\ changes' \in 0 .. MaxChanges
         /\ answer' \in {"none", "positive", "negative", "silent"}
  BY DEF Refuse, Accept, Change

\* Requests that are answered and change no state of a back end or the server.
LEMMA QuietKeeps ==
  ASSUME IInv, UNCHANGED <<target, server, io, stored, proofs, roe, link>>,
         changes' \in 0 .. MaxChanges,
         answer' \in {"none", "positive", "negative", "silent"}
  PROVE  IInv'
<1>1. TypeOK'
  BY DEF IInv, TypeOK, server, io, stored, proofs
<1> QED
  BY <1>1 DEF IInv, OutputsAccounted, LevelEarned, ProofAcceptedOnce,
              ChallengesFresh, server, io, proofs

\* Sessions, the S3 timeout and SecurityAccess.
LEMMA ServerKeeps ==
  ASSUME IInv, UNCHANGED <<target, io, stored, proofs, roe, link>>,
         session' \in Sessions, level' \in {0, 1}, earned' \in Sessions \cup {"none"},
         LevelEarned', changes' \in 0 .. MaxChanges,
         answer' \in {"none", "positive", "negative", "silent"}
  PROVE  IInv'
<1>1. TypeOK'
  BY DEF IInv, TypeOK, io, stored, proofs
<1> QED
  BY <1>1 DEF IInv, OutputsAccounted, ProofAcceptedOnce, ChallengesFresh, io, proofs

\* IO control: what it leaves to show is about the outputs only.
LEMMA OutputsKeep ==
  ASSUME IInv, UNCHANGED <<target, server, stored, proofs, roe, link>>, Change,
         outputs' \in [Outputs -> [value : Nat, ctl : BOOLEAN]],
         outputs'["air"].value <= PercentMax, outputs'["egr"].value <= PercentMax,
         frozen' \subseteq IoDids, OutputsAccounted'
  PROVE  IInv'
<1>1. TypeOK'
  BY AnswersTyped DEF IInv, TypeOK, server, stored, proofs
<1> QED
  BY <1>1 DEF IInv, LevelEarned, ProofAcceptedOnce, ChallengesFresh, server, proofs

\* IO control: each of the four requests leaves the outputs accounted for.
LEMMA IoControlIInv ==
  ASSUME IInv, NEW n \in Named, IoControl(n)
  PROVE  IInv'
<1> DEFINE States == [value : Nat, ctl : BOOLEAN]
<1>0. /\ UNCHANGED <<target, server, stored, proofs, roe, link>>
      /\ outputs \in [Outputs -> States] /\ frozen \subseteq IoDids
      /\ outputs["air"].value <= PercentMax /\ outputs["egr"].value <= PercentMax
      /\ n.did \in IoDids /\ n.for \subseteq Outputs
  BY NamedOutputs DEF IoControl, Handled, IInv, TypeOK, IoDids, Outputs
<1>1. CASE Change /\ ReturnControl(n)
  <2> DEFINE new == [o \in n.for |-> Idle(o)]
  <2>1. outputs' = Put(new) /\ frozen' = frozen \ {n.did}
    BY <1>1 DEF ReturnControl
  <2>2. \A o \in DOMAIN new : new[o] \in States
    BY <1>0 DEF Idle
  <2>3. /\ outputs' \in [Outputs -> States]
        /\ \A o \in Outputs : outputs'[o] = IF o \in n.for THEN Idle(o) ELSE outputs[o]
    <3> HIDE DEF new
    <3>1. /\ outputs' \in [Outputs -> States]
          /\ \A o \in Outputs :
                outputs'[o] = IF o \in DOMAIN new THEN new[o] ELSE outputs[o]
      BY <1>0, <2>1, <2>2, PutKeeps
    <3> QED
      BY <3>1 DEF new
  <2> HIDE DEF new
  <2>4. outputs'["air"].value <= PercentMax /\ outputs'["egr"].value <= PercentMax
    BY <1>0, <2>3 DEF Idle, Outputs
  <2>5. OutputsAccounted'
    BY <1>0, <2>1, <2>3, NamedOutputs DEF IInv, OutputsAccounted, Idle, Outputs
  <2> QED
    BY <1>0, <1>1, <2>1, <2>3, <2>4, <2>5, OutputsKeep
<1>2. CASE Change /\ ResetToDefault(n)
  <2> DEFINE new == [o \in n.for |-> [value |-> Default[o], ctl |-> TRUE]]
  <2>1. outputs' = Put(new) /\ frozen' = frozen \ {n.did}
    BY <1>2 DEF ResetToDefault
  <2>2. \A o \in DOMAIN new : new[o] \in States
    BY <1>0
  <2>3. /\ outputs' \in [Outputs -> States]
        /\ \A o \in Outputs : outputs'[o] = IF o \in n.for
                                THEN [value |-> Default[o], ctl |-> TRUE] ELSE outputs[o]
    BY <1>0, <2>1, <2>2, PutKeeps
  <2> HIDE DEF new
  <2>4. outputs'["air"].value <= PercentMax /\ outputs'["egr"].value <= PercentMax
    BY <1>0, <2>3 DEF Outputs
  <2>5. OutputsAccounted'
    BY <1>0, <2>1, <2>3 DEF IInv, OutputsAccounted, Outputs
  <2> QED
    BY <1>0, <1>2, <2>1, <2>3, <2>4, <2>5, OutputsKeep
<1>3. CASE Change /\ FreezeState(n)
  <2> DEFINE new == [o \in n.for \cap {"air"} |-> [outputs[o] EXCEPT !.ctl = TRUE]]
  <2>1. outputs' = Put(new) /\ frozen' = frozen \cup {n.did}
    BY <1>3 DEF FreezeState
  <2>2. \A o \in DOMAIN new : new[o] \in States
    BY <1>0
  <2>3. /\ outputs' \in [Outputs -> States]
        /\ \A o \in Outputs : outputs'[o] = IF o \in n.for \cap {"air"}
                                THEN [outputs[o] EXCEPT !.ctl = TRUE] ELSE outputs[o]
    <3> HIDE DEF new
    <3>1. /\ outputs' \in [Outputs -> States]
          /\ \A o \in Outputs :
                outputs'[o] = IF o \in DOMAIN new THEN new[o] ELSE outputs[o]
      BY <1>0, <2>1, <2>2, PutKeeps
    <3> QED
      BY <3>1 DEF new
  <2> HIDE DEF new
  <2>4. outputs'["air"].value <= PercentMax /\ outputs'["egr"].value <= PercentMax
    BY <1>0, <2>3 DEF Outputs
  <2>5. OutputsAccounted'
    BY <1>0, <2>1, <2>3, NamedOutputs DEF IInv, OutputsAccounted, Outputs
  <2> QED
    BY <1>0, <1>3, <2>1, <2>3, <2>4, <2>5, OutputsKeep
<1>4. ASSUME NEW v \in [n.for -> Values], InRange(n.for, v), Change, Adjust(n, v)
      PROVE  IInv'
  <2> DEFINE new == [o \in n.for |-> [value |-> v[o], ctl |-> TRUE]]
  <2>1. outputs' = Put(new) /\ frozen' = frozen \ {n.did}
    BY <1>4 DEF Adjust
  <2>2. \A o \in DOMAIN new : new[o] \in States
    BY <1>0
  <2>3. /\ outputs' \in [Outputs -> States]
        /\ \A o \in Outputs : outputs'[o] = IF o \in n.for
                                THEN [value |-> v[o], ctl |-> TRUE] ELSE outputs[o]
    BY <1>0, <2>1, <2>2, PutKeeps
  <2> HIDE DEF new
  <2>4. outputs'["air"].value <= PercentMax /\ outputs'["egr"].value <= PercentMax
    BY <1>0, <1>4, <2>3 DEF Outputs, InRange
  <2>5. OutputsAccounted'
    BY <1>0, <2>1, <2>3 DEF IInv, OutputsAccounted, Outputs
  <2> QED
    BY <1>0, <1>4, <2>1, <2>3, <2>4, <2>5, OutputsKeep
<1>5. CASE Refuse("physical", "outOfRange") /\ UNCHANGED io
  BY <1>0, <1>5, QuietKeeps, AnswersTyped DEF IInv, TypeOK
<1> QED
  BY <1>1, <1>2, <1>3, <1>4, <1>5 DEF IoControl

\* Data identifiers: only writable ones are noted.
LEMMA WriteDataIInv ==
  ASSUME IInv, NEW d, WriteData(d)
  PROVE  IInv'
<1>1. /\ changes' \in 0 .. MaxChanges
      /\ answer' \in {"none", "positive", "negative", "silent"}
  BY AnswersTyped DEF IInv, TypeOK, WriteData
<1>2. /\ dids' \subseteq Writable
      /\ UNCHANGED <<target, server, io, written, proofs, roe, link>>
  BY DEF IInv, TypeOK, WriteData, Handled
<1>3. TypeOK'
  BY <1>1, <1>2 DEF IInv, TypeOK, server, io, proofs
<1> QED
  BY <1>2, <1>3 DEF IInv, OutputsAccounted, LevelEarned, ProofAcceptedOnce,
                    ChallengesFresh, server, io, proofs

\* Memory: what is written belongs to a region.
LEMMA WriteMemoryIInv ==
  ASSUME IInv, NEW a \in Nat, NEW n \in Nat, WriteMemory(a, n)
  PROVE  IInv'
<1> DEFINE result == Access(a, n, "write", "secureWrite")
<1>1. /\ changes' \in 0 .. MaxChanges
      /\ answer' \in {"none", "positive", "negative", "silent"}
  <2>1. Change \/ Refuse("physical", result)
    BY DEF WriteMemory
  <2> QED
    BY <2>1, AnswersTyped DEF IInv, TypeOK
<1>2. UNCHANGED <<target, server, io, dids, proofs, roe, link>>
  BY DEF WriteMemory, Handled
<1>3. written' \subseteq UNION {Cells(r) : r \in Regions}
  <2>1. CASE result = "ok"
    <3>1. PICK r \in Regions : a .. a + n - 1 \subseteq Cells(r)
      BY <2>1, AccessMeans
    <3>2. written' = written \cup (a .. a + n - 1)
      BY <2>1 DEF WriteMemory
    <3> QED
      BY <3>1, <3>2 DEF IInv, TypeOK
  <2>2. CASE result # "ok"
    BY <2>2 DEF WriteMemory, IInv, TypeOK
  <2> QED
    BY <2>1, <2>2
<1>4. TypeOK'
  BY <1>1, <1>2, <1>3 DEF IInv, TypeOK, server, io, proofs
<1> QED
  BY <1>2, <1>4 DEF IInv, OutputsAccounted, LevelEarned, ProofAcceptedOnce,
                    ChallengesFresh, server, io, proofs

\* At the start of a period nothing has been used.
LEMMA NoneUsed ==
  ASSUME \A c \in Challenges : uses'[c] = 0, auth'.challenge \in Challenges
  PROVE  ProofAcceptedOnce' /\ ChallengesFresh'
<1>1. ProofAcceptedOnce'
  BY DEF ProofAcceptedOnce, Challenges
<1>2. ChallengesFresh'
  BY Zenon DEF ChallengesFresh
<1> QED
  BY <1>1, <1>2

\* Authentication: an accepted proof uses up a challenge that was not used.
LEMMA AuthenticationIInv ==
  ASSUME IInv, Authentication
  PROVE  IInv'
<1> DEFINE Auths == [challenge : Challenges, valid : BOOLEAN, authenticated : BOOLEAN]
<1>0. /\ auth \in Auths /\ uses \in [Challenges -> Nat]
      /\ UNCHANGED <<target, server, io, stored, roe, link>>
  BY DEF IInv, TypeOK, Authentication, Handled, Challenges
<1>1. /\ changes' \in 0 .. MaxChanges
      /\ answer' \in {"none", "positive", "negative", "silent"}
  BY AnswersTyped DEF IInv, TypeOK, Authentication, RequestChallenge, VerifyProof,
                      Deauthenticate
<1> DEFINE Kept == /\ auth' \in Auths /\ uses' \in [Challenges -> Nat]
                   /\ ProofAcceptedOnce' /\ ChallengesFresh'
<1>2. /\ \A c \in Challenges : uses[c] <= 1 /\ (c > auth.challenge => uses[c] = 0)
      /\ auth.valid => uses[auth.challenge] = 0
  BY DEF IInv, ProofAcceptedOnce, ChallengesFresh, Challenges
<1>3. ASSUME RequestChallenge PROVE Kept
  <2> DEFINE next == (auth.challenge + 1) % ChallengeMod
  <2>1. next \in Challenges /\ (next = 0 \/ next = auth.challenge + 1)
    BY <1>0, NextChallenge DEF Challenges
  <2>2. /\ auth' = [auth EXCEPT !.challenge = next, !.valid = TRUE]
        /\ uses' = IF next = 0 THEN Unused ELSE uses
    BY <1>3 DEF RequestChallenge
  <2> HIDE DEF next
  <2>3. auth' \in Auths /\ auth'.challenge = next
    BY <1>0, <2>1, <2>2
  <2>4. CASE next = 0
    <3>1. uses' \in [Challenges -> Nat] /\ \A c \in Challenges : uses'[c] = 0
      BY <2>2, <2>4 DEF Unused, Challenges
    <3> QED
      BY <2>3, <3>1, NoneUsed
  <2>5. CASE next # 0
    <3>1. uses' = uses /\ next = auth.challenge + 1
      BY <2>1, <2>2, <2>5
    <3>2. auth.challenge \in Int /\ next \in Int /\ \A c \in Challenges : c \in Int
      BY <1>0, <2>1 DEF Challenges
    <3>3. \A c \in Challenges : c >= next => uses[c] = 0
      BY <1>2, <3>1, <3>2
    <3>4. uses'[auth'.challenge] = 0 /\ \A c \in Challenges : c > auth'.challenge => uses'[c] = 0
      BY <2>1, <2>3, <3>1, <3>2, <3>3
    <3>5. ProofAcceptedOnce' /\ ChallengesFresh'
      <4>1. ProofAcceptedOnce'
        BY <1>2, <3>1 DEF ProofAcceptedOnce, Challenges
      <4>2. ChallengesFresh'
        BY <3>4, Zenon DEF ChallengesFresh
      <4> QED
        BY <4>1, <4>2
    <3> QED
      BY <1>0, <2>3, <3>1, <3>5
  <2> QED
    BY <2>4, <2>5
<1>4. ASSUME NEW c \in Challenges, VerifyProof(c)
      PROVE  Kept
  <2>1. CASE UNCHANGED proofs
    BY <1>0, <1>2, <2>1 DEF proofs, ProofAcceptedOnce, ChallengesFresh, Challenges
  <2>2. CASE auth' = [auth EXCEPT !.authenticated = FALSE] /\ UNCHANGED uses
    <3>1. auth' \in Auths /\ auth'.challenge = auth.challenge /\ auth'.valid = auth.valid
      BY <1>0, <2>2
    <3> QED
      BY <1>0, <1>2, <2>2, <3>1 DEF ProofAcceptedOnce, ChallengesFresh, Challenges
  <2>3. CASE /\ auth.valid /\ c = auth.challenge
             /\ auth' = [auth EXCEPT !.authenticated = TRUE, !.valid = FALSE]
             /\ uses' = [uses EXCEPT ![c] = @ + 1]
    <3>1. auth' \in Auths /\ auth'.challenge = c /\ ~auth'.valid
      BY <1>0, <2>3
    <3>2. /\ uses' \in [Challenges -> Nat] /\ uses'[c] = 1
          /\ \A k \in Challenges : k # c => uses'[k] = uses[k]
      BY <1>0, <1>2, <2>3
    <3> QED
      BY <1>2, <2>3, <3>1, <3>2 DEF ProofAcceptedOnce, ChallengesFresh, Challenges
  <2> HIDE DEF Kept
  <2>4. CASE ~auth.valid
    BY <1>4, <2>1, <2>4 DEF VerifyProof
  <2>5. CASE auth.valid /\ c # auth.challenge
    BY <1>4, <2>2, <2>5 DEF VerifyProof
  <2>6. CASE auth.valid /\ c = auth.challenge
    BY <1>4, <2>3, <2>6 DEF VerifyProof
  <2> QED
    BY <2>4, <2>5, <2>6
<1>5. ASSUME Deauthenticate PROVE Kept
  <2>1. /\ auth' \in Auths /\ auth'.challenge = auth.challenge /\ ~auth'.valid
        /\ UNCHANGED uses
    <3>1. auth' = [auth EXCEPT !.authenticated = FALSE, !.valid = FALSE] /\ uses' = uses
      BY <1>5 DEF Deauthenticate
    <3> QED
      BY <1>0, <3>1
  <2> QED
    BY <1>0, <1>2, <2>1 DEF ProofAcceptedOnce, ChallengesFresh, Challenges
<1>6. Kept
  <2> HIDE DEF Kept
  <2> QED
    BY <1>3, <1>4, <1>5 DEF Authentication, Challenges
<1>7. TypeOK'
  BY <1>0, <1>1, <1>6 DEF IInv, TypeOK, server, io, stored, Challenges
<1> QED
  BY <1>0, <1>6, <1>7 DEF IInv, OutputsAccounted, LevelEarned, server, io

\* ResponseOnEvent and LinkControl keep records of their own.
LEMMA RecordsIInv ==
  ASSUME IInv, ResponseOnEvent \/ LinkControl
  PROVE  IInv'
<1>1. /\ changes' \in 0 .. MaxChanges
      /\ answer' \in {"none", "positive", "negative", "silent"}
  BY AnswersTyped DEF IInv, TypeOK, ResponseOnEvent, RoeConfigure, RoeStart, RoeStop,
                      RoeClear, LinkControl, VerifyLink, TransitionLink
<1>2. UNCHANGED <<target, server, io, stored, proofs>>
  BY DEF ResponseOnEvent, LinkControl, Handled
<1>3. roe' \in [configured : BOOLEAN, active : BOOLEAN, event : Events \cup {"none"}]
  <2> DEFINE Setups == [configured : BOOLEAN, active : BOOLEAN,
                        event : Events \cup {"none"}]
  <2>1. roe \in Setups
    BY DEF IInv, TypeOK
  <2>2. ASSUME NEW e \in Events, RoeConfigure(e) PROVE roe' \in Setups
    BY <2>2 DEF RoeConfigure
  <2>3. CASE RoeStart \/ RoeStop
    BY <2>1, <2>3 DEF RoeStart, RoeStop
  <2>4. CASE RoeClear
    BY <2>4 DEF RoeClear
  <2> QED
    BY <2>1, <2>2, <2>3, <2>4 DEF ResponseOnEvent, LinkControl
<1>4. link' \in [verified : BOOLEAN, pending : Rates, active : Rates]
  BY DEF IInv, TypeOK, ResponseOnEvent, LinkControl, VerifyLink, TransitionLink
<1>5. TypeOK'
  BY <1>1, <1>2, <1>3, <1>4 DEF IInv, TypeOK, server, io, stored, proofs
<1> QED
  BY <1>2, <1>5 DEF IInv, OutputsAccounted, LevelEarned, ProofAcceptedOnce,
                    ChallengesFresh, server, io, proofs

\* Every request, timeout and restart keeps the invariant.
LEMMA NextIInv == IInv /\ [Next]_vars => IInv'
<1> SUFFICES ASSUME IInv, [Next]_vars PROVE IInv'
  OBVIOUS
<1>0. session \in Sessions /\ earned \in Sessions \cup {"none"} /\ level \in {0, 1}
      /\ changes \in 0 .. MaxChanges
  BY DEF IInv, TypeOK
<1>1. ASSUME NEW sid \in Services, NEW mode \in Modes, NotAdmitted(sid, mode)
      PROVE  IInv'
  BY <1>0, <1>1, QuietKeeps, AnswersTyped DEF NotAdmitted
<1>2. ASSUME NEW sid \in Services, NEW mode \in Modes, NEW nrc,
             Malformed(sid, mode, nrc)
      PROVE  IInv'
  BY <1>0, <1>2, QuietKeeps, AnswersTyped DEF Malformed
<1>3. ASSUME NEW mode \in Modes, NEW to \in Sessions, SessionControl(mode, to)
      PROVE  IInv'
  <2>1. Accept \/ Refuse(mode, "denied")
    BY <1>3 DEF SessionControl
  <2>2. /\ session' \in Sessions /\ level' \in {0, 1} /\ earned' \in Sessions \cup {"none"}
        /\ LevelEarned' /\ UNCHANGED <<target, io, stored, proofs, roe, link>>
    BY <1>0, <1>3 DEF SessionControl, Handled, server, IInv, LevelEarned
  <2> QED
    BY <1>0, <2>1, <2>2, ServerKeeps, AnswersTyped
<1>4. CASE S3Timeout
  <2>1. /\ session' \in Sessions /\ level' = 0 /\ earned' = "none" /\ answer' = "none"
        /\ UNCHANGED <<target, io, stored, proofs, roe, link, changes>>
    BY <1>4 DEF S3Timeout, Sessions, S!Sessions
  <2> QED
    BY <1>0, <2>1, ServerKeeps DEF LevelEarned
<1>5. ASSUME NEW right \in BOOLEAN, SecurityKey(right)
      PROVE  IInv'
  <2>1. Accept \/ Refuse("physical", "invalidKey")
    BY <1>5 DEF SecurityKey
  <2>2. /\ session' \in Sessions /\ level' \in {0, 1} /\ earned' \in Sessions \cup {"none"}
        /\ LevelEarned' /\ UNCHANGED <<target, io, stored, proofs, roe, link>>
    BY <1>0, <1>5 DEF SecurityKey, Handled, LevelEarned
  <2> QED
    BY <1>0, <2>1, <2>2, ServerKeeps, AnswersTyped
<1>6. ASSUME NEW sid, NEW mode \in Modes, Report(sid, mode)
      PROVE  IInv'
  BY <1>0, <1>6, QuietKeeps, AnswersTyped DEF Report, Handled
<1>7. CASE Restart
  <2>1. TypeOK'
    BY <1>0, <1>7
       DEF IInv, Restart, TypeOK, Sessions, S!Sessions, Idle, Outputs, Unused, Events
  <2>2. OutputsAccounted'
    BY <1>7 DEF Restart, OutputsAccounted, Idle
  <2>3. LevelEarned' /\ ProofAcceptedOnce' /\ ChallengesFresh'
    BY <1>7 DEF Restart, LevelEarned, ProofAcceptedOnce, ChallengesFresh, Unused,
                Challenges
  <2> QED
    BY <2>1, <2>2, <2>3 DEF IInv
<1>8. ASSUME NEW a \in 0 .. AddrEnd - 1, NEW n \in 0 .. MaxAccess + 1, ReadMemory(a, n)
      PROVE  IInv'
  <2>1. Accept \/ Refuse("physical", Access(a, n, "read", "secureRead"))
    BY <1>8 DEF ReadMemory
  <2> QED
    BY <1>0, <1>8, <2>1, QuietKeeps, AnswersTyped DEF ReadMemory, Handled
<1>9. CASE UNCHANGED vars
  BY <1>9, <1>0, QuietKeeps DEF vars, IInv, TypeOK
<1> QED
  BY <1>1, <1>2, <1>3, <1>4, <1>5, <1>6, <1>7, <1>8, <1>9, IoControlIInv, WriteDataIInv,
     WriteMemoryIInv, AuthenticationIInv, RecordsIInv DEF Next

-----------------------------------------------------------------------------
(* Theorems *)

\* The inductive invariant holds in every reachable state.
THEOREM InvariantHolds == Spec => []IInv
  BY InitIInv, NextIInv, PTL DEF Spec

\* Every record of the services keeps its type: outputs stay within their
\* ranges, and only writable identifiers and memory are ever written.
THEOREM TypeCorrect == Spec => []TypeOK
  BY InvariantHolds, PTL DEF IInv

\* Returning control undoes whatever testers did to the outputs
\* (uds_io_control_app_handler()).
THEOREM OutputsAlwaysAccounted == Spec => []OutputsAccounted
  BY InvariantHolds, PTL DEF IInv

\* No proof is accepted twice within a period of the challenges
\* (handle_auth_verify_proof()).
THEOREM ProofsAcceptedOnce == Spec => []ProofAcceptedOnce
  BY InvariantHolds, PTL DEF IInv

\* A cell of the C092's memory is written only through one region whose rights, session
\* and key allow it (validate_memory_access()).
THEOREM MemoryAlwaysGuarded == Spec => MemoryGuarded
<1> DEFINE new == written' \ written
           Allowed == new # {} =>
             \E r \in Regions :
                /\ new \subseteq Cells(r) /\ "write" \in r.flags
                /\ "progOnly" \in r.flags => session = "PROGRAMMING"
                /\ "secureWrite" \in r.flags => earned = session
<1>1. ASSUME IInv, [Next]_vars
      PROVE  Allowed
  <2>1. ASSUME NEW a \in 0 .. AddrEnd - 1, NEW n \in 0 .. MaxAccess + 1, WriteMemory(a, n)
        PROVE  Allowed
    <3>1. CASE Access(a, n, "write", "secureWrite") = "ok"
      <4>1. PICK r \in Regions :
               /\ "write" \in r.flags /\ a .. a + n - 1 \subseteq Cells(r)
               /\ "progOnly" \in r.flags => session = "PROGRAMMING"
               /\ "secureWrite" \in r.flags => level # 0
        BY <3>1, AccessMeans
      <4>2. written' = written \cup (a .. a + n - 1)
        BY <2>1, <3>1 DEF WriteMemory
      <4>3. new \subseteq Cells(r)
        BY <4>1, <4>2
      <4>4. "secureWrite" \in r.flags => earned = session
        BY <1>1, <4>1, Zenon DEF IInv, LevelEarned
      <4> QED
        BY <4>1, <4>3, <4>4
    <3>2. CASE Access(a, n, "write", "secureWrite") # "ok"
      BY <2>1, <3>2 DEF WriteMemory
    <3> QED
      BY <3>1, <3>2
  <2>2. CASE written' \subseteq written
    BY <2>2
  <2> HIDE DEF Allowed
  <2> QED
    BY <1>1, <2>1, <2>2
       DEF Next, vars, stored, NotAdmitted, Malformed, SessionControl, S3Timeout, SecurityKey,
           Report, Restart, IoControl, WriteData, ReadMemory, Authentication,
           ResponseOnEvent, LinkControl
<1>2. IInv /\ [Next]_vars => [Allowed]_vars
  BY <1>1
<1>3. Spec => [][Allowed]_vars
  BY <1>2, InvariantHolds, PTL DEF Spec
<1> QED
  BY <1>3 DEF MemoryGuarded
=============================================================================
