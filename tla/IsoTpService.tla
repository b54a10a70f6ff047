---------------------------- MODULE IsoTpService ----------------------------
(***************************************************************************)
(* What ISO-TP promises the layer above it on a bus that may lose frames:  *)
(* messages come out whole, in the order they were submitted, each at most *)
(* once.  A message may be lost; it is never shortened, padded, spliced    *)
(* with another one, duplicated or overtaken.                              *)
(***************************************************************************)
EXTENDS Naturals, Sequences

VARIABLES sent,   \* the payloads submitted so far
          got,    \* the payloads handed to the receiving application
          last    \* number of the submission delivered last

Init == sent = <<>> /\ got = <<>> /\ last = 0

Submit == /\ Len(sent') = Len(sent) + 1
          /\ SubSeq(sent', 1, Len(sent)) = sent
          /\ UNCHANGED <<got, last>>

Deliver == \E n \in last + 1 .. Len(sent) :
              /\ got' = Append(got, sent[n])
              /\ last' = n
              /\ UNCHANGED sent

Next == Submit \/ Deliver

Spec == Init /\ [][Next]_<<sent, got, last>>
=============================================================================
