---------------------------- MODULE BoundedFifo ----------------------------
(***************************************************************************)
(* What src/offline_buffer.h promises of the offline buffer, without       *)
(* flash, indices or power: a queue of at most N payloads that loses its   *)
(* oldest one when a push finds it full, and whose payloads are delivered  *)
(* from its head.  Delivery and removal are two steps, so a payload can    *)
(* be delivered more than once, and one that is too old may be removed     *)
(* undelivered.                                                            *)
(***************************************************************************)
EXTENDS Naturals, Sequences

CONSTANT N

VARIABLES queue, newest, lastSent

fifoVars == <<queue, newest, lastSent>>

Init == queue = <<>> /\ newest = 0 /\ lastSent = 0

Push ==
  /\ Len(queue) < N
  /\ newest' = newest + 1
  /\ queue' = Append(queue, newest + 1)
  /\ UNCHANGED lastSent

Evict ==
  /\ Len(queue) = N
  /\ queue' = Tail(queue)
  /\ UNCHANGED <<newest, lastSent>>

Deliver ==
  /\ queue # <<>>
  /\ lastSent' = Head(queue)
  /\ UNCHANGED <<queue, newest>>

Remove ==
  /\ queue # <<>>
  /\ queue' = Tail(queue)
  /\ UNCHANGED <<newest, lastSent>>

Clear ==
  /\ queue' = <<>>
  /\ UNCHANGED <<newest, lastSent>>

Next == Push \/ Evict \/ Deliver \/ Remove \/ Clear

Spec == Init /\ [][Next]_fifoVars

=============================================================================
