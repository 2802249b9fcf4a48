------------------------------ MODULE Mailbox ------------------------------
(***************************************************************************)
(* What the cloud may count on when it sends commands to a device, without *)
(* connections, threads, buffers or a ring of identifiers: each message is *)
(* owed to the device until it has run or is given up with a reason; it    *)
(* runs once, and once more at most for every acknowledgement that the     *)
(* network has lost.                                                       *)
(***************************************************************************)
EXTENDS Naturals

CONSTANT Msg

VARIABLES
  owed,    \* messages that may still run
  ran,     \* how often each has run
  lost,    \* how many of its acknowledgements were lost
  dropped  \* messages given up before they ran

boxVars == <<owed, ran, lost, dropped>>

Init ==
  /\ owed = Msg
  /\ ran = [m \in Msg |-> 0] /\ lost = [m \in Msg |-> 0]
  /\ dropped = {}

Answered(m) == ran[m] > 0 \/ m \in dropped

(* A message runs.  Only one that has lost more acknowledgements than it   *)
(* has runs before this one can come yet another time.                     *)
Run(m) ==
  /\ m \in owed /\ ran[m] <= lost[m]
  /\ ran' = [ran EXCEPT ![m] = @ + 1]
  /\ \/ owed' = owed \ {m}
     \/ ran[m] < lost[m] /\ owed' = owed
  /\ UNCHANGED <<lost, dropped>>

(* A message is taken and not run: it is too old, or there is no memory.   *)
GiveUp(m) ==
  /\ m \in owed
  /\ dropped' = dropped \cup {n \in {m} : ran[n] = 0}
  /\ owed' \in {owed, owed \ {m}}
  /\ UNCHANGED <<ran, lost>>

(* A repetition of one that has run or was given up. *)
Ignore(m) ==
  /\ m \in owed /\ Answered(m)
  /\ owed' = owed \ {m}
  /\ UNCHANGED <<ran, lost, dropped>>

(* The connection or the device fails: acknowledgements are lost, so that  *)
(* their messages come again, and messages in hand are cut off.            *)
Fail(unacked, cut) ==
  /\ cut \subseteq owed \ unacked
  /\ lost' = [m \in Msg |-> lost[m] + IF m \in unacked THEN 1 ELSE 0]
  /\ owed' = (owed \cup unacked) \ cut
  /\ dropped' = dropped \cup {m \in cut : ran[m] = 0}
  /\ UNCHANGED ran

Next ==
  \/ \E m \in Msg : Run(m) \/ GiveUp(m) \/ Ignore(m)
  \/ \E unacked, cut \in SUBSET Msg : Fail(unacked, cut)

Spec == Init /\ [][Next]_boxVars

=============================================================================
