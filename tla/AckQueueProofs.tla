--------------------------- MODULE AckQueueProofs ---------------------------
(***************************************************************************)
(* What holds of the acknowledgement queue for every depth, retry limit    *)
(* and number of acknowledgements, whatever the number of threads that     *)
(* poll.                                                                   *)
(***************************************************************************)
EXTENDS AckQueue, TLAPS

(* TypeOK in two parts, the flags and the rest: the one is for Zenon, the  *)
(* other for the SMT solver.                                               *)
Flags == connected \in BOOLEAN /\ used \in [Slot -> BOOLEAN]

Table == ack \in [Slot -> Acks \cup {None}] /\ retries \in [Slot -> Nat]

Progress ==
  /\ pc \in [Threads -> Steps]
  /\ idx \in [Threads -> 0 .. Depth]
  /\ snap \in [Threads -> Acks \cup {None}]

History ==
  /\ next \in 1 .. MaxAcks + 1
  /\ sent \subseteq Acks /\ resent \subseteq Acks /\ refused \subseteq Acks
  /\ fails \in [Acks -> Nat]

(* A slot in use holds an acknowledgement; so does the snapshot of a       *)
(* thread that publishes it, and the thread's index is one of a slot.      *)
SlotFilled == \A i \in Slot : used[i] => ack[i] \in Acks

Busy == {"publish", "freed", "failed"}

SnapshotHeld ==
  \A t \in Threads : pc[t] \in Busy => idx[t] \in Slot /\ snap[t] \in Acks

Shared == Flags /\ Table /\ Progress /\ History /\ SlotFilled
            /\ SnapshotHeld /\ AttemptLeft

(* What both promises rest on holds at the boot ...                        *)
LEMMA SharedInit == Init => Shared
<1> SUFFICES ASSUME Init PROVE Shared
  OBVIOUS
<1>1. Flags
  BY DEF Init, Flags
<1> USE DepthAssumption, AckBoundAssumption DEF Init, Slot, Acks, None
<1>2. Table /\ Progress /\ History
  BY DEF Table, Progress, History, Steps
<1>3. SlotFilled /\ AttemptLeft
  BY DEF SlotFilled, AttemptLeft
<1>4. SnapshotHeld
  BY DEF SnapshotHeld, Busy
<1> QED
  BY <1>1, <1>2, <1>3, <1>4 DEF Shared

(* ... and is kept by every step.                                          *)
LEMMA SharedStep == Shared /\ [Next]_vars => Shared'
<1> SUFFICES ASSUME Shared, [Next]_vars PROVE Shared'
  OBVIOUS
<1>a. Flags /\ Table /\ Progress /\ History /\ SlotFilled
       /\ SnapshotHeld /\ AttemptLeft
  BY DEF Shared
<1> USE DepthAssumption, AckBoundAssumption
<1>1. CASE Connect
  <2>1. Flags'
    BY <1>a, <1>1 DEF Flags, Connect, slots
  <2>2. /\ Table' /\ Progress' /\ History'
        /\ SlotFilled' /\ AttemptLeft' /\ SnapshotHeld'
    BY <1>a, <1>1 DEF Table, Progress, History, SlotFilled, AttemptLeft,
       SnapshotHeld, Connect, slots, threads, hist
  <2> QED
    BY <2>1, <2>2 DEF Shared
<1>2. CASE Disconnect
  <2>1. Flags'
    BY <1>a, <1>2 DEF Flags, Disconnect, slots
  <2>2. /\ Table' /\ Progress' /\ History'
        /\ SlotFilled' /\ AttemptLeft' /\ SnapshotHeld'
    BY <1>a, <1>2 DEF Table, Progress, History, SlotFilled, AttemptLeft,
       SnapshotHeld, Disconnect, slots, threads, hist
  <2> QED
    BY <2>1, <2>2 DEF Shared
<1>3. ASSUME NEW t \in Threads, QueueAck(t) PROVE Shared'
  <2>1. Flags'
    BY <1>a, <1>3 DEF Flags, QueueAck
  <2>2. Table'
    BY <1>a, <1>3 DEF Table, History, Acks, QueueAck, Free
  <2>3. History'
    BY <1>a, <1>3 DEF History, QueueAck, hist
  <2>4. SlotFilled' /\ AttemptLeft'
    BY <1>a, <1>3 DEF Table, History, SlotFilled, AttemptLeft, Acks,
       QueueAck
  <2>5. Progress' /\ SnapshotHeld'
    BY <1>a, <1>3 DEF Progress, SnapshotHeld, QueueAck, threads
  <2> QED
    BY <2>1, <2>2, <2>3, <2>4, <2>5 DEF Shared
<1>4. ASSUME NEW t \in Threads, RefuseAck(t) PROVE Shared'
  <2>1. History'
    BY <1>a, <1>4 DEF History, Acks, RefuseAck
  <2>2. /\ Flags' /\ Table' /\ Progress'
        /\ SlotFilled' /\ AttemptLeft' /\ SnapshotHeld'
    BY <1>a, <1>4 DEF Flags, Table, Progress, SlotFilled, AttemptLeft,
       SnapshotHeld, RefuseAck, slots, threads
  <2> QED
    BY <2>1, <2>2 DEF Shared
<1>5. ASSUME NEW t \in Threads, DrainStart(t) PROVE Shared'
  <2>1. Progress'
    BY <1>a, <1>5 DEF Progress, Steps, DrainStart
  <2>2. SnapshotHeld'
    BY <1>a, <1>5 DEF SlotFilled, SnapshotHeld, Busy, DrainStart
  <2>3. Flags' /\ Table' /\ History' /\ SlotFilled' /\ AttemptLeft'
    BY <1>a, <1>5 DEF Flags, Table, History, SlotFilled, AttemptLeft,
       DrainStart, slots, hist
  <2> QED
    BY <2>1, <2>2, <2>3 DEF Shared
<1>6. ASSUME NEW t \in Threads, DrainEnd(t) PROVE Shared'
  <2>1. Progress'
    BY <1>a, <1>6 DEF Progress, Steps, DrainEnd
  <2>2. SnapshotHeld'
    BY <1>a, <1>6 DEF SlotFilled, SnapshotHeld, Busy, DrainEnd
  <2>3. Flags' /\ Table' /\ History' /\ SlotFilled' /\ AttemptLeft'
    BY <1>a, <1>6 DEF Flags, Table, History, SlotFilled, AttemptLeft,
       DrainEnd, slots, hist
  <2> QED
    BY <2>1, <2>2, <2>3 DEF Shared
<1>7. ASSUME NEW t \in Threads, SkipFree(t) PROVE Shared'
  <2>1. Progress'
    BY <1>a, <1>7 DEF Progress, SkipFree
  <2>2. SnapshotHeld'
    BY <1>a, <1>7 DEF SlotFilled, SnapshotHeld, Busy, SkipFree
  <2>3. Flags' /\ Table' /\ History' /\ SlotFilled' /\ AttemptLeft'
    BY <1>a, <1>7 DEF Flags, Table, History, SlotFilled, AttemptLeft,
       SkipFree, slots, hist
  <2> QED
    BY <2>1, <2>2, <2>3 DEF Shared
<1>8. ASSUME NEW t \in Threads, Snapshot(t) PROVE Shared'
  <2>1. Progress'
    BY <1>a, <1>8 DEF Progress, Steps, Snapshot, SlotFilled, Slot
  <2>2. SnapshotHeld'
    BY <1>a, <1>8 DEF Progress, SlotFilled, SnapshotHeld, Snapshot,
       SlotFilled, Slot
  <2>3. Flags' /\ Table' /\ History' /\ SlotFilled' /\ AttemptLeft'
    BY <1>a, <1>8 DEF Flags, Table, History, SlotFilled, AttemptLeft,
       Snapshot, slots, hist
  <2> QED
    BY <2>1, <2>2, <2>3 DEF Shared
<1>9. ASSUME NEW t \in Threads, PublishOK(t) PROVE Shared'
  <2>1. Progress'
    BY <1>a, <1>9 DEF Progress, Steps, PublishOK
  <2>2. History'
    BY <1>a, <1>9 DEF History, SnapshotHeld, Busy, PublishOK
  <2>3. SnapshotHeld'
    BY <1>a, <1>9 DEF SlotFilled, SnapshotHeld, Busy, PublishOK
  <2>4. Flags' /\ Table' /\ SlotFilled' /\ AttemptLeft'
    BY <1>a, <1>9 DEF Flags, Table, SlotFilled, AttemptLeft, PublishOK,
       slots
  <2> QED
    BY <2>1, <2>2, <2>3, <2>4 DEF Shared
<1>10. ASSUME NEW t \in Threads, PublishFails(t) PROVE Shared'
  <2>1. Flags'
    BY <1>a, <1>10 DEF Flags, PublishFails, slots
  <2>2. Progress'
    BY <1>a, <1>10 DEF Progress, Steps, PublishFails
  <2>3. History'
    BY <1>a, <1>10 DEF History, SnapshotHeld, Busy, PublishFails
  <2>4. SnapshotHeld'
    BY <1>a, <1>10 DEF SlotFilled, SnapshotHeld, Busy, PublishFails
  <2>5. Table' /\ SlotFilled' /\ AttemptLeft'
    BY <1>a, <1>10 DEF Table, SlotFilled, AttemptLeft, PublishFails, slots
  <2> QED
    BY <2>1, <2>2, <2>3, <2>4, <2>5 DEF Shared
<1>11. ASSUME NEW t \in Threads, FreeSlot(t) PROVE Shared'
  <2>1. Flags'
    BY <1>a, <1>11 DEF Flags, FreeSlot
  <2>2. Progress'
    BY <1>a, <1>11 DEF Progress, SnapshotHeld, Steps, Busy, FreeSlot,
       NextSlot, SlotFilled, Slot
  <2>3. SlotFilled' /\ AttemptLeft'
    BY <1>a, <1>11 DEF SlotFilled, AttemptLeft, FreeSlot
  <2>4. SnapshotHeld'
    BY <1>a, <1>11 DEF Progress, SlotFilled, SnapshotHeld, Busy, FreeSlot,
       NextSlot
  <2>5. Table' /\ History'
    BY <1>a, <1>11 DEF Table, History, FreeSlot, hist
  <2> QED
    BY <2>1, <2>2, <2>3, <2>4, <2>5 DEF Shared
<1>12. ASSUME NEW t \in Threads, CountFailure(t) PROVE Shared'
  <2>1. Flags'
    BY <1>a, <1>12 DEF Flags, CountFailure
  <2>2. Table'
    <3>1. retries' = [retries EXCEPT ![idx[t]] = @ + 1] /\ ack' = ack
      BY <1>12 DEF CountFailure
    <3>2. idx[t] \in Slot
      BY <1>a, <1>12 DEF CountFailure, SnapshotHeld, Busy
    <3>3. retries' \in [Slot -> Nat]
      BY <1>a, <3>1, <3>2 DEF Table
    <3> QED
      BY <1>a, <3>1, <3>3 DEF Table
  <2>3. Progress'
    BY <1>a, <1>12 DEF Progress, SnapshotHeld, Steps, Busy, CountFailure,
       NextSlot, SlotFilled, Slot
  <2>4. SlotFilled' /\ AttemptLeft'
    BY <1>a, <1>12 DEF Flags, Table, SlotFilled, AttemptLeft, CountFailure
  <2>5. SnapshotHeld'
    BY <1>a, <1>12 DEF Progress, SlotFilled, SnapshotHeld, Busy,
       CountFailure, NextSlot
  <2>6. History'
    BY <1>a, <1>12 DEF History, CountFailure, hist
  <2> QED
    BY <2>1, <2>2, <2>3, <2>4, <2>5, <2>6 DEF Shared
<1>13. CASE UNCHANGED vars
  BY <1>a, <1>13 DEF Shared, vars, slots, threads, hist, Flags, Table,
     Progress, History, SlotFilled, SnapshotHeld, AttemptLeft
<1> QED
  BY <1>1, <1>2, <1>3, <1>4, <1>5, <1>6, <1>7, <1>8, <1>9, <1>10, <1>11,
     <1>12, <1>13 DEF Next, DrainStep

(* Whatever the number of threads in transport_poll, the queue keeps its   *)
(* types: no index outside the table, no snapshot of an empty slot.        *)
THEOREM TypeCorrect == Spec => []TypeOK
<1>1. Shared => TypeOK
  BY DEF Shared, Flags, Table, Progress, History, TypeOK
<1> QED
  BY <1>1, SharedInit, SharedStep, PTL DEF Spec

(* Whatever the number of threads in transport_poll, a slot in use has an  *)
(* attempt left: two threads that charge the same slot cannot take it past *)
(* the limit and leave it in use.                                          *)
THEOREM AttemptsLeft == Spec => []AttemptLeft
<1>1. Shared => AttemptLeft
  BY DEF Shared
<1> QED
  BY <1>1, SharedInit, SharedStep, PTL DEF Spec

(* Both together: the table is sound, however many threads drain it. *)
THEOREM SoundTable == Spec => []Consistent
<1>1. TypeOK /\ AttemptLeft => Consistent
  BY DEF Consistent
<1> QED
  BY <1>1, TypeCorrect, AttemptsLeft, PTL

-----------------------------------------------------------------------------
(* One thread *)

(* One thread polls: the case of an application that leaves publishing to  *)
(* the cloud thread.                                                       *)
OnePoller == \A t, u \in Threads : t = u

(* The acknowledgements in use are different, numbered below the next one, *)
(* and so are those that were published; none was published twice.         *)
Numbering ==
  /\ \A i \in Slot : used[i] => ack[i] < next
  /\ \A i, j \in Slot : used[i] /\ used[j] /\ ack[i] = ack[j] => i = j
  /\ \A a \in sent : a < next
  /\ \A a \in Acks : a >= next => fails[a] = 0

(* The slot a thread has taken a snapshot of still holds it; an            *)
(* acknowledgement that was published is only in a slot about to be freed. *)
Holding ==
  /\ \A t \in Threads : pc[t] \in Busy => used[idx[t]] /\ ack[idx[t]] = snap[t]
  /\ \A t \in Threads : pc[t] = "freed" => snap[t] \in sent
  /\ \A t \in Threads : pc[t] \in {"publish", "failed"} => snap[t] \notin sent
  /\ \A i \in Slot : used[i] /\ ack[i] \in sent =>
       \E t \in Threads : pc[t] = "freed" /\ idx[t] = i
  /\ resent = {}

(* The retries of a slot are the failures of its acknowledgement, but for  *)
(* one that has still to be charged.                                       *)
Charged ==
  /\ \A i \in Slot :
       used[i] /\ (\A t \in Threads : pc[t] = "failed" => idx[t] # i) =>
         fails[ack[i]] = retries[i]
  /\ \A t \in Threads :
       pc[t] = "failed" => fails[snap[t]] = retries[idx[t]] + 1

Ledger == Numbering /\ Holding /\ Charged /\ NoSilentLoss

(* The ledger of the answers holds at the boot ...                         *)
LEMMA LedgerInit == Init => Ledger
<1> SUFFICES ASSUME Init PROVE Ledger
  OBVIOUS
<1> USE DepthAssumption, AckBoundAssumption DEF Init, Slot, Acks, None, Busy
<1>1. Numbering /\ Holding
  BY DEF Numbering, Holding
<1>2. Charged
  BY DEF Charged
<1>3. NoSilentLoss
  BY DEF NoSilentLoss
<1> QED
  BY <1>1, <1>2, <1>3 DEF Ledger

(* Steps that leave the table alone and neither begin nor end a publish.   *)
LEMMA LedgerFrame ==
  ASSUME Ledger, UNCHANGED <<slots, next, hist>>,
         \A t \in Threads :
           /\ (pc'[t] \in Busy) = (pc[t] \in Busy)
           /\ pc[t] \in Busy => UNCHANGED <<pc[t], idx[t], snap[t]>>
  PROVE  Ledger'
<1>1. Numbering'
  BY DEF Ledger, Numbering, slots, hist
<1>2. Holding'
  BY DEF Ledger, Holding, Busy, slots, hist
<1>3. Charged'
  BY DEF Ledger, Charged, Busy, slots, hist
<1>4. NoSilentLoss'
  BY DEF Ledger, NoSilentLoss, Queued, GivenUp, slots, hist
<1> QED
  BY <1>1, <1>2, <1>3, <1>4 DEF Ledger

(* ... and is kept by every step, if one thread polls.                     *)
LEMMA LedgerStep ==
  ASSUME OnePoller PROVE Shared /\ Ledger /\ [Next]_vars => Ledger'
<1> SUFFICES ASSUME Shared, Ledger, [Next]_vars PROVE Ledger'
  OBVIOUS
<1>a. /\ Flags /\ Table /\ Progress /\ History /\ SlotFilled /\ SnapshotHeld
      /\ Numbering /\ Holding /\ Charged /\ NoSilentLoss
  BY DEF Shared, Ledger
<1>b. ASSUME NEW t \in Threads PROVE \A u \in Threads : u = t
  BY OnePoller DEF OnePoller
<1> USE DepthAssumption, AckBoundAssumption
<1>1. CASE Connect \/ Disconnect \/ UNCHANGED vars
  BY <1>1, LedgerFrame DEF Connect, Disconnect, vars, threads
<1>2. ASSUME NEW t \in Threads, DrainStart(t) \/ DrainEnd(t) \/ SkipFree(t)
      PROVE  Ledger'
  BY <1>a, <1>2, LedgerFrame DEF Progress, Busy, DrainStart, DrainEnd,
     SkipFree
<1>3. ASSUME NEW t \in Threads, QueueAck(t) PROVE Ledger'
  <2>1. PICK i \in Slot :
          /\ ~ used[i]
          /\ used' = [used EXCEPT ![i] = TRUE]
          /\ ack' = [ack EXCEPT ![i] = next]
          /\ retries' = [retries EXCEPT ![i] = 0]
    BY <1>3 DEF QueueAck, Free
  <2>2. /\ next \in Acks /\ next' = next + 1 /\ pc[t] = "idle"
        /\ UNCHANGED <<pc, idx, snap, hist>>
    BY <1>a, <1>3 DEF QueueAck, threads, History, Acks
  <2>3. \A j \in Slot : /\ (used'[j] <=> j = i \/ used[j])
                        /\ ack'[j] = IF j = i THEN next ELSE ack[j]
                        /\ retries'[j] = IF j = i THEN 0 ELSE retries[j]
    BY <1>a, <2>1 DEF Flags, Table
  <2>4. \A u \in Threads : pc'[u] = "idle"
    BY <1>b, <2>2
  <2>5. next \notin sent /\ fails[next] = 0
    BY <1>a, <2>2 DEF Numbering, History
  <2>6. Numbering'
    BY <1>a, <2>2, <2>3, <2>5 DEF Numbering, SlotFilled, History, Acks,
       hist
  <2>7. Holding'
    BY <1>a, <2>2, <2>3, <2>4, <2>5 DEF Holding, Busy, hist
  <2>8. Charged'
    BY <1>a, <2>2, <2>3, <2>4, <2>5 DEF Charged, hist
  <2>9. NoSilentLoss'
    BY <1>a, <2>1, <2>2, <2>3 DEF NoSilentLoss, Queued, GivenUp, History,
       hist
  <2> QED
    BY <2>6, <2>7, <2>8, <2>9 DEF Ledger
<1>4. ASSUME NEW t \in Threads, RefuseAck(t) PROVE Ledger'
  <2>1. /\ next' = next + 1 /\ refused' = refused \cup {next}
        /\ UNCHANGED <<slots, threads, sent, resent, fails>>
    BY <1>4 DEF RefuseAck
  <2>2. Numbering'
    BY <1>a, <2>1 DEF Numbering, SlotFilled, History, Acks, slots
  <2>3. Holding' /\ Charged'
    BY <1>a, <2>1 DEF Holding, Charged, slots, threads
  <2>4. NoSilentLoss'
    BY <1>a, <2>1 DEF NoSilentLoss, Queued, GivenUp, History, slots
  <2> QED
    BY <2>2, <2>3, <2>4 DEF Ledger
<1>5. ASSUME NEW t \in Threads, Snapshot(t) PROVE Ledger'
  <2>1. /\ idx[t] \in Slot /\ used[idx[t]] /\ pc[t] = "scan"
        /\ pc'[t] = "publish" /\ snap'[t] = ack[idx[t]]
        /\ UNCHANGED <<slots, idx, next, hist>>
    BY <1>a, <1>5 DEF Snapshot, Progress, SlotFilled, Slot
  <2>2. ack[idx[t]] \notin sent
    BY <1>a, <1>b, <2>1 DEF Holding
  <2>3. Holding'
    BY <1>a, <1>b, <2>1, <2>2 DEF Holding, slots, hist
  <2>4. Numbering'
    BY <1>a, <2>1 DEF Numbering, slots, hist
  <2>5. Charged'
    BY <1>a, <1>b, <2>1 DEF Charged, slots, hist
  <2>6. NoSilentLoss'
    BY <1>a, <2>1 DEF NoSilentLoss, Queued, GivenUp, slots, hist
  <2> QED
    BY <2>3, <2>4, <2>5, <2>6 DEF Ledger
<1>6. ASSUME NEW t \in Threads, PublishOK(t) PROVE Ledger'
  <2>1. /\ idx[t] \in Slot /\ snap[t] \in Acks
        /\ used[idx[t]] /\ ack[idx[t]] = snap[t] /\ snap[t] \notin sent
    BY <1>a, <1>6 DEF PublishOK, SnapshotHeld, Holding, Busy
  <2>2. /\ pc[t] = "publish" /\ pc'[t] = "freed"
        /\ sent' = sent \cup {snap[t]} /\ resent' = {}
        /\ UNCHANGED <<slots, idx, snap, next, refused, fails>>
    BY <1>a, <1>6, <2>1 DEF PublishOK, Progress, Holding
  <2>3. Numbering'
    BY <1>a, <2>1, <2>2 DEF Numbering, slots
  <2>4. Holding'
    BY <1>a, <1>b, <2>1, <2>2 DEF Numbering, Holding, slots
  <2>5. Charged'
    BY <1>a, <1>b, <2>2 DEF Charged, slots
  <2>6. NoSilentLoss'
    BY <1>a, <2>2 DEF NoSilentLoss, Queued, GivenUp, slots
  <2> QED
    BY <2>3, <2>4, <2>5, <2>6 DEF Ledger
<1>7. ASSUME NEW t \in Threads, PublishFails(t) PROVE Ledger'
  <2>1. /\ idx[t] \in Slot /\ snap[t] \in Acks
        /\ used[idx[t]] /\ ack[idx[t]] = snap[t] /\ snap[t] \notin sent
    BY <1>a, <1>7 DEF PublishFails, SnapshotHeld, Holding, Busy
  <2>2. /\ pc[t] = "publish" /\ pc'[t] = "failed"
        /\ fails' = [fails EXCEPT ![snap[t]] = @ + 1]
        /\ UNCHANGED <<slots, idx, snap, next, sent, resent, refused>>
    BY <1>a, <1>7 DEF PublishFails, Progress
  <2>3. fails[snap[t]] = retries[idx[t]]
    BY <1>a, <1>b, <2>1, <2>2 DEF Charged
  <2>4. /\ fails'[snap[t]] = retries[idx[t]] + 1
        /\ \A a \in Acks : a # snap[t] => fails'[a] = fails[a]
        /\ \A a \in Acks : fails[a] \in Nat /\ fails'[a] \in Nat
        /\ \A a \in Acks : fails'[a] >= fails[a]
    BY <1>a, <2>1, <2>2, <2>3 DEF History
  <2>5. Numbering'
    BY <1>a, <2>1, <2>2, <2>4 DEF Numbering, slots, SlotFilled, History,
       Acks
  <2>6. Holding'
    BY <1>a, <1>b, <2>1, <2>2 DEF Holding, slots
  <2>7. Charged'
    <3>1. ASSUME NEW i \in Slot, used'[i],
                 \A u \in Threads : pc'[u] = "failed" => idx'[u] # i
          PROVE  fails'[ack'[i]] = retries'[i]
      <4>1. i # idx[t]
        BY <2>2, <3>1
      <4>2. ack[i] # snap[t] /\ ack[i] \in Acks
        BY <1>a, <2>1, <2>2, <3>1, <4>1 DEF Numbering, SlotFilled,
           slots
      <4>3. fails[ack[i]] = retries[i]
        BY <1>a, <1>b, <2>2, <3>1 DEF Charged, slots
      <4> QED
        BY <2>2, <2>4, <4>2, <4>3 DEF slots
    <3> QED
      BY <1>b, <2>2, <2>4, <3>1 DEF Charged, slots
  <2>8. NoSilentLoss'
    BY <1>a, <2>2, <2>4 DEF NoSilentLoss, Queued, GivenUp, slots
  <2> QED
    BY <2>5, <2>6, <2>7, <2>8 DEF Ledger
<1>8. ASSUME NEW t \in Threads, FreeSlot(t) PROVE Ledger'
  <2>1. /\ idx[t] \in Slot /\ used[idx[t]]
        /\ ack[idx[t]] = snap[t] /\ snap[t] \in sent
    BY <1>a, <1>8 DEF FreeSlot, SnapshotHeld, Holding, Busy
  <2>2. /\ pc[t] = "freed" /\ pc'[t] = "scan"
        /\ UNCHANGED <<ack, retries, next, hist>>
    BY <1>a, <1>8 DEF FreeSlot, NextSlot, Progress
  <2>3. \A i \in Slot : (used'[i] <=> used[i] /\ i # idx[t])
    BY <1>a, <1>8 DEF FreeSlot, Flags
  <2>4. Numbering'
    BY <1>a, <2>2, <2>3 DEF Numbering, hist
  <2>5. Holding'
    BY <1>a, <1>b, <2>1, <2>2, <2>3 DEF Holding, Busy, hist
  <2>6. Charged'
    BY <1>a, <1>b, <2>2, <2>3 DEF Charged, hist
  <2>7. NoSilentLoss'
    BY <1>a, <2>1, <2>2, <2>3 DEF NoSilentLoss, Queued, GivenUp, hist
  <2> QED
    BY <2>4, <2>5, <2>6, <2>7 DEF Ledger
<1>9. ASSUME NEW t \in Threads, CountFailure(t) PROVE Ledger'
  <2>1. /\ idx[t] \in Slot /\ snap[t] \in Acks
        /\ used[idx[t]] /\ ack[idx[t]] = snap[t] /\ snap[t] \notin sent
        /\ fails[snap[t]] = retries[idx[t]] + 1
    BY <1>a, <1>9 DEF CountFailure, SnapshotHeld, Holding, Charged, Busy
  <2>2. /\ pc[t] = "failed" /\ pc'[t] = "scan"
        /\ UNCHANGED <<ack, next, hist>>
    BY <1>a, <1>9 DEF CountFailure, NextSlot, Progress
  <2>3. \A i \in Slot :
          /\ (used'[i] <=> used[i] /\ (i = idx[t] => retries[i] + 1 < RetryMax))
          /\ retries'[i] = IF i = idx[t] THEN retries[i] + 1 ELSE retries[i]
    BY <1>a, <1>9, <2>1 DEF CountFailure, Flags, Table
  <2>4. Numbering'
    BY <1>a, <2>2, <2>3 DEF Numbering, hist
  <2>5. Holding'
    BY <1>a, <1>b, <2>1, <2>2, <2>3 DEF Holding, Busy, hist
  <2>6. Charged'
    BY <1>a, <1>b, <2>1, <2>2, <2>3 DEF Charged, hist
  <2>7. NoSilentLoss'
    <3>1. \A i \in Slot : used[i] => used'[i] \/ ack[i] \in GivenUp'
      BY <1>a, <2>1, <2>2, <2>3 DEF GivenUp, Table, hist
    <3> QED
      BY <1>a, <2>2, <3>1 DEF NoSilentLoss, Queued, GivenUp, hist
  <2> QED
    BY <2>4, <2>5, <2>6, <2>7 DEF Ledger
<1> QED
  BY <1>1, <1>2, <1>3, <1>4, <1>5, <1>6, <1>7, <1>8, <1>9 DEF Next,
     DrainStep

(* With one thread polling, an acknowledgement that has left the queue was *)
(* published, or failed as often as the limit says: for every depth of the *)
(* queue and every limit.                                                  *)
THEOREM LossFree == ASSUME OnePoller PROVE Spec => []NoSilentLoss
<1>1. Init => Shared /\ Ledger
  BY SharedInit, LedgerInit
<1>2. Shared /\ Ledger /\ [Next]_vars => (Shared /\ Ledger)'
  BY SharedStep, LedgerStep, OnePoller
<1>3. Shared /\ Ledger => NoSilentLoss
  BY DEF Ledger
<1> QED
  BY <1>1, <1>2, <1>3, PTL DEF Spec

(* With one thread polling, no acknowledgement is in two slots, and none   *)
(* is published again once the socket has taken it.                        *)
THEOREM NoDoublePublish == ASSUME OnePoller PROVE Spec => []PublishedOnce
<1>1. Init => Shared /\ Ledger
  BY SharedInit, LedgerInit
<1>2. Shared /\ Ledger /\ [Next]_vars => (Shared /\ Ledger)'
  BY SharedStep, LedgerStep, OnePoller
<1>3. Shared /\ Ledger => PublishedOnce
  BY DEF Ledger, Numbering, Holding, PublishedOnce
<1> QED
  BY <1>1, <1>2, <1>3, PTL DEF Spec

=============================================================================
