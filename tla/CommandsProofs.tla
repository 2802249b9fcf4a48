--------------------------- MODULE CommandsProofs ---------------------------
(***************************************************************************)
(* Proofs about Commands: for any messages, any number of slots in the     *)
(* ring of identifiers and any number of faults.                           *)
(***************************************************************************)
EXTENDS Commands, SequenceTheorems, TLAPS

-----------------------------------------------------------------------------
(* The inductive invariant *)

BrokerTypes ==
  /\ stored \subseteq Msg /\ given \subseteq Msg /\ pubacks \subseteq Msg
  /\ lost \in [Msg -> Nat]

LinkFlag == up \in BOOLEAN

Busy == {"puback", "message", "reboot"}

(* A thread that handles a message knows which, and the buffer holds one.  *)
HandlerTypes ==
  /\ payload_buf \in Msg \cup {NoMsg}
  /\ pc \in [Pollers -> Steps]
  /\ msg \in [Pollers -> Msg \cup {NoMsg}]
  /\ \A t \in Pollers : pc[t] \in Busy => msg[t] \in Msg /\ payload_buf \in Msg

SeenTypes ==
  /\ s_seen_ids \in [0 .. Slots - 1 -> Command \cup {NoMsg}]
  /\ s_seen_head \in 0 .. Slots - 1
  /\ log \in Seq(Command) /\ Len(log) <= Slots + 1

DoneTypes ==
  /\ acks \subseteq Msg
  /\ faults \in 0 .. MaxFault
  /\ ran \in [Msg -> Nat]
  /\ dropped \subseteq Msg

(* The slot written k identifiers ago. *)
Back(k) == IF k <= s_seen_head THEN s_seen_head - k
                               ELSE s_seen_head + Slots - k

(* The ring holds the identifiers that were recorded last. *)
RingIsLog ==
  \A k \in 1 .. Slots :
    k <= Len(log) => s_seen_ids[Back(k)] = log[Len(log) + 1 - k]

(* With one thread the buffer still holds the message of its event, and    *)
(* the broker keeps that message until its PUBACK is written; PUBACKs are  *)
(* for messages of this connection.                                        *)
InHand ==
  /\ pubacks \subseteq given
  /\ ~ up => pubacks = {}
  /\ \A t \in Pollers :
       /\ pc[t] \in {"puback", "message"} => payload_buf = msg[t]
       /\ pc[t] = "puback" => msg[t] \in (stored \cap given) \ pubacks

(* The broker sends a message again only for a PUBACK that did not arrive: *)
(* a message that will come again has lost a PUBACK for each time it ran,  *)
(* and one that is about to run has one to spare.                          *)
Paid ==
  /\ RunAgainOnlyIfUnacked
  /\ \A m \in Msg : m \in stored \ pubacks => ran[m] <= lost[m]
  /\ \A t \in Pollers : pc[t] = "message" =>
       /\ ran[msg[t]] <= lost[msg[t]]
       /\ msg[t] \in stored \ pubacks => ran[msg[t]] < lost[msg[t]]

Answered(m) == ran[m] > 0 \/ m \in dropped

(* An identifier is in the ring only when its command has run or expired.  *)
SeenIsAnswered ==
  \A i \in 0 .. Slots - 1 : s_seen_ids[i] # NoMsg => Answered(s_seen_ids[i])

(* A message has run, has expired or was cut off by a fault, or it will    *)
(* come again, or a thread has it in hand: what MessageHandled needs to    *)
(* hold at every moment.                                                   *)
NothingForgotten ==
  \A m \in Msg : \/ Answered(m) \/ m \in stored \ pubacks
                 \/ \E t \in Pollers : pc[t] = "message" /\ msg[t] = m

-----------------------------------------------------------------------------
(* Types *)

(* What was said of a cut holds at the end of a connection and of power.   *)
LEMMA BrokerTypesStep == BrokerTypes /\ HandlerTypes /\ [Next]_vars => BrokerTypes'
<1> SUFFICES ASSUME BrokerTypes, HandlerTypes, [Next]_vars PROVE BrokerTypes'
  OBVIOUS
<1> USE DEF BrokerTypes, broker, link
<1>1. ASSUME NEW arrived \in SUBSET pubacks, Cut(arrived) PROVE BrokerTypes'
  BY <1>1 DEF Cut
<1>2. CASE Drop \/ Reset \/ \E t \in Pollers : SysReboot(t)
  <2>1. PICK arrived \in SUBSET pubacks : Cut(arrived)
    BY <1>2 DEF Drop, Reset, SysReboot, PowerDown
  <2> QED
    BY <2>1, <1>1
<1>3. CASE Reconnect \/ UNCHANGED vars
  BY <1>3 DEF Reconnect, vars
<1>4. ASSUME NEW t \in Pollers, Receive(t) PROVE BrokerTypes'
  BY <1>4 DEF Receive
<1>5. ASSUME NEW t \in Pollers, Acknowledge(t) PROVE BrokerTypes'
  <2>1. msg[t] \in Msg
    BY <1>5 DEF Acknowledge, Goto, HandlerTypes, Busy
  <2> QED
    BY <1>5, <2>1 DEF Acknowledge
<1>6. ASSUME NEW t \in Pollers, OnMessage(t) \/ Drain(t) PROVE BrokerTypes'
  BY <1>6 DEF OnMessage, OutOfMemory, Duplicate, Expired, RunCommand,
     RunReboot, ApplyConfig, Drain
<1> QED
  BY <1>2, <1>3, <1>4, <1>5, <1>6 DEF Next, Handler

(* The connection is there or not.                                         *)
LEMMA LinkFlagStep == LinkFlag /\ [Next]_vars => LinkFlag'
<1> SUFFICES ASSUME LinkFlag, [Next]_vars PROVE LinkFlag'
  OBVIOUS
<1>1. up' = up \/ up' = TRUE \/ up' = FALSE
  BY Zenon DEF Next, Handler, OnMessage, Drop, Reconnect, Reset, PowerDown,
     Cut, Receive, Acknowledge, OutOfMemory, Duplicate, Expired, RunCommand,
     RunReboot, ApplyConfig, Drain, SysReboot, vars, link
<1> QED
  BY <1>1, Zenon DEF LinkFlag

(* What a step does to where the threads are and to the buffer.            *)
LEMMA HandlerMoves ==
  ASSUME [Next]_vars
  PROVE  \/ UNCHANGED <<payload_buf, pc, msg>>
         \/ /\ pc' = [t \in Pollers |-> "poll"]
            /\ msg' = [t \in Pollers |-> NoMsg]
            /\ payload_buf' = NoMsg
         \/ \E t \in Pollers :
              \/ /\ Goto(t, "poll", "puback")
                 /\ \E m \in stored \ given :
                      payload_buf' = m /\ msg' = [msg EXCEPT ![t] = m]
              \/ Goto(t, "puback", "message") /\ UNCHANGED <<payload_buf, msg>>
              \/ Return(t)
              \/ Goto(t, "message", "reboot") /\ UNCHANGED <<payload_buf, msg>>
              \/ /\ \E from \in {"drain", "poll"} : Goto(t, from, "poll")
                 /\ UNCHANGED <<payload_buf, msg>>
<1>1. CASE Drop \/ Reconnect \/ UNCHANGED vars
  BY <1>1 DEF Drop, Reconnect, vars
<1>2. CASE Reset \/ \E t \in Pollers : SysReboot(t)
  BY <1>2 DEF Reset, SysReboot, PowerDown
<1>3. ASSUME NEW t \in Pollers, Receive(t) \/ Acknowledge(t) \/ Drain(t)
      PROVE  \/ /\ Goto(t, "poll", "puback")
                /\ \E m \in stored \ given :
                     payload_buf' = m /\ msg' = [msg EXCEPT ![t] = m]
             \/ Goto(t, "puback", "message") /\ UNCHANGED <<payload_buf, msg>>
             \/ /\ \E from \in {"drain", "poll"} : Goto(t, from, "poll")
                /\ UNCHANGED <<payload_buf, msg>>
  BY <1>3 DEF Receive, Acknowledge, Drain
<1>4. ASSUME NEW t \in Pollers, OnMessage(t)
      PROVE  \/ Return(t)
             \/ Goto(t, "message", "reboot") /\ UNCHANGED <<payload_buf, msg>>
  BY <1>4 DEF OnMessage, OutOfMemory, Duplicate, Expired, RunCommand,
     RunReboot, ApplyConfig
<1> QED
  BY <1>1, <1>2, <1>3, <1>4 DEF Next, Handler

(* Wherever the threads are, a busy one has a message in hand.             *)
LEMMA HandlerTypesStep ==
  BrokerTypes /\ HandlerTypes /\ [Next]_vars => HandlerTypes'
<1> SUFFICES ASSUME BrokerTypes, HandlerTypes, [Next]_vars PROVE HandlerTypes'
  OBVIOUS
<1> USE DEF HandlerTypes, Steps, Busy, Goto
<1>1. CASE UNCHANGED <<payload_buf, pc, msg>>
  BY <1>1
<1>2. CASE /\ pc' = [t \in Pollers |-> "poll"]
           /\ msg' = [t \in Pollers |-> NoMsg]
           /\ payload_buf' = NoMsg
  BY <1>2
<1>3. ASSUME NEW t \in Pollers, Goto(t, "poll", "puback"),
             \E m \in stored \ given :
               payload_buf' = m /\ msg' = [msg EXCEPT ![t] = m]
      PROVE  HandlerTypes'
  BY <1>3 DEF BrokerTypes
<1>4. ASSUME NEW t \in Pollers,
             \/ Goto(t, "puback", "message")
             \/ Goto(t, "message", "reboot")
             \/ \E from \in {"drain", "poll"} : Goto(t, from, "poll"),
             UNCHANGED <<payload_buf, msg>>
      PROVE  HandlerTypes'
  BY <1>4
<1>5. ASSUME NEW t \in Pollers, Return(t) PROVE HandlerTypes'
  BY <1>5 DEF Return
<1> QED
  BY <1>1, <1>2, <1>3, <1>4, <1>5, HandlerMoves

(* Where a message is dispatched, dropped or left alone.                   *)
LEMMA DoneTypesStep ==
  BrokerTypes /\ HandlerTypes /\ DoneTypes /\ [Next]_vars => DoneTypes'
<1> SUFFICES ASSUME BrokerTypes, HandlerTypes, DoneTypes, [Next]_vars
             PROVE  DoneTypes'
  OBVIOUS
<1> USE CommandsAssumption DEF DoneTypes, Fault, done
<1>1. CASE Drop \/ Reconnect \/ UNCHANGED vars
  BY <1>1 DEF Drop, Reconnect, vars
<1>2. CASE Reset
  <2>1. acks' = {} /\ faults' = faults + 1 /\ faults < MaxFault /\ ran' = ran
    BY <1>2 DEF Reset, PowerDown
  <2>2. {msg[t] : t \in Pollers} \ (stored' \cup {NoMsg}) \subseteq Msg
    BY DEF HandlerTypes
  <2>3. dropped' \subseteq Msg
    BY <1>2, <2>2 DEF Reset, Discard
  <2> QED
    BY <2>1, <2>3
<1>3. ASSUME NEW t \in Pollers, SysReboot(t) PROVE DoneTypes'
  BY <1>3 DEF SysReboot, PowerDown
<1>4. ASSUME NEW t \in Pollers, Receive(t) \/ Drain(t) PROVE DoneTypes'
  BY <1>4 DEF Receive, Drain
<1>5. ASSUME NEW t \in Pollers, Acknowledge(t) PROVE DoneTypes'
  BY <1>5 DEF Acknowledge, HandlerTypes, Msg
<1>6. ASSUME NEW t \in Pollers, OnMessage(t) PROVE DoneTypes'
  <2>1. payload_buf \in Msg
    BY <1>6 DEF OnMessage, OutOfMemory, Duplicate, Expired, RunCommand,
       RunReboot, ApplyConfig, Return, Goto, HandlerTypes, Busy
  <2>2. CASE OutOfMemory(t) \/ Duplicate(t) \/ Expired(t)
    BY <2>1, <2>2 DEF OutOfMemory, Duplicate, Expired, Discard
  <2>3. CASE RunCommand(t) \/ RunReboot(t) \/ ApplyConfig(t)
    BY <2>1, <2>3 DEF RunCommand, RunReboot, ApplyConfig, dispatch_command,
       dispatch_setting
  <2> QED
    BY <1>6, <2>2, <2>3 DEF OnMessage
<1> QED
  BY <1>1, <1>2, <1>3, <1>4, <1>5, <1>6 DEF Next, Handler

-----------------------------------------------------------------------------
(* The ring of identifiers *)

Recorded(m) ==
  /\ s_seen_ids' = [s_seen_ids EXCEPT ![s_seen_head] = m]
  /\ s_seen_head' = IF s_seen_head + 1 = Slots THEN 0 ELSE s_seen_head + 1
  /\ log' = IF Len(log) <= Slots THEN Append(log, m) ELSE Append(Tail(log), m)

(* What a step does to the ring and its log: nothing, or a reset forgets   *)
(* all, or a command that is not in the ring is recorded.                  *)
LEMMA SeenMoves ==
  ASSUME SeenTypes, [Next]_vars
  PROVE  \/ UNCHANGED seen
         \/ /\ s_seen_ids' = [i \in 0 .. Slots - 1 |-> NoMsg]
            /\ s_seen_head' = 0
            /\ log' = << >>
         \/ /\ payload_buf \in Command /\ Recorded(payload_buf)
            /\ \A i \in 0 .. Slots - 1 : s_seen_ids[i] # payload_buf
<1>1. CASE Drop \/ Reconnect \/ UNCHANGED vars
  BY <1>1 DEF Drop, Reconnect, vars
<1>2. CASE Reset \/ \E t \in Pollers : SysReboot(t)
  BY <1>2 DEF Reset, SysReboot, PowerDown
<1>3. ASSUME NEW t \in Pollers,
             \/ Receive(t) \/ Acknowledge(t) \/ Drain(t)
             \/ OutOfMemory(t) \/ Duplicate(t) \/ ApplyConfig(t)
      PROVE  UNCHANGED seen
  BY <1>3 DEF Receive, Acknowledge, Drain, OutOfMemory, Duplicate, ApplyConfig
<1>4. ASSUME NEW t \in Pollers, Expired(t) \/ RunCommand(t) \/ RunReboot(t)
      PROVE  \/ UNCHANGED seen
             \/ /\ payload_buf \in Command /\ Recorded(payload_buf)
                /\ \A i \in 0 .. Slots - 1 : s_seen_ids[i] # payload_buf
  <2>1. /\ payload_buf \in Command /\ ~ IsDuplicate(payload_buf)
        /\ Record(payload_buf)
    BY <1>4, CommandsAssumption DEF Expired, RunCommand, RunReboot
  <2>2. NextHead = IF s_seen_head + 1 = Slots THEN 0 ELSE s_seen_head + 1
    BY CommandsAssumption DEF NextHead, SeenTypes
  <2> QED
    BY <2>1, <2>2 DEF Record, Recorded, IsDuplicate
<1> QED
  BY <1>1, <1>2, <1>3, <1>4 DEF Next, Handler, OnMessage

(* The log after a command is recorded: m at its end, the rest where it    *)
(* was or one further to the front.                                        *)
LEMMA LogGrows ==
  ASSUME SeenTypes, NEW m \in Command, Recorded(m)
  PROVE  /\ log' \in Seq(Command)
         /\ Len(log') = IF Len(log) <= Slots THEN Len(log) + 1 ELSE Len(log)
         /\ log'[Len(log')] = m
         /\ \A k \in 1 .. Len(log') - 1 :
              log'[Len(log') - k] = log[Len(log) + 1 - k]
<1>1. CASE Len(log) <= Slots
  BY <1>1 DEF SeenTypes, Recorded
<1>2. CASE Len(log) > Slots
  <2>1. log # << >> /\ Len(log) \in Nat
    BY <1>2, CommandsAssumption DEF SeenTypes
  <2>2. /\ Tail(log) \in Seq(Command) /\ Len(Tail(log)) = Len(log) - 1
        /\ \A i \in 1 .. Len(Tail(log)) : Tail(log)[i] = log[i + 1]
    BY <2>1, HeadTailProperties DEF SeenTypes
  <2>3. log' = Append(Tail(log), m)
    BY <1>2, <2>1, CommandsAssumption DEF Recorded
  <2>4. /\ log' \in Seq(Command) /\ Len(log') = Len(log)
        /\ log'[Len(log')] = m
        /\ \A i \in 1 .. Len(log) - 1 : log'[i] = log[i + 1]
    BY <2>1, <2>2, <2>3
  <2>5. ASSUME NEW k \in 1 .. Len(log') - 1
        PROVE  log'[Len(log') - k] = log[Len(log) + 1 - k]
    <3>1. Len(log) - k \in 1 .. Len(log) - 1
      BY <2>1, <2>4
    <3>2. (Len(log) - k) + 1 = Len(log) + 1 - k
      BY <2>1
    <3> QED
      BY <2>4, <3>1, <3>2
  <2> QED
    BY <1>2, <2>1, <2>4, <2>5, CommandsAssumption
<1>3. Len(log) <= Slots \/ Len(log) > Slots
  BY CommandsAssumption DEF SeenTypes
<1> QED
  BY <1>1, <1>2, <1>3

(* The ring holds identifiers of commands.                                 *)
LEMMA SeenTypesStep == SeenTypes /\ [Next]_vars => SeenTypes'
<1> SUFFICES ASSUME SeenTypes, [Next]_vars PROVE SeenTypes'
  OBVIOUS
<1>1. CASE UNCHANGED seen
  BY <1>1 DEF SeenTypes, seen
<1>2. CASE /\ s_seen_ids' = [i \in 0 .. Slots - 1 |-> NoMsg]
           /\ s_seen_head' = 0
           /\ log' = << >>
  BY <1>2, CommandsAssumption DEF SeenTypes
<1>3. CASE payload_buf \in Command /\ Recorded(payload_buf)
  <2>1. log' \in Seq(Command) /\ Len(log') <= Slots + 1
    <3>1. /\ log' \in Seq(Command)
          /\ Len(log') = IF Len(log) <= Slots THEN Len(log) + 1 ELSE Len(log)
      BY <1>3, LogGrows
    <3> QED
      BY <3>1, CommandsAssumption DEF SeenTypes
  <2>2. /\ s_seen_ids' \in [0 .. Slots - 1 -> Command \cup {NoMsg}]
        /\ s_seen_head' \in 0 .. Slots - 1
    BY <1>3, CommandsAssumption DEF SeenTypes, Recorded
  <2> QED
    BY <2>1, <2>2 DEF SeenTypes
<1> QED
  BY <1>1, <1>2, <1>3, SeenMoves

(* Looking back no further than the ring is long stays in the ring.        *)
LEMMA BackSlot ==
  ASSUME SeenTypes, NEW k \in 1 .. Slots PROVE Back(k) \in 0 .. Slots - 1
BY CommandsAssumption DEF SeenTypes, Back

(* Recording puts the newest identifier where the head was, and the head   *)
(* moves on: what was k back is now k + 1 back.                            *)
LEMMA RingStep == SeenTypes /\ RingIsLog /\ [Next]_vars => RingIsLog'
<1> SUFFICES ASSUME SeenTypes, RingIsLog, [Next]_vars PROVE RingIsLog'
  OBVIOUS
<1>1. CASE UNCHANGED seen
  BY <1>1 DEF RingIsLog, Back, seen
<1>2. CASE log' = << >>
  BY <1>2 DEF RingIsLog
<1>3. CASE payload_buf \in Command /\ Recorded(payload_buf)
  <2> SUFFICES ASSUME NEW k \in 1 .. Slots, k <= Len(log')
               PROVE  s_seen_ids'[Back(k)'] = log'[Len(log') + 1 - k]
    BY DEF RingIsLog
  <2>1. /\ log'[Len(log')] = payload_buf /\ Len(log') \in Nat
        /\ \A j \in 1 .. Len(log') - 1 :
             log'[Len(log') - j] = log[Len(log) + 1 - j]
        /\ Len(log') - 1 <= Len(log)
    BY <1>3, LogGrows DEF SeenTypes
  <2>2. CASE k = 1
    <3>1. Back(k)' = s_seen_head
      BY <1>3, <2>2, CommandsAssumption DEF SeenTypes, Back, Recorded
    <3>2. Len(log') + 1 - k = Len(log')
      BY <2>1, <2>2
    <3> QED
      BY <1>3, <2>1, <3>1, <3>2 DEF Recorded, SeenTypes
  <2>3. CASE k > 1
    <3>1. k - 1 \in 1 .. Slots /\ k - 1 \in 1 .. Len(log') - 1
      BY <2>1, <2>3, CommandsAssumption
    <3>2. /\ Back(k)' = Back(k - 1) /\ Back(k - 1) # s_seen_head
          /\ Back(k - 1) \in 0 .. Slots - 1
      BY <1>3, <2>3, CommandsAssumption DEF SeenTypes, Back, Recorded
    <3>3. s_seen_ids'[Back(k)'] = s_seen_ids[Back(k - 1)]
      BY <1>3, <3>2 DEF SeenTypes, Recorded
    <3>4. s_seen_ids[Back(k - 1)] = log[Len(log) + 1 - (k - 1)]
      <4>1. k - 1 <= Len(log)
        BY <2>1, <3>1 DEF SeenTypes
      <4> QED
        BY <3>1, <4>1 DEF RingIsLog
    <3>5. log'[Len(log') - (k - 1)] = log[Len(log) + 1 - (k - 1)]
      BY <2>1, <3>1
    <3>6. Len(log') + 1 - k = Len(log') - (k - 1)
      BY <2>1
    <3> QED
      BY <3>3, <3>4, <3>5, <3>6
  <2> QED
    BY <2>2, <2>3
<1> QED
  BY <1>1, <1>2, <1>3, SeenMoves

(* A command that is in the log within the reach of the ring is taken for  *)
(* a duplicate, and not recorded again.                                    *)
LEMMA NoEarlyRepeatStep ==
  SeenTypes /\ RingIsLog /\ NoEarlyRepeat /\ [Next]_vars => NoEarlyRepeat'
<1> SUFFICES ASSUME SeenTypes, RingIsLog, NoEarlyRepeat, [Next]_vars
             PROVE  NoEarlyRepeat'
  OBVIOUS
<1>1. CASE UNCHANGED seen
  BY <1>1 DEF NoEarlyRepeat, seen
<1>2. CASE log' = << >>
  BY <1>2 DEF NoEarlyRepeat
<1>3. CASE /\ payload_buf \in Command /\ Recorded(payload_buf)
           /\ \A i \in 0 .. Slots - 1 : s_seen_ids[i] # payload_buf
  <2> SUFFICES ASSUME NEW i \in DOMAIN log', NEW j \in DOMAIN log', i < j,
                      log'[i] = log'[j]
               PROVE  j - i > Slots
    BY DEF NoEarlyRepeat
  <2> DEFINE n == Len(log)
             n1 == Len(log')
  <2>1. /\ log' \in Seq(Command) /\ log'[n1] = payload_buf /\ n1 \in Nat
        /\ \A k \in 1 .. n1 - 1 : log'[n1 - k] = log[n + 1 - k]
        /\ n \in Nat /\ (n1 = n + 1 \/ n1 = n)
    BY <1>3, LogGrows DEF SeenTypes
  <2>2. i \in 1 .. n1 /\ j \in 1 .. n1 /\ DOMAIN log = 1 .. n
    BY <2>1 DEF SeenTypes
  <2>3. n1 - i \in 1 .. n1 - 1 /\ n1 - (n1 - i) = i
    BY SMTT(30), <2>1, <2>2
  <2>4. log'[i] = log[n + 1 - (n1 - i)]
    BY <2>1, <2>3
  <2>5. CASE j = n1
    <3> SUFFICES ASSUME n1 - i <= Slots PROVE FALSE
      BY <2>2, <2>5, CommandsAssumption
    <3>1. n1 - i \in 1 .. Slots /\ n1 - i <= n
      BY SMTT(30), <2>1, <2>3, CommandsAssumption
    <3>2. s_seen_ids[Back(n1 - i)] = log[n + 1 - (n1 - i)]
      BY <3>1 DEF RingIsLog
    <3>3. Back(n1 - i) \in 0 .. Slots - 1
      BY <3>1, BackSlot
    <3> QED
      BY <1>3, <2>1, <2>4, <2>5, <3>2, <3>3
  <2>6. CASE j # n1
    <3>1. n1 - j \in 1 .. n1 - 1 /\ n1 - (n1 - j) = j
      BY <2>1, <2>2, <2>6
    <3>2. log'[j] = log[n + 1 - (n1 - j)]
      BY <2>1, <3>1
    <3>3. n + 1 - (n1 - i) \in 1 .. n /\ n + 1 - (n1 - j) \in 1 .. n
      BY SMTT(30), <2>1, <2>2, <2>6
    <3>4. n + 1 - (n1 - i) < n + 1 - (n1 - j)
      BY <2>1, <2>2
    <3>5. (n + 1 - (n1 - j)) - (n + 1 - (n1 - i)) > Slots
      BY <2>2, <2>4, <3>2, <3>3, <3>4 DEF NoEarlyRepeat
    <3> QED
      BY <2>1, <2>2, <3>5, CommandsAssumption
  <2> QED
    BY <2>5, <2>6
<1> QED
  BY <1>1, <1>2, <1>3, SeenMoves

(* The ring of identifiers does what it is there for, for any number of    *)
(* slots and any threads that poll: between two resets, a command is taken *)
(* a second time only after as many others as the ring has slots.          *)
THEOREM NoRepeatWithinRing == Spec => []Consistent
<1> DEFINE IInv == /\ BrokerTypes /\ LinkFlag /\ HandlerTypes /\ DoneTypes
                   /\ SeenTypes /\ RingIsLog /\ NoEarlyRepeat
<1>1. Init => IInv
  <2> SUFFICES ASSUME Init PROVE IInv
    OBVIOUS
  <2>1. LinkFlag
    BY Zenon DEF Init, LinkFlag
  <2>2. BrokerTypes /\ HandlerTypes /\ DoneTypes
    BY CommandsAssumption DEF Init, BrokerTypes, HandlerTypes, DoneTypes, Busy,
       Steps
  <2>3. SeenTypes /\ RingIsLog /\ NoEarlyRepeat
    BY CommandsAssumption DEF Init, SeenTypes, RingIsLog, NoEarlyRepeat
  <2> QED
    BY <2>1, <2>2, <2>3
<1>2. IInv /\ [Next]_vars => IInv'
  BY BrokerTypesStep, LinkFlagStep, HandlerTypesStep, DoneTypesStep,
     SeenTypesStep, RingStep, NoEarlyRepeatStep
<1>3. IInv => Consistent
  <2> SUFFICES ASSUME IInv PROVE Consistent
    OBVIOUS
  <2>1. TypeOK
    BY Zenon DEF TypeOK, BrokerTypes, LinkFlag, HandlerTypes, DoneTypes,
       SeenTypes
  <2> QED
    BY <2>1 DEF Consistent
<1> HIDE DEF IInv
<1> QED
  BY <1>1, <1>2, <1>3, PTL DEF Spec

-----------------------------------------------------------------------------
(* One thread that polls: what it dispatches is what it was told of        *)

OnePoller == \A t, u \in Pollers : t = u

Types == BrokerTypes /\ HandlerTypes /\ DoneTypes /\ SeenTypes

(* With a second thread, a message it reads would replace the one that the *)
(* first is about to dispatch.                                             *)
LEMMA InHandStep ==
  ASSUME OnePoller
  PROVE  Types /\ InHand /\ [Next]_vars => InHand'
<1> SUFFICES ASSUME Types, InHand, [Next]_vars PROVE InHand'
  OBVIOUS
<1> USE DEF InHand, broker, link
<1>1. CASE Reconnect \/ UNCHANGED vars
  BY <1>1 DEF Types, BrokerTypes, HandlerTypes, Reconnect, vars
<1>2. CASE Drop
  BY <1>2 DEF Drop, Cut
<1>3. CASE Reset \/ \E t \in Pollers : SysReboot(t)
  BY <1>3 DEF Reset, SysReboot, PowerDown, Cut
<1>4. ASSUME NEW t \in Pollers, Receive(t) PROVE InHand'
  BY <1>4, OnePoller DEF OnePoller, Receive, Goto, Types, HandlerTypes
<1>5. ASSUME NEW t \in Pollers, Acknowledge(t) PROVE InHand'
  BY <1>5, OnePoller DEF OnePoller, Acknowledge, Goto, Types, HandlerTypes
<1>6. ASSUME NEW t \in Pollers, OnMessage(t) \/ Drain(t) PROVE InHand'
  <2>1. /\ UNCHANGED <<stored, given, pubacks, up>>
        /\ \A u \in Pollers : pc'[u] \notin {"puback", "message"}
    BY <1>6, OnePoller DEF OnePoller, OnMessage, OutOfMemory, Duplicate,
       Expired, RunCommand, RunReboot, ApplyConfig, Drain, Return, Goto, Types,
       HandlerTypes
  <2> QED
    BY <2>1
<1> QED
  BY <1>1, <1>2, <1>3, <1>4, <1>5, <1>6 DEF Next, Handler

(* What a step of OnMessage dispatches is the message in hand, and then it *)
(* is in hand no more.                                                     *)
LEMMA OnMessageMoves ==
  ASSUME OnePoller, Types, InHand, NEW t \in Pollers, OnMessage(t)
  PROVE  /\ UNCHANGED <<stored, given, pubacks, lost, up>>
         /\ pc[t] = "message" /\ msg[t] \in Msg /\ payload_buf = msg[t]
         /\ \A u \in Pollers : u = t /\ pc'[u] \in {"drain", "reboot"}
         /\ \/ ran' = ran
            \/ ran' = [ran EXCEPT ![msg[t]] = @ + 1] /\ dropped' = dropped
<1>1. /\ pc[t] = "message" /\ pc' \in {[pc EXCEPT ![t] = "drain"],
                                      [pc EXCEPT ![t] = "reboot"]}
  BY DEF OnMessage, OutOfMemory, Duplicate, Expired, RunCommand, RunReboot,
     ApplyConfig, Return, Goto
<1>2. /\ msg[t] \in Msg /\ payload_buf = msg[t]
      /\ \A u \in Pollers : u = t /\ pc'[u] \in {"drain", "reboot"}
  BY <1>1, OnePoller DEF OnePoller, Types, HandlerTypes, Busy, InHand
<1>3. /\ UNCHANGED <<stored, given, pubacks, lost, up>>
      /\ \/ ran' = ran
         \/ ran' = [ran EXCEPT ![payload_buf] = @ + 1] /\ dropped' = dropped
  BY DEF OnMessage, OutOfMemory, Duplicate, Expired, RunCommand, RunReboot,
     ApplyConfig, dispatch_command, dispatch_setting, broker, link, done
<1> QED
  BY <1>1, <1>2, <1>3

(* A cut costs a message its PUBACK, or the broker has it and forgets the  *)
(* message.                                                                *)
LEMMA CutPays ==
  ASSUME Types, InHand, Paid, NEW arrived \in SUBSET pubacks, Cut(arrived),
         ran' = ran, \/ UNCHANGED <<pc, msg>>
                     \/ pc' = [t \in Pollers |-> "poll"]
  PROVE  Paid'
<1>1. \A m \in Msg : /\ ran[m] \in Nat /\ lost[m] \in Nat
                     /\ lost'[m] = IF m \in pubacks \ arrived THEN lost[m] + 1
                                                             ELSE lost[m]
  BY DEF Types, BrokerTypes, DoneTypes, Cut
<1>2. /\ \A m \in Msg : ran'[m] <= 1 + lost'[m]
      /\ \A m \in Msg : m \in stored' \ pubacks' => ran'[m] <= lost'[m]
  BY <1>1 DEF Cut, Paid, RunAgainOnlyIfUnacked
<1>3. ASSUME NEW t \in Pollers, pc'[t] = "message"
      PROVE  /\ ran'[msg'[t]] <= lost'[msg'[t]]
             /\ msg'[t] \in stored' \ pubacks' => ran'[msg'[t]] < lost'[msg'[t]]
  <2>1. pc[t] = "message" /\ msg'[t] = msg[t] /\ msg[t] \in Msg
    BY <1>3 DEF Types, HandlerTypes, Busy
  <2> QED
    BY <1>1, <2>1 DEF Cut, Paid
<1> QED
  BY <1>2, <1>3 DEF Paid, RunAgainOnlyIfUnacked

(* Each run of a message beyond the first is paid for with a lost PUBACK.  *)
LEMMA PaidStep ==
  ASSUME OnePoller
  PROVE  Types /\ InHand /\ Paid /\ [Next]_vars => Paid'
<1> SUFFICES ASSUME Types, InHand, Paid, [Next]_vars PROVE Paid'
  OBVIOUS
<1>1. \A m \in Msg : ran[m] \in Nat /\ lost[m] \in Nat
  BY DEF Types, BrokerTypes, DoneTypes
<1>2. CASE Drop \/ Reset \/ \E t \in Pollers : SysReboot(t)
  <2>1. /\ \E arrived \in SUBSET pubacks : Cut(arrived)
        /\ ran' = ran
        /\ UNCHANGED <<pc, msg>> \/ pc' = [t \in Pollers |-> "poll"]
    BY <1>2 DEF Drop, Reset, SysReboot, PowerDown, done
  <2> QED
    BY <2>1, CutPays
<1>3. ASSUME UNCHANGED <<stored, pubacks, ran, lost>>,
             \A t \in Pollers :
               pc'[t] = "message" => pc[t] = "message" /\ msg'[t] = msg[t]
      PROVE  Paid'
  BY <1>3 DEF Paid, RunAgainOnlyIfUnacked
<1>4. CASE Reconnect \/ UNCHANGED vars
  BY <1>3, <1>4 DEF Reconnect, vars, done, broker, link
<1>5. ASSUME NEW t \in Pollers, Receive(t) \/ Drain(t) PROVE Paid'
  BY <1>3, <1>5 DEF Receive, Drain, Goto, Types, HandlerTypes, broker, link, done
<1>6. ASSUME NEW t \in Pollers, Acknowledge(t) PROVE Paid'
  <2>1. /\ pc[t] = "puback" /\ msg' = msg /\ ran' = ran /\ stored' = stored
        /\ \A u \in Pollers : u = t
        /\ msg[t] \in Msg /\ msg[t] \in stored \ pubacks
    BY <1>6, OnePoller DEF OnePoller, Acknowledge, Goto, Types, HandlerTypes,
       Busy, InHand, broker, done
  <2>2. ran[msg[t]] <= lost[msg[t]]
    BY <2>1 DEF Paid
  <2>3. CASE pubacks' = pubacks \cup {msg[t]} /\ lost' = lost
    BY <1>1, <2>1, <2>2, <2>3 DEF Paid, RunAgainOnlyIfUnacked
  <2>4. CASE pubacks' = pubacks /\ lost' = [lost EXCEPT ![msg[t]] = @ + 1]
    <3>1. \A m \in Msg :
            lost'[m] = IF m = msg[t] THEN lost[m] + 1 ELSE lost[m]
      BY <2>4 DEF Types, BrokerTypes
    <3> QED
      BY <1>1, <2>1, <2>2, <2>4, <3>1 DEF Paid, RunAgainOnlyIfUnacked
  <2> QED
    BY <1>6, <2>3, <2>4 DEF Acknowledge
<1>7. ASSUME NEW t \in Pollers, OnMessage(t) PROVE Paid'
  <2>1. /\ UNCHANGED <<stored, pubacks, lost>>
        /\ pc[t] = "message" /\ msg[t] \in Msg
        /\ \A u \in Pollers : pc'[u] # "message"
        /\ ran' = ran \/ ran' = [ran EXCEPT ![msg[t]] = @ + 1]
    BY <1>7, OnePoller, OnMessageMoves
  <2>2. /\ ran[msg[t]] <= lost[msg[t]]
        /\ msg[t] \in stored \ pubacks => ran[msg[t]] < lost[msg[t]]
    BY <2>1 DEF Paid
  <2>3. \A m \in Msg : ran'[m] = ran[m] \/ (m = msg[t] /\ ran'[m] = ran[m] + 1)
    BY <2>1 DEF Types, DoneTypes
  <2> QED
    BY <1>1, <2>1, <2>2, <2>3 DEF Paid, RunAgainOnlyIfUnacked
<1> QED
  BY <1>2, <1>4, <1>5, <1>6, <1>7 DEF Next, Handler

(* With one thread that polls, for any messages, ring and number of        *)
(* faults: a message is run once, and once more for each PUBACK that did   *)
(* not arrive, also one that resets the device.                            *)
THEOREM RunOncePerLoss == ASSUME OnePoller PROVE Spec => []RunAgainOnlyIfUnacked
<1> DEFINE IInv == Types /\ InHand /\ Paid
<1>1. Init => IInv
  <2> SUFFICES ASSUME Init PROVE IInv
    OBVIOUS
  <2>1. Types
    BY CommandsAssumption DEF Init, Types, BrokerTypes, HandlerTypes, DoneTypes,
       SeenTypes, Busy, Steps
  <2>2. InHand /\ Paid
    BY DEF Init, InHand, Paid, RunAgainOnlyIfUnacked
  <2> QED
    BY <2>1, <2>2
<1>2. IInv /\ [Next]_vars => IInv'
  BY OnePoller, BrokerTypesStep, HandlerTypesStep, DoneTypesStep, SeenTypesStep,
     InHandStep, PaidStep DEF Types
<1>3. IInv => RunAgainOnlyIfUnacked
  BY DEF Paid
<1> HIDE DEF IInv
<1> QED
  BY <1>1, <1>2, <1>3, PTL DEF Spec

-----------------------------------------------------------------------------
(* Nothing that was sent is forgotten                                      *)

(* What has run, or has expired or been cut off, stays so.                 *)
LEMMA AnsweredStays ==
  ASSUME Types, [Next]_vars, NEW m \in Msg, Answered(m)
  PROVE  Answered(m)'
<1>1. dropped \subseteq dropped' /\ ran'[m] >= ran[m]
  <2> USE DEF done
  <2>1. ran[m] \in Nat
    BY DEF Types, DoneTypes
  <2>2. CASE Drop \/ Reconnect \/ UNCHANGED vars
    BY <2>1, <2>2 DEF Drop, Reconnect, vars
  <2>3. CASE Reset \/ \E t \in Pollers : SysReboot(t)
    BY <2>1, <2>3 DEF Reset, SysReboot, Discard
  <2>4. ASSUME NEW t \in Pollers, Receive(t) \/ Acknowledge(t) \/ Drain(t)
        PROVE  dropped \subseteq dropped' /\ ran'[m] >= ran[m]
    BY <2>1, <2>4 DEF Receive, Acknowledge, Drain
  <2>5. ASSUME NEW t \in Pollers, OnMessage(t)
        PROVE  dropped \subseteq dropped' /\ ran'[m] >= ran[m]
    <3>1. dropped \subseteq dropped'
      BY <2>5 DEF OnMessage, OutOfMemory, Duplicate, Expired, RunCommand,
         RunReboot, ApplyConfig, Discard
    <3>2. ran' = ran \/ ran' = [ran EXCEPT ![payload_buf] = @ + 1]
      BY <2>5 DEF OnMessage, OutOfMemory, Duplicate, Expired, RunCommand,
         RunReboot, ApplyConfig, dispatch_command, dispatch_setting
    <3> QED
      BY <2>1, <3>1, <3>2 DEF Types, DoneTypes
  <2> QED
    BY <2>2, <2>3, <2>4, <2>5 DEF Next, Handler
<1>2. ran[m] \in Nat /\ ran'[m] \in Nat
  BY DoneTypesStep DEF Types, DoneTypes
<1> QED
  BY <1>1, <1>2 DEF Answered

(* A command goes into the ring in the step that runs it or finds it       *)
(* expired.                                                                *)
LEMMA SeenIsAnsweredStep ==
  Types /\ SeenIsAnswered /\ [Next]_vars => SeenIsAnswered'
<1> SUFFICES ASSUME Types, SeenIsAnswered, [Next]_vars,
                    NEW i \in 0 .. Slots - 1, s_seen_ids'[i] # NoMsg
             PROVE  Answered(s_seen_ids[i])'
  BY DEF SeenIsAnswered
<1>1. CASE s_seen_ids'[i] = s_seen_ids[i]
  <2>1. s_seen_ids[i] \in Msg /\ Answered(s_seen_ids[i])
    BY <1>1 DEF SeenIsAnswered, Types, SeenTypes, Msg
  <2>2. PICK m \in Msg : m = s_seen_ids[i]
    BY <2>1
  <2>3. Answered(m)'
    BY <2>1, <2>2, AnsweredStays
  <2> QED
    BY <1>1, <2>2, <2>3 DEF Answered
<1>2. CASE s_seen_ids'[i] # s_seen_ids[i]
  <2>1. CASE s_seen_ids' = s_seen_ids
    BY <1>2, <2>1
  <2>2. CASE \E t \in Pollers : Expired(t) \/ RunCommand(t) \/ RunReboot(t)
    <3>1. payload_buf \in Command
      BY <2>2, CommandsAssumption DEF Expired, RunCommand, RunReboot
    <3>2. s_seen_ids'[i] = payload_buf
      BY <1>2, <2>2, <3>1 DEF Expired, RunCommand, RunReboot, Record, seen,
         Types, SeenTypes
    <3>3. ran'[payload_buf] > 0 \/ payload_buf \in dropped'
      BY <2>2, <3>1 DEF Expired, RunCommand, RunReboot, dispatch_command,
         Discard, Types, DoneTypes, Msg
    <3> QED
      BY <3>2, <3>3 DEF Answered
  <2>3. CASE Reset \/ \E t \in Pollers : SysReboot(t)
    BY <2>3 DEF Reset, SysReboot, PowerDown
  <2>4. \/ s_seen_ids' = s_seen_ids
        \/ Reset \/ \E t \in Pollers : SysReboot(t)
        \/ \E t \in Pollers : Expired(t) \/ RunCommand(t) \/ RunReboot(t)
    BY DEF Next, Handler, OnMessage, Drop, Reconnect, Receive, Acknowledge,
       OutOfMemory, Duplicate, ApplyConfig, Drain, vars, seen
  <2> QED
    BY <2>1, <2>2, <2>3, <2>4
<1> QED
  BY <1>1, <1>2

(* A message that the broker forgets was acknowledged, and by then it has  *)
(* run or is in hand; what is in hand runs, expires or is cut off, or is a *)
(* command that was answered before.                                       *)
LEMMA NothingForgottenStep ==
  ASSUME OnePoller
  PROVE  /\ Types /\ InHand /\ SeenIsAnswered /\ NothingForgotten /\ [Next]_vars
         => NothingForgotten'
<1> SUFFICES ASSUME Types, InHand, SeenIsAnswered, NothingForgotten,
                    [Next]_vars, NEW m \in Msg, ~ Answered(m)'
             PROVE  \/ m \in stored' \ pubacks'
                    \/ \E t \in Pollers : pc'[t] = "message" /\ msg'[t] = m
  BY DEF NothingForgotten
<1>1. ~ Answered(m)
  BY AnsweredStays
<1>2. \/ m \in stored \ pubacks
      \/ \E t \in Pollers : pc[t] = "message" /\ msg[t] = m
  BY <1>1 DEF NothingForgotten
<1>3. CASE Drop \/ Reconnect \/ UNCHANGED vars
  BY <1>2, <1>3 DEF Drop, Cut, Reconnect, vars, broker, link
<1>4. CASE Reset
  <2>1. PICK arrived \in SUBSET pubacks : PowerDown(arrived)
    BY <1>4 DEF Reset
  <2>2. pubacks' = {} /\ stored' = stored \ arrived
    BY <2>1 DEF PowerDown, Cut
  <2>3. CASE m \in stored \ pubacks
    BY <2>2, <2>3
  <2>4. ASSUME NEW t \in Pollers, msg[t] = m, m \notin stored' PROVE FALSE
    <3>1. m # NoMsg
      BY CommandsAssumption DEF Msg
    <3>2. m \in {msg[u] : u \in Pollers} \ (stored' \cup {NoMsg})
      BY <2>4, <3>1
    <3>3. ran[m] = 0 /\ m \notin dropped
      BY <1>1 DEF Answered, Types, DoneTypes
    <3>4. m \in dropped'
      BY <1>4, <3>2, <3>3 DEF Reset, Discard
    <3> QED
      BY <3>4 DEF Answered
  <2> QED
    BY <1>2, <2>2, <2>3, <2>4
<1>5. ASSUME NEW t \in Pollers, SysReboot(t) PROVE m \in stored' \ pubacks'
  <2>1. \A u \in Pollers : pc[u] # "message"
    BY <1>5, OnePoller DEF OnePoller, SysReboot
  <2> QED
    BY <1>2, <1>5, <2>1 DEF SysReboot, PowerDown, Cut
<1>6. ASSUME NEW t \in Pollers, Receive(t) \/ Drain(t)
      PROVE  \/ m \in stored' \ pubacks'
             \/ \E u \in Pollers : pc'[u] = "message" /\ msg'[u] = m
  BY <1>2, <1>6, OnePoller DEF OnePoller, Receive, Drain, Goto, broker, link
<1>7. ASSUME NEW t \in Pollers, Acknowledge(t)
      PROVE  \/ m \in stored' \ pubacks'
             \/ \E u \in Pollers : pc'[u] = "message" /\ msg'[u] = m
  <2>1. /\ pc[t] = "puback" /\ pc'[t] = "message" /\ msg' = msg
        /\ stored' = stored /\ pubacks' \subseteq pubacks \cup {msg[t]}
    BY <1>7 DEF Acknowledge, Goto, Types, HandlerTypes, broker
  <2> QED
    BY <1>2, <2>1, OnePoller DEF OnePoller
<1>8. ASSUME NEW t \in Pollers, OnMessage(t) PROVE m \in stored' \ pubacks'
  <2>1. /\ UNCHANGED <<stored, pubacks>>
        /\ pc[t] = "message" /\ msg[t] \in Msg /\ payload_buf = msg[t]
        /\ \A u \in Pollers : u = t
    BY <1>8, OnMessageMoves
  <2>2. SUFFICES ASSUME msg[t] = m PROVE FALSE
    BY <1>2, <2>1
  <2>3. ran[m] = 0 /\ m \notin dropped /\ ran'[m] # 1 /\ m \notin dropped'
    BY <1>1 DEF Answered, Types, DoneTypes
  <2>4. CASE OutOfMemory(t) \/ Expired(t)
    BY <2>1, <2>2, <2>3, <2>4 DEF OutOfMemory, Expired, Discard
  <2>5. CASE Duplicate(t)
    <3>1. PICK i \in 0 .. Slots - 1 : s_seen_ids[i] = m
      BY <2>1, <2>2, <2>5 DEF Duplicate, IsDuplicate
    <3>2. m # NoMsg
      BY CommandsAssumption DEF Msg
    <3>3. Answered(m)
      BY <3>1, <3>2 DEF SeenIsAnswered
    <3> QED
      BY <1>1, <3>3
  <2>6. CASE RunCommand(t) \/ RunReboot(t) \/ ApplyConfig(t)
    BY <2>1, <2>2, <2>3, <2>6 DEF RunCommand, RunReboot, ApplyConfig,
       dispatch_command, dispatch_setting, Types, DoneTypes
  <2> QED
    BY <1>8, <2>4, <2>5, <2>6 DEF OnMessage
<1> QED
  BY <1>3, <1>4, <1>5, <1>6, <1>7, <1>8 DEF Next, Handler

(* With one thread that polls, what the cloud sent is never lost without a *)
(* trace: it has run, or has expired, or a fault has cut it off, or the    *)
(* broker will send it again, or it is about to be dispatched.             *)
THEOREM NoneForgotten == ASSUME OnePoller PROVE Spec => []NothingForgotten
<1> DEFINE IInv == Types /\ InHand /\ SeenIsAnswered /\ NothingForgotten
<1>1. Init => IInv
  <2> SUFFICES ASSUME Init PROVE IInv
    OBVIOUS
  <2>1. Types
    BY CommandsAssumption DEF Init, Types, BrokerTypes, HandlerTypes, DoneTypes,
       SeenTypes, Busy, Steps
  <2>2. InHand /\ SeenIsAnswered /\ NothingForgotten
    BY DEF Init, InHand, SeenIsAnswered, NothingForgotten
  <2> QED
    BY <2>1, <2>2
<1>2. IInv /\ [Next]_vars => IInv'
  BY OnePoller, BrokerTypesStep, HandlerTypesStep, DoneTypesStep, SeenTypesStep,
     InHandStep, SeenIsAnsweredStep, NothingForgottenStep DEF Types
<1>3. IInv => NothingForgotten
  OBVIOUS
<1> HIDE DEF IInv
<1> QED
  BY <1>1, <1>2, <1>3, PTL DEF Spec

-----------------------------------------------------------------------------
(* The device is the mailbox of module Mailbox                             *)

(* A PUBACK is for a message the broker still stores; a thread that has    *)
(* nothing to do with a message holds none; and a REBOOT that waits for    *)
(* the reset it asked for has run.                                         *)
Titles ==
  /\ pubacks \subseteq stored
  /\ \A t \in Pollers :
       /\ pc[t] \notin Busy => msg[t] = NoMsg
       /\ pc[t] = "reboot" => ran[msg[t]] > 0

(* A dispatch does not take back that a message has run, a PUBACK is       *)
(* written only for a message in hand.                                     *)
LEMMA TitlesStep ==
  ASSUME OnePoller
  PROVE  Types /\ InHand /\ Titles /\ [Next]_vars => Titles'
<1> SUFFICES ASSUME Types, InHand, Titles, [Next]_vars PROVE Titles'
  OBVIOUS
<1> USE DEF Titles, Busy
<1>1. CASE Drop \/ Reconnect \/ UNCHANGED vars
  BY <1>1 DEF Drop, Cut, Reconnect, vars, broker, link, done
<1>2. CASE Reset \/ \E t \in Pollers : SysReboot(t)
  BY <1>2 DEF Reset, SysReboot, PowerDown, Cut
<1>3. ASSUME NEW t \in Pollers, Receive(t) \/ Drain(t) PROVE Titles'
  <2>1. /\ UNCHANGED <<stored, pubacks, ran>>
        /\ \A u \in Pollers : u = t
        /\ \/ pc'[t] = "puback"
           \/ pc[t] \notin Busy /\ pc'[t] = "poll" /\ msg' = msg
    BY <1>3, OnePoller DEF OnePoller, Receive, Drain, Goto, Types,
       HandlerTypes, broker, link, done
  <2> QED
    BY <2>1
<1>4. ASSUME NEW t \in Pollers, Acknowledge(t) PROVE Titles'
  <2>1. /\ pc[t] = "puback" /\ pc'[t] = "message" /\ msg[t] \in stored
        /\ stored' = stored /\ pubacks' \subseteq pubacks \cup {msg[t]}
        /\ \A u \in Pollers : u = t
    BY <1>4, OnePoller DEF OnePoller, Acknowledge, Goto, Types, HandlerTypes,
       InHand, broker
  <2> QED
    BY <2>1
<1>5. ASSUME NEW t \in Pollers, OnMessage(t) PROVE Titles'
  <2>1. /\ UNCHANGED <<stored, pubacks>>
        /\ pc[t] = "message" /\ msg[t] \in Msg /\ payload_buf = msg[t]
        /\ \A u \in Pollers : u = t
    BY <1>5, OnMessageMoves
  <2>2. CASE Return(t)
    <3>1. pc'[t] = "drain" /\ msg'[t] = NoMsg
      BY <2>2 DEF Return, Goto, Types, HandlerTypes
    <3> QED
      BY <2>1, <3>1
  <2>3. CASE RunReboot(t)
    <3>1. /\ pc'[t] = "reboot" /\ msg' = msg
          /\ ran' = [ran EXCEPT ![msg[t]] = @ + 1]
      BY <2>1, <2>3 DEF RunReboot, Goto, dispatch_command, Types, HandlerTypes
    <3>2. ran'[msg'[t]] > 0
      BY <2>1, <3>1 DEF Types, DoneTypes
    <3> QED
      BY <2>1, <3>1, <3>2
  <2> QED
    BY <1>5, <2>2, <2>3 DEF OnMessage, OutOfMemory, Duplicate, Expired,
       RunCommand, ApplyConfig
<1> QED
  BY <1>1, <1>2, <1>3, <1>4, <1>5 DEF Next, Handler

InHandNow == {msg[t] : t \in {p \in Pollers : pc[p] = "message"}}

(* A cut takes from the mailbox what was in hand and loses the PUBACKs     *)
(* that did not arrive: their messages are owed again.                     *)
LEMMA CutFails ==
  ASSUME Types, Titles, NEW arrived \in SUBSET pubacks, Cut(arrived),
         ran' = ran, NEW cut \in SUBSET InHandNow, cut \cap stored' = {},
         InHandNow' \cup cut \cup stored' = InHandNow \cup stored',
         InHandNow' \cap cut = {},
         dropped' = dropped \cup {m \in cut : ran[m] = 0}
  PROVE  \E u, c \in SUBSET Msg : Box!Fail(u, c)
<1> DEFINE unacked == pubacks \ arrived
<1>1. /\ stored' = stored \ arrived /\ pubacks' = {}
      /\ lost' = [m \in Msg |-> lost[m] + IF m \in unacked THEN 1 ELSE 0]
      /\ pubacks \subseteq stored
  BY DEF Cut, Titles
<1>2. Owed = (stored \ pubacks) \cup InHandNow /\ Owed' = stored' \cup InHandNow'
  BY <1>1 DEF Owed, InHandNow
<1>3. InHandNow \subseteq Msg /\ unacked \subseteq Msg
  BY DEF InHandNow, Types, HandlerTypes, BrokerTypes, Busy
<1>4. cut \subseteq Owed \ unacked /\ Owed' = (Owed \cup unacked) \ cut
  BY <1>1, <1>2
<1>5. Box!Fail(unacked, cut)
  BY <1>1, <1>4 DEF Box!Fail
<1> HIDE DEF unacked
<1> QED
  BY <1>3, <1>5

(* Faults: the connection alone, or all that was in RAM with it.           *)
LEMMA FaultsFail ==
  ASSUME OnePoller, Types, InHand, Titles,
         Drop \/ Reset \/ \E t \in Pollers : SysReboot(t)
  PROVE  \E u, c \in SUBSET Msg : Box!Fail(u, c)
<1>1. CASE Drop
  <2>1. PICK arrived \in SUBSET pubacks : Cut(arrived)
    BY <1>1 DEF Drop
  <2>2. InHandNow' = InHandNow /\ ran' = ran /\ dropped' = dropped
    BY <1>1 DEF Drop, InHandNow, done
  <2> DEFINE cut == {}
  <2>3. /\ cut \in SUBSET InHandNow /\ cut \cap stored' = {}
        /\ InHandNow' \cup cut \cup stored' = InHandNow \cup stored'
        /\ InHandNow' \cap cut = {}
        /\ dropped' = dropped \cup {m \in cut : ran[m] = 0}
    BY <2>2
  <2> HIDE DEF cut
  <2> QED
    BY <2>1, <2>2, <2>3, CutFails
<1>2. CASE Reset
  <2>1. PICK arrived \in SUBSET pubacks : PowerDown(arrived)
    BY <1>2 DEF Reset
  <2>2. Cut(arrived) /\ stored' = stored \ arrived /\ InHandNow' = {}
    BY <2>1 DEF PowerDown, Cut, InHandNow
  <2> DEFINE cut == InHandNow \ stored'
             all == {msg[t] : t \in Pollers} \ (stored' \cup {NoMsg})
  <2>3. ran' = ran /\ dropped' = dropped \cup {m \in all : ran[m] = 0}
    BY <1>2 DEF Reset, Discard
  <2>4. ASSUME NEW m \in all, ran[m] = 0 PROVE m \in cut
    <3>1. PICK t \in Pollers : m = msg[t]
      OBVIOUS
    <3>2. m # NoMsg /\ m \notin stored'
      OBVIOUS
    <3>3. pc[t] \in Busy /\ pc[t] # "reboot"
      BY <2>4, <3>1, <3>2 DEF Titles
    <3>4. pc[t] # "puback"
      BY <2>2, <3>1, <3>2 DEF InHand
    <3>5. pc[t] = "message"
      BY <3>3, <3>4 DEF Busy
    <3> QED
      BY <3>1, <3>2, <3>5 DEF InHandNow
  <2>5. cut \subseteq all
    BY CommandsAssumption DEF InHandNow, Types, HandlerTypes, Busy, Msg
  <2>6. dropped' = dropped \cup {m \in cut : ran[m] = 0}
    BY <2>3, <2>4, <2>5
  <2>7. /\ cut \in SUBSET InHandNow /\ cut \cap stored' = {}
        /\ InHandNow' \cup cut \cup stored' = InHandNow \cup stored'
        /\ InHandNow' \cap cut = {}
    BY <2>2
  <2> HIDE DEF cut, all
  <2> QED
    BY <2>2, <2>3, <2>6, <2>7, CutFails
<1>3. ASSUME NEW t \in Pollers, SysReboot(t)
      PROVE  \E u, c \in SUBSET Msg : Box!Fail(u, c)
  <2>1. PICK arrived \in SUBSET pubacks : PowerDown(arrived)
    BY <1>3 DEF SysReboot
  <2>2. Cut(arrived) /\ ran' = ran /\ dropped' = dropped
    BY <1>3, <2>1 DEF SysReboot, PowerDown, done
  <2>3. InHandNow = {} /\ InHandNow' = {}
    BY <1>3, <2>1, OnePoller DEF OnePoller, SysReboot, PowerDown, InHandNow
  <2> DEFINE cut == {}
  <2>4. /\ cut \in SUBSET InHandNow /\ cut \cap stored' = {}
        /\ InHandNow' \cup cut \cup stored' = InHandNow \cup stored'
        /\ InHandNow' \cap cut = {}
        /\ dropped' = dropped \cup {m \in cut : ran[m] = 0}
    BY <2>2, <2>3
  <2> HIDE DEF cut
  <2> QED
    BY <2>2, <2>4, CutFails
<1> QED
  BY <1>1, <1>2, <1>3

(* Each way to deal with a message in hand is one of the mailbox: it runs, *)
(* or is given up, or is a repetition; when its PUBACK did not go out it   *)
(* may come again.                                                         *)
LEMMA OnMessageAnswers ==
  ASSUME OnePoller, Types, InHand, Paid, SeenIsAnswered, NEW t \in Pollers,
         OnMessage(t)
  PROVE  \/ UNCHANGED <<Owed, ran, lost, dropped>>
         \/ \E m \in Msg : Box!Run(m) \/ Box!GiveUp(m) \/ Box!Ignore(m)
<1> DEFINE m == msg[t]
           open == stored \ pubacks
<1>1. /\ UNCHANGED <<stored, pubacks, lost>>
      /\ pc[t] = "message" /\ m \in Msg /\ payload_buf = m
      /\ \A u \in Pollers : u = t /\ pc'[u] # "message"
  BY OnMessageMoves
<1>2. Owed = open \cup {m} /\ Owed' = open
  BY <1>1 DEF Owed
<1>3. /\ m \in Owed /\ Owed' \in {Owed, Owed \ {m}}
      /\ m \in open => Owed' = Owed
      /\ m \notin open => Owed' = Owed \ {m}
  BY <1>2
<1>4. /\ ran[m] <= lost[m]
      /\ m \in open => ran[m] < lost[m]
  BY <1>1 DEF Paid
<1>5. CASE OutOfMemory(t) \/ Expired(t)
  <2>1. dropped' = dropped \cup {n \in {m} : ran[n] = 0} /\ ran' = ran
    BY <1>1, <1>5 DEF OutOfMemory, Expired, Discard
  <2>2. Box!GiveUp(m)
    BY <1>1, <1>3, <2>1 DEF Box!GiveUp
  <2> QED
    BY <1>1, <2>2
<1>6. CASE Duplicate(t)
  <2>1. ran' = ran /\ dropped' = dropped
    BY <1>6 DEF Duplicate, done
  <2>2. PICK i \in 0 .. Slots - 1 : s_seen_ids[i] = m
    BY <1>1, <1>6 DEF Duplicate, IsDuplicate
  <2>3. m # NoMsg
    BY <1>1, CommandsAssumption DEF Msg
  <2>4. ran[m] > 0 \/ m \in dropped
    BY <2>2, <2>3 DEF SeenIsAnswered, Answered
  <2>5. CASE m \in open
    BY <1>1, <1>3, <2>1, <2>5
  <2>6. CASE m \notin open
    <3>1. Box!Ignore(m)
      BY <1>1, <1>3, <2>1, <2>4, <2>6 DEF Box!Ignore, Box!Answered
    <3> QED
      BY <1>1, <3>1
  <2> QED
    BY <2>5, <2>6
<1>7. CASE RunCommand(t) \/ RunReboot(t) \/ ApplyConfig(t)
  <2>1. ran' = [ran EXCEPT ![m] = @ + 1] /\ dropped' = dropped
    BY <1>1, <1>7 DEF RunCommand, RunReboot, ApplyConfig, dispatch_command,
       dispatch_setting
  <2>2. Box!Run(m)
    BY <1>1, <1>3, <1>4, <2>1 DEF Box!Run
  <2> QED
    BY <1>1, <2>2
<1> QED
  BY <1>5, <1>6, <1>7 DEF OnMessage

(* A PUBACK that is written moves its message from the broker into the     *)
(* thread's hand; one that cannot be written is lost like any other.       *)
LEMMA AcknowledgeOwes ==
  ASSUME OnePoller, Types, InHand, NEW t \in Pollers, Acknowledge(t)
  PROVE  \/ UNCHANGED <<Owed, ran, lost, dropped>>
         \/ \E u, c \in SUBSET Msg : Box!Fail(u, c)
<1> DEFINE m == msg[t]
<1>1. /\ pc[t] = "puback" /\ pc'[t] = "message" /\ msg' = msg
      /\ stored' = stored /\ ran' = ran /\ dropped' = dropped
      /\ m \in Msg /\ m \in stored \ pubacks
      /\ \A u \in Pollers : u = t
  BY OnePoller DEF OnePoller, Acknowledge, Goto, Types, HandlerTypes, Busy,
     InHand, broker, done
<1>2. Owed = stored \ pubacks /\ Owed' = (stored \ pubacks') \cup {m}
  BY <1>1 DEF Owed
<1>3. CASE pubacks' = pubacks \cup {m} /\ lost' = lost
  BY <1>1, <1>2, <1>3
<1>4. CASE pubacks' = pubacks /\ lost' = [lost EXCEPT ![m] = @ + 1]
  <2>1. lost' = [n \in Msg |-> lost[n] + IF n \in {m} THEN 1 ELSE 0]
    <3>1. \A n \in Msg : lost[n] \in Nat
      BY DEF Types, BrokerTypes
    <3>2. lost' = [n \in Msg |-> IF n = m THEN lost[n] + 1 ELSE lost[n]]
      BY <1>4 DEF Types, BrokerTypes
    <3> HIDE DEF m
    <3> QED
      BY <3>1, <3>2
  <2> DEFINE cut == {}
  <2>2. /\ cut \subseteq Owed \ {m} /\ Owed' = (Owed \cup {m}) \ cut
        /\ dropped' = dropped \cup {n \in cut : ran[n] = 0}
        /\ cut \in SUBSET Msg
    BY <1>1, <1>2, <1>4
  <2> HIDE DEF cut
  <2>3. Box!Fail({m}, cut)
    BY <1>1, <2>1, <2>2 DEF Box!Fail
  <2> QED
    BY <1>1, <2>2, <2>3
<1> QED
  BY <1>3, <1>4 DEF Acknowledge

(* With one thread that polls, for any messages, ring and number of        *)
(* faults: PUBACKs, the one payload buffer, the ring of identifiers, the   *)
(* broker's store and all the ways to lose any of them implement the       *)
(* mailbox, in which a message is owed until it has run or is given up and *)
(* runs again only for a lost acknowledgement.                             *)
THEOREM RefinesMailbox == ASSUME OnePoller PROVE Spec => ImplementsMailbox
<1> DEFINE IInv == Types /\ InHand /\ Paid /\ SeenIsAnswered /\ Titles
<1>1. Init => IInv
  <2> SUFFICES ASSUME Init PROVE IInv
    OBVIOUS
  <2>1. Types
    BY CommandsAssumption DEF Init, Types, BrokerTypes, HandlerTypes, DoneTypes,
       SeenTypes, Busy, Steps
  <2>2. InHand /\ Paid /\ SeenIsAnswered /\ Titles
    BY DEF Init, InHand, Paid, RunAgainOnlyIfUnacked, SeenIsAnswered, Titles, Busy
  <2> QED
    BY <2>1, <2>2
<1>2. IInv /\ [Next]_vars => IInv'
  BY OnePoller, BrokerTypesStep, HandlerTypesStep, DoneTypesStep, SeenTypesStep,
     InHandStep, PaidStep, SeenIsAnsweredStep, TitlesStep DEF Types
<1>3. Init => Box!Init
  BY DEF Init, Box!Init, Owed
<1>4. IInv /\ [Next]_vars => [Box!Next]_(Box!boxVars)
  <2> SUFFICES ASSUME IInv, [Next]_vars
               PROVE  \/ UNCHANGED <<Owed, ran, lost, dropped>>
                      \/ Box!Next
    BY DEF Box!boxVars
  <2>1. CASE Drop \/ Reset \/ \E t \in Pollers : SysReboot(t)
    BY <2>1, OnePoller, FaultsFail DEF Box!Next
  <2>2. CASE Reconnect \/ UNCHANGED vars
    BY <2>2 DEF Reconnect, vars, broker, link, done, Owed
  <2>3. ASSUME NEW t \in Pollers, Receive(t) \/ Drain(t)
        PROVE  UNCHANGED <<Owed, ran, lost, dropped>>
    <3>1. /\ UNCHANGED <<stored, pubacks, ran, lost, dropped>>
          /\ \A u \in Pollers : u = t
          /\ pc[t] # "message" /\ pc'[t] # "message"
      BY <2>3, OnePoller DEF OnePoller, Receive, Drain, Goto, Types,
         HandlerTypes, broker, link, done
    <3> QED
      BY <3>1 DEF Owed
  <2>4. ASSUME NEW t \in Pollers, Acknowledge(t)
        PROVE  UNCHANGED <<Owed, ran, lost, dropped>> \/ Box!Next
    BY <2>4, OnePoller, AcknowledgeOwes DEF Box!Next
  <2>5. ASSUME NEW t \in Pollers, OnMessage(t)
        PROVE  UNCHANGED <<Owed, ran, lost, dropped>> \/ Box!Next
    BY <2>5, OnePoller, OnMessageAnswers DEF Box!Next
  <2> QED
    BY <2>1, <2>2, <2>3, <2>4, <2>5 DEF Next, Handler
<1> HIDE DEF IInv
<1> QED
  BY <1>1, <1>2, <1>3, <1>4, PTL DEF Spec, ImplementsMailbox, Box!Spec

=============================================================================
