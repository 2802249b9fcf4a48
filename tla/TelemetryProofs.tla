--------------------------- MODULE TelemetryProofs ---------------------------
(***************************************************************************)
(* Proofs about Telemetry and the LogStream it drains: for any threads     *)
(* that publish, any names, and any size of the metric queue and of the    *)
(* ring of log entries.                                                    *)
(***************************************************************************)
EXTENDS Telemetry, FiniteSetTheorems, TLAPS

-----------------------------------------------------------------------------
(* The inductive invariant *)

CallTypes ==
  /\ pc \in [Publishers -> Pcs]
  /\ todo \in [Publishers -> Seq({"D", "T", "L", "G"})]
  /\ \A t \in Publishers : pc[t] \in {"build", "send"} => todo[t] # << >>
  /\ overall \in [Publishers -> {"ok", "error", "ENOTCONN"}]

CallFlags == connected \in BOOLEAN /\ dropped \in [Publishers -> BOOLEAN]

(* The result of a call that has not ended is that of its payloads; that   *)
(* of one that has ended is cleared.                                       *)
ResultTrue == \A t \in Publishers : overall[t] = "ok" <=> ~ dropped[t]

QueueTypes ==
  /\ metric_queue \in [Slots -> {Free} \cup
       [name : {Stored[n] : n \in Names}, cat : {"T", "L"}, val : Metrics]]
  /\ payload \in [Publishers -> SUBSET Metrics]
  /\ next \in 1 .. MaxSends + 1
  /\ fate \in [Metrics -> Fates]

(* A metric that is held is in a slot or a payload, in one of them only,   *)
(* and both hold nothing that is not held or that was never sent.          *)
Located ==
  /\ \A i \in Used : /\ metric_queue[i].val < next
                     /\ fate[metric_queue[i].val] = "held"
  /\ \A i, j \in Used : metric_queue[i].val = metric_queue[j].val => i = j
  /\ \A t \in Publishers : \A m \in payload[t] :
       /\ m < next /\ fate[m] = "held"
       /\ \A i \in Used : metric_queue[i].val # m
       /\ \A u \in Publishers : m \in payload[u] => t = u
  /\ \A m \in Metrics :
       fate[m] = "held" => \/ \E i \in Used : metric_queue[i].val = m
                           \/ \E t \in Publishers : m \in payload[t]

(* A thread holds metrics only while it sends the payload they are in. *)
PayloadsBuilt == \A t \in Publishers : payload[t] # {} => pc[t] = "send"

(* What the ring holds was logged. *)
RingTypes == LogTypeOK /\ g_count <= logged

-----------------------------------------------------------------------------
(* The calls of publish *)

(* At reset no thread publishes. *)
LEMMA CallsInit == Init => CallTypes /\ CallFlags /\ ResultTrue
<1>1. Init => CallTypes
  BY DEF Init, CallTypes, Pcs
<1>2. Init => CallFlags /\ ResultTrue
  BY Zenon DEF Init, CallFlags, ResultTrue
<1> QED
  BY <1>1, <1>2

(* A step of a publish keeps the call of every thread well-formed. *)
LEMMA CallTypesStep == CallTypes /\ [Next]_vars => CallTypes'
<1> SUFFICES ASSUME CallTypes, [Next]_vars PROVE CallTypes'
  OBVIOUS
<1> USE PublisherAssumption DEF CallTypes, Pcs
<1>1. CASE Connect \/ Lose \/ Log
  BY <1>1 DEF Connect, Lose, Log, calls
<1>2. ASSUME NEW n \in Names,
             RefuseMetric(n) \/ \E bool \in BOOLEAN : SendMetric(n, bool)
      PROVE  CallTypes'
  BY <1>2 DEF RefuseMetric, SendMetric, calls
<1>3. ASSUME NEW t \in Publishers,
             NEW cs \in {Categories, <<"L">>}, Begin(t, cs)
      PROVE  CallTypes'
  <2>1. cs \in Seq({"D", "T", "L", "G"})
    <3>1. <<"D", "T", "L", "G">> \in Seq({"D", "T", "L", "G"})
      OBVIOUS
    <3>2. <<"L">> \in Seq({"D", "T", "L", "G"})
      OBVIOUS
    <3> QED
      BY <3>1, <3>2, Zenon DEF Categories
  <2> QED
    BY <1>3, <2>1 DEF Begin
<1>4. CASE PeriodicRefused \/ PushOffline
  BY <1>4 DEF PeriodicRefused, PushOffline
<1>5. ASSUME NEW t \in Publishers, PublishStep(t) PROVE CallTypes'
  <2>1. CASE SkipCategory(t)
    <3>1. Tail(todo[t]) \in Seq({"D", "T", "L", "G"})
      BY <2>1 DEF SkipCategory
    <3> QED
      BY <2>1, <3>1 DEF SkipCategory
  <2>2. CASE TakeCategory(t)
    BY <2>2 DEF TakeCategory
  <2>3. CASE Build(t) \/ BuildLogEnd(t)
    BY <2>3 DEF Build, BuildLogEnd
  <2>4. CASE BuildLogEntry(t)
    BY <2>4 DEF BuildLogEntry, calls
  <2>5. CASE SendOK(t) \/ BuildFails(t) \/ SendBreaks(t) \/ SendOffline(t)
    <3>1. /\ pc' = [pc EXCEPT ![t] = "check"]
          /\ todo' = [todo EXCEPT ![t] = Tail(@)]
          /\ todo[t] # << >>
      BY <2>5 DEF SendOK, BuildFails, SendBreaks, SendOffline, NextCategory
    <3>2. \/ overall' = overall
          \/ overall' = [overall EXCEPT ![t] = "error"]
          \/ overall' = [overall EXCEPT ![t] = "ENOTCONN"]
      BY <2>5, Zenon DEF SendOK, BuildFails, SendBreaks, SendOffline
    <3>3. Tail(todo[t]) \in Seq({"D", "T", "L", "G"})
      BY <3>1
    <3> QED
      BY <3>1, <3>2, <3>3
  <2>6. CASE Published(t)
    BY <2>6 DEF Published
  <2>7. CASE Failed(t)
    BY <2>7 DEF Failed
  <2> QED
    BY <1>5, <2>1, <2>2, <2>3, <2>4, <2>5, <2>6, <2>7 DEF PublishStep
<1>6. CASE UNCHANGED vars
  BY <1>6 DEF vars, calls
<1> QED
  BY <1>1, <1>2, <1>3, <1>4, <1>5, <1>6, Zenon DEF Next, PeriodicPublish,
     AppPublish, LocationPublish

(* What a step does to the results: nothing, one payload that fails, or    *)
(* the end of a call.                                                      *)
LEMMA ResultMoves ==
  [Next]_vars =>
    \/ UNCHANGED <<overall, dropped>>
    \/ \E t \in Publishers :
         \/ /\ overall' = [overall EXCEPT ![t] = "error"]
            /\ dropped' = [dropped EXCEPT ![t] = TRUE]
         \/ /\ overall' = [overall EXCEPT ![t] = "ENOTCONN"]
            /\ dropped' = [dropped EXCEPT ![t] = TRUE]
         \/ /\ overall' = [overall EXCEPT ![t] = "ok"]
            /\ dropped' = [dropped EXCEPT ![t] = FALSE]
<1> SUFFICES ASSUME [Next]_vars, ~ UNCHANGED <<overall, dropped>>
             PROVE  \E t \in Publishers :
                      \/ BuildFails(t) \/ SendBreaks(t) \/ SendOffline(t)
                      \/ Failed(t)
  BY Zenon DEF BuildFails, SendBreaks, SendOffline, Failed
<1> QED
  BY Zenon DEF Next, vars, calls, Connect, Lose, Log, RefuseMetric,
     SendMetric, PeriodicPublish, PeriodicRefused, PushOffline, AppPublish,
     LocationPublish, Begin, PublishStep, SkipCategory, TakeCategory, Build,
     BuildLogEntry, BuildLogEnd, SendOK, Published

(* Every step leaves the flags Booleans. *)
LEMMA CallFlagsStep == CallFlags /\ [Next]_vars => CallFlags'
<1> SUFFICES ASSUME CallFlags, [Next]_vars PROVE CallFlags'
  OBVIOUS
<1>1. connected' \in BOOLEAN
  BY Zenon DEF CallFlags, Next, vars, calls, Connect, Lose, Log, RefuseMetric,
     SendMetric, PeriodicPublish, PeriodicRefused, PushOffline, AppPublish,
     LocationPublish, Begin, PublishStep, SkipCategory, TakeCategory, Build,
     BuildLogEntry, BuildLogEnd, SendOK, BuildFails, SendBreaks, SendOffline,
     Published, Failed
<1>2. dropped' \in [Publishers -> BOOLEAN]
  BY ResultMoves DEF CallFlags
<1> QED
  BY <1>1, <1>2 DEF CallFlags

(* A payload that fails marks its call, and only the end of it clears the  *)
(* mark.                                                                   *)
LEMMA ResultStep ==
  CallTypes /\ CallFlags /\ ResultTrue /\ [Next]_vars => ResultTrue'
BY ResultMoves DEF CallTypes, CallFlags, ResultTrue

(* conexio_cloud_publish returns 0 exactly when every payload of the call  *)
(* was sent, however the calls of several threads interleave.              *)
THEOREM SuccessIsTrue == Spec => []SuccessMeansSent
<1>1. CallTypes /\ CallFlags /\ ResultTrue => SuccessMeansSent
  BY DEF ResultTrue, SuccessMeansSent
<1> QED
  BY <1>1, CallsInit, CallTypesStep, CallFlagsStep, ResultStep, PTL DEF Spec

-----------------------------------------------------------------------------
(* The metrics *)

(* What a step does to the queue and the payloads: nothing, or one of the  *)
(* calls below.                                                            *)
LEMMA QueueMoves ==
  [Next]_vars =>
    \/ UNCHANGED <<metric_queue, payload, next, fate>>
    \/ \E n \in Names :
         RefuseMetric(n) \/ \E bool \in BOOLEAN : SendMetric(n, bool)
    \/ \E t \in Publishers : Build(t) \/ NextCategory(t)
    \/ PushOffline
BY Zenon DEF Next, vars, queue, calls, Connect, Lose, Log, PeriodicPublish,
   PeriodicRefused, AppPublish, LocationPublish, Begin, PublishStep,
   SkipCategory, TakeCategory, BuildLogEntry, BuildLogEnd, SendOK,
   BuildFails, SendBreaks, SendOffline, Published, Failed

(* A slot is free, or holds a metric. *)
LEMMA SlotHolds ==
  ASSUME QueueTypes, NEW i \in Slots
  PROVE  /\ i \in Used => /\ metric_queue[i].val \in Metrics
         /\ i \notin Used => metric_queue[i] = Free
BY DEF QueueTypes, Used

(* The slot for a name: one that holds it, the only one while it is in one *)
(* at most, or a free one while none does.                                 *)
LEMMA SlotChosen ==
  ASSUME NEW n \in Names, NEW i \in SlotFor(n)
  PROVE  /\ i \in Slots
         /\ i \in Used => metric_queue[i].name = n
         /\ OneSlotPerName /\ n \notin Cut =>
              \A j \in Used : metric_queue[j].name = n => j = i
<1> DEFINE named == {j \in Used : metric_queue[j].name = n}
<1>1. \/ i \in named
      \/ named = {} /\ i \in Slots \ Used
  BY DEF SlotFor, FirstOf
<1>2. Used \subseteq Slots
  BY DEF Used
<1>3. \A j \in Used : metric_queue[j].name = n => j \in named
  OBVIOUS
<1> QED
  BY <1>1, <1>2, <1>3 DEF OneSlotPerName

(* At reset the queue and the payloads are empty. *)
LEMMA QueueInit ==
  Init => QueueTypes /\ Located /\ OneSlotPerName /\ PayloadsBuilt
BY QueueAssumption DEF Init, QueueTypes, Located, OneSlotPerName, Used,
   Metrics, Fates, PayloadsBuilt

(* Every step keeps the types of the queue and the payloads. *)
LEMMA QueueTypesStep == QueueTypes /\ [Next]_vars => QueueTypes'
<1> SUFFICES ASSUME QueueTypes, [Next]_vars PROVE QueueTypes'
  OBVIOUS
<1> USE QueueAssumption, NameAssumption DEF QueueTypes, Fates, Metrics
<1>1. CASE UNCHANGED <<metric_queue, payload, next, fate>>
  BY <1>1
<1>2. ASSUME NEW n \in Names, RefuseMetric(n) PROVE QueueTypes'
  BY <1>2 DEF RefuseMetric, calls
<1>3. ASSUME NEW n \in Names, NEW bool \in BOOLEAN, SendMetric(n, bool)
      PROVE  QueueTypes'
  <2>1. CategoryOf(n, bool) \in {"T", "L"}
    BY DEF CategoryOf
  <2>2. PICK i \in SlotFor(n) :
          /\ metric_queue' = [metric_queue EXCEPT ![i] =
               [name |-> Stored[n], cat |-> CategoryOf(n, bool), val |-> next]]
          /\ fate' = [Out({metric_queue[i].val}) EXCEPT ![next] = "held"]
    BY <1>3 DEF SendMetric
  <2>3. next \in 1 .. MaxSends /\ next' = next + 1 /\ payload' = payload
    BY <1>3 DEF SendMetric, calls
  <2>4. fate' \in [1 .. MaxSends -> {"new", "held", "out"}]
    BY <2>2 DEF Out
  <2>5. i \in Slots /\ next \in 1 .. MaxSends
    BY <2>3, SlotChosen
  <2> DEFINE kept == {Stored[m] : m \in Names}
  <2>6. [name |-> Stored[n], cat |-> CategoryOf(n, bool), val |-> next]
          \in [name : kept, cat : {"T", "L"}, val : 1 .. MaxSends]
    BY <2>1, <2>5
  <2>7. metric_queue' \in [Slots -> {Free} \cup
          [name : kept, cat : {"T", "L"}, val : 1 .. MaxSends]]
    BY <2>2, <2>5, <2>6
  <2> QED
    BY <2>3, <2>4, <2>7
<1>4. ASSUME NEW t \in Publishers, Build(t) PROVE QueueTypes'
  <2>1. /\ payload' = [payload EXCEPT ![t] =
             {metric_queue[i].val : i \in InCategory(Head(todo[t]))}]
        /\ metric_queue' = [i \in Slots |->
             IF i \in InCategory(Head(todo[t])) THEN Free ELSE metric_queue[i]]
        /\ UNCHANGED <<next, fate>>
    BY <1>4 DEF Build, Drain
  <2>2. {metric_queue[i].val : i \in InCategory(Head(todo[t]))}
           \subseteq 1 .. MaxSends
    BY SlotHolds DEF InCategory, Used
  <2> QED
    BY <2>1, <2>2
<1>5. ASSUME NEW t \in Publishers, NextCategory(t) PROVE QueueTypes'
  BY <1>5 DEF NextCategory, Out
<1>6. CASE PushOffline
  BY <1>6 DEF PushOffline, Out
<1> QED
  BY <1>1, <1>2, <1>3, <1>4, <1>5, <1>6, QueueMoves

(* A name that fits goes to the slot that holds it, and to a second one    *)
(* never.                                                                  *)
LEMMA NamesStep ==
  QueueTypes /\ OneSlotPerName /\ [Next]_vars => OneSlotPerName'
<1> SUFFICES ASSUME QueueTypes, OneSlotPerName, [Next]_vars
             PROVE  OneSlotPerName'
  OBVIOUS
<1>1. CASE UNCHANGED metric_queue
  BY <1>1 DEF OneSlotPerName, Used
<1>2. ASSUME NEW n \in Names, NEW bool \in BOOLEAN, SendMetric(n, bool)
      PROVE  OneSlotPerName'
  <2>1. PICK i \in SlotFor(n) :
          metric_queue' = [metric_queue EXCEPT ![i] =
            [name |-> Stored[n], cat |-> CategoryOf(n, bool), val |-> next]]
    BY <1>2 DEF SendMetric
  <2>2. /\ i \in Slots
        /\ Stored[n] \notin Cut =>
             \A j \in Used : metric_queue[j].name = Stored[n] => j = i
    BY SlotChosen DEF Cut
  <2>3. \A j \in Slots \ {i} : metric_queue'[j] = metric_queue[j]
    BY <2>1, <2>2 DEF QueueTypes
  <2>4. metric_queue'[i].name = Stored[n]
    BY <2>1, <2>2 DEF QueueTypes
  <2>5. Used' \subseteq Used \cup {i}
    BY <2>3 DEF Used
  <2> QED
    BY <2>2, <2>3, <2>4, <2>5 DEF OneSlotPerName, Used, Cut
<1>3. ASSUME NEW c,
             metric_queue' = [i \in Slots |->
               IF i \in InCategory(c) THEN Free ELSE metric_queue[i]]
      PROVE  OneSlotPerName'
  BY <1>3 DEF OneSlotPerName, Used
<1> QED
  BY <1>1, <1>2, <1>3, QueueMoves DEF RefuseMetric, Build, Drain,
     NextCategory, PushOffline

(* A metric name that fits, and that no longer one is cut to, is in at     *)
(* most one slot, so that a payload never carries an older value of it     *)
(* beside the newest: for any names and any queue.                         *)
THEOREM NamesOnce == Spec => []OneSlotPerName
<1>1. Init => QueueTypes /\ OneSlotPerName
  BY QueueInit
<1> QED
  BY <1>1, QueueTypesStep, NamesStep, PTL DEF Spec

(* A payload is empty until it is built, and again once it was sent or     *)
(* given up.                                                               *)
LEMMA PayloadsStep ==
  CallTypes /\ QueueTypes /\ PayloadsBuilt /\ [Next]_vars => PayloadsBuilt'
<1> SUFFICES ASSUME CallTypes, QueueTypes, PayloadsBuilt, [Next]_vars
             PROVE  PayloadsBuilt'
  OBVIOUS
<1> USE PublisherAssumption DEF CallTypes, QueueTypes, PayloadsBuilt
<1>1. CASE UNCHANGED <<pc, payload>>
  BY <1>1
<1>2. ASSUME NEW t \in Publishers, NEW step, pc[t] # "send",
             pc' = [pc EXCEPT ![t] = step], payload' = payload
      PROVE  PayloadsBuilt'
  BY <1>2
<1>3. ASSUME NEW t \in Publishers, Build(t) PROVE PayloadsBuilt'
  BY <1>3 DEF Build, Drain
<1>4. ASSUME NEW t \in Publishers, NextCategory(t) PROVE PayloadsBuilt'
  BY <1>4 DEF NextCategory
<1>5. CASE Connect \/ Lose \/ Log
  BY <1>1, <1>5, Zenon DEF Connect, Lose, Log, calls
<1>6. CASE \E n \in Names :
             RefuseMetric(n) \/ \E bool \in BOOLEAN : SendMetric(n, bool)
  BY <1>1, <1>6, Zenon DEF RefuseMetric, SendMetric, calls
<1>7. ASSUME NEW t \in Publishers, NEW cs, Begin(t, cs) PROVE PayloadsBuilt'
  <2>1. pc[t] # "send" /\ pc' = [pc EXCEPT ![t] = "check"]
    BY <1>7 DEF Begin
  <2> QED
    BY <1>2, <1>7, <2>1, Zenon DEF Begin
<1>8. CASE PeriodicRefused \/ PushOffline
  BY <1>8 DEF PeriodicRefused, PushOffline
<1>9. ASSUME NEW t \in Publishers, PublishStep(t) PROVE PayloadsBuilt'
  <2>1. CASE SkipCategory(t) \/ BuildLogEntry(t)
    BY <1>1, <2>1, Zenon DEF SkipCategory, BuildLogEntry, calls
  <2>2. CASE TakeCategory(t) \/ BuildLogEnd(t) \/ Published(t) \/ Failed(t)
    <3>1. pc[t] # "send"
      BY <2>2 DEF TakeCategory, BuildLogEnd, Published, Failed
    <3> QED
      BY <1>2, <2>2, <3>1, Zenon DEF TakeCategory, BuildLogEnd, Published,
         Failed
  <2>3. CASE SendOK(t) \/ BuildFails(t) \/ SendBreaks(t) \/ SendOffline(t)
    BY <1>4, <2>3, Zenon DEF SendOK, BuildFails, SendBreaks, SendOffline
  <2> QED
    BY <1>3, <1>9, <2>1, <2>2, <2>3, Zenon DEF PublishStep
<1>10. CASE UNCHANGED vars
  BY <1>1, <1>10, Zenon DEF vars, calls
<1> QED
  BY <1>5, <1>6, <1>7, <1>8, <1>9, <1>10, Zenon DEF Next, PeriodicPublish,
     AppPublish, LocationPublish

(* No step loses a metric that was accepted or puts it in a second place:  *)
(* it moves from its slot to the payload of the thread that drains it, and *)
(* leaves the slot or the payload for good.                                *)
LEMMA LocatedStep ==
  QueueTypes /\ PayloadsBuilt /\ Located /\ [Next]_vars => Located'
<1> SUFFICES ASSUME QueueTypes, PayloadsBuilt, Located, [Next]_vars
             PROVE  Located'
  OBVIOUS
<1>a. /\ \A i \in Used : metric_queue[i].val \in Metrics
      /\ \A t \in Publishers : payload[t] \subseteq Metrics
      /\ Used \subseteq Slots /\ next \in Nat
      /\ \A m \in Metrics : m \in Nat
  BY SlotHolds, QueueAssumption DEF Used, QueueTypes, Metrics
<1>1. CASE UNCHANGED <<metric_queue, payload, next, fate>>
  BY <1>1 DEF Located, Used
<1>2. ASSUME NEW n \in Names, RefuseMetric(n) PROVE Located'
  <2>1. /\ UNCHANGED <<metric_queue, payload>> /\ next' = next + 1
        /\ \A m \in Metrics : fate'[m] = IF m = next THEN "out" ELSE fate[m]
    BY <1>2 DEF RefuseMetric, calls, QueueTypes
  <2> QED
    BY <1>a, <2>1 DEF Located, Used
<1>3. ASSUME NEW n \in Names, NEW bool \in BOOLEAN, SendMetric(n, bool)
      PROVE  Located'
  <2> DEFINE new == [name |-> Stored[n], cat |-> CategoryOf(n, bool), val |-> next]
  <2>1. PICK i \in SlotFor(n) :
          /\ metric_queue' = [metric_queue EXCEPT ![i] = new]
          /\ fate' = [Out({metric_queue[i].val}) EXCEPT ![next] = "held"]
    BY <1>3 DEF SendMetric
  <2>2. i \in Slots /\ next \in Metrics
    BY <1>3, <1>a, SlotChosen DEF SendMetric, Metrics, QueueTypes
  <2>3. /\ \A j \in Slots :
             metric_queue'[j] = IF j = i THEN new ELSE metric_queue[j]
        /\ \A m \in Metrics :
             fate'[m] = IF m = next THEN "held"
                        ELSE IF m = metric_queue[i].val THEN "out" ELSE fate[m]
        /\ payload' = payload /\ next' = next + 1
    BY <1>3, <2>1, <2>2 DEF QueueTypes, Out, SendMetric, calls
  <2>4. new # Free /\ new.val = next
    BY <2>2 DEF Free, Metrics
  <2>5. /\ Used' = Used \cup {i}
        /\ \A j \in Used' : metric_queue'[j].val =
             IF j = i THEN next ELSE metric_queue[j].val
    BY <2>2, <2>3, <2>4 DEF Used
  <2>6. i \notin Used => metric_queue[i].val = 0
    BY <2>2 DEF Used, Free
  <2> HIDE DEF new
  <2> QED
    <3>1. \A j \in Used' : /\ metric_queue'[j].val < next'
                           /\ fate'[metric_queue'[j].val] = "held"
      <4> SUFFICES ASSUME NEW j \in Used'
                   PROVE  /\ metric_queue'[j].val < next'
                          /\ fate'[metric_queue'[j].val] = "held"
        OBVIOUS
      <4>1. CASE j = i
        BY <1>a, <4>1, <2>2, <2>3, <2>5
      <4>2. CASE j # i
        <5>1. /\ j \in Used /\ metric_queue'[j].val = metric_queue[j].val
              /\ metric_queue[j].val # metric_queue[i].val
          BY <1>a, <4>2, <2>5, <2>6 DEF Located, Metrics
        <5> QED
          BY <1>a, <5>1, <2>3 DEF Located
      <4> QED
        BY <4>1, <4>2
    <3>2. \A j, k \in Used' :
            metric_queue'[j].val = metric_queue'[k].val => j = k
      BY <1>a, <2>5 DEF Located
    <3>3. \A t \in Publishers : \A m \in payload'[t] :
            /\ m < next' /\ fate'[m] = "held"
            /\ \A j \in Used' : metric_queue'[j].val # m
            /\ \A u \in Publishers : m \in payload'[u] => t = u
      BY <1>a, <2>2, <2>3, <2>5, <2>6 DEF Located, Metrics
    <3>4. \A m \in Metrics : fate'[m] = "held" =>
            \/ \E j \in Used' : metric_queue'[j].val = m
            \/ \E t \in Publishers : m \in payload'[t]
      <4> SUFFICES ASSUME NEW m \in Metrics, fate'[m] = "held"
                   PROVE  \/ \E j \in Used' : metric_queue'[j].val = m
                          \/ \E t \in Publishers : m \in payload'[t]
        OBVIOUS
      <4>1. CASE m = next
        BY <4>1, <2>5
      <4>2. CASE m # next
        <5>1. m # metric_queue[i].val /\ fate[m] = "held"
          BY <4>2, <2>3
        <5> QED
          BY <5>1, <2>3, <2>5 DEF Located
      <4> QED
        BY <4>1, <4>2
    <3> QED
      BY <3>1, <3>2, <3>3, <3>4 DEF Located
<1>4. ASSUME NEW t \in Publishers, Build(t) PROVE Located'
  <2> DEFINE C == InCategory(Head(todo[t]))
  <2>1. /\ payload' = [payload EXCEPT ![t] = {metric_queue[i].val : i \in C}]
        /\ metric_queue' = [i \in Slots |->
             IF i \in C THEN Free ELSE metric_queue[i]]
        /\ UNCHANGED <<next, fate>> /\ pc[t] = "build"
    BY <1>4 DEF Build, Drain
  <2>2. C \subseteq Used
    BY DEF InCategory
  <2>3. /\ Used' = Used \ C
        /\ \A j \in Used' : metric_queue'[j] = metric_queue[j]
    BY <1>a, <2>1, <2>2 DEF Used
  <2>4. \A u \in Publishers : payload'[u] =
          IF u = t THEN {metric_queue[i].val : i \in C} ELSE payload[u]
    BY <2>1 DEF QueueTypes
  <2>5. payload[t] = {}
    BY <2>1 DEF PayloadsBuilt
  <2>6. \A m \in payload'[t] : \E i \in C : m = metric_queue[i].val
    BY <2>4
  <2>7. \A j \in Used' : j \in Used /\ j \notin C
    BY <2>3
  <2>8. \A u \in Publishers : \A m \in payload'[u] :
          /\ m < next' /\ fate'[m] = "held"
          /\ \A j \in Used' : metric_queue'[j].val # m
          /\ \A w \in Publishers : m \in payload'[w] => u = w
    BY <2>1, <2>2, <2>3, <2>4, <2>6, <2>7 DEF Located
  <2>9. \A m \in Metrics : fate'[m] = "held" =>
          \/ \E j \in Used' : metric_queue'[j].val = m
          \/ \E u \in Publishers : m \in payload'[u]
    <3> SUFFICES ASSUME NEW m \in Metrics, fate[m] = "held"
                 PROVE  \/ \E j \in Used' : metric_queue'[j].val = m
                        \/ \E u \in Publishers : m \in payload'[u]
      BY <2>1
    <3>1. CASE \E i \in Used : metric_queue[i].val = m
      BY <3>1, <2>3, <2>4
    <3>2. CASE \E u \in Publishers : m \in payload[u]
      BY <3>2, <2>4, <2>5
    <3> QED
      BY <3>1, <3>2 DEF Located
  <2>10. \A i \in Used' : /\ metric_queue'[i].val < next'
                          /\ fate'[metric_queue'[i].val] = "held"
    BY <2>1, <2>3, <2>7 DEF Located
  <2>11. \A i, j \in Used' :
           metric_queue'[i].val = metric_queue'[j].val => i = j
    BY <2>3, <2>7 DEF Located
  <2> QED
    BY <2>8, <2>9, <2>10, <2>11 DEF Located
<1>5. ASSUME NEW t \in Publishers, NextCategory(t) PROVE Located'
  <2>1. /\ \A u \in Publishers :
             payload'[u] = IF u = t THEN {} ELSE payload[u]
        /\ \A m \in Metrics :
             fate'[m] = IF m \in payload[t] THEN "out" ELSE fate[m]
        /\ UNCHANGED <<metric_queue, next>>
    BY <1>5 DEF NextCategory, Out, QueueTypes
  <2> QED
    BY <1>a, <2>1 DEF Located, Used
<1>6. CASE PushOffline
  <2> DEFINE C == InCategory("T")
  <2>1. /\ metric_queue' = [i \in Slots |->
             IF i \in C THEN Free ELSE metric_queue[i]]
        /\ \A m \in Metrics : fate'[m] =
             IF \E i \in C : m = metric_queue[i].val THEN "out" ELSE fate[m]
        /\ UNCHANGED <<next, payload>>
    BY <1>6 DEF PushOffline, Out
  <2>2. C \subseteq Used
    BY DEF InCategory
  <2>3. /\ Used' = Used \ C
        /\ \A j \in Used' : metric_queue'[j] = metric_queue[j]
    BY <1>a, <2>1, <2>2 DEF Used
  <2> QED
    BY <1>a, <2>1, <2>2, <2>3 DEF Located
<1> QED
  BY <1>1, <1>2, <1>3, <1>4, <1>5, <1>6, QueueMoves

(* In the terms of module Telemetry: one place for each metric held. *)
LEMMA LocatedOnce == QueueTypes /\ Located => OnePlace
<1> SUFFICES ASSUME QueueTypes, Located, NEW m \in Metrics
             PROVE  Cardinality(Places(m)) = IF fate[m] = "held" THEN 1 ELSE 0
  BY DEF OnePlace
<1> DEFINE S == {j \in Slots : metric_queue[j].val = m}
           P == {u \in Publishers : m \in payload[u]}
<1>1. \A j \in S : j \in Used
  BY DEF Used, Free, Metrics
<1>2. Places(m) = {<<"slot", i>> : i \in S} \cup {<<"payload", t>> : t \in P}
  BY DEF Places
<1>3. CASE fate[m] # "held"
  <2>1. S = {} /\ P = {}
    BY <1>1, <1>3 DEF Located
  <2>2. Places(m) = {}
    BY <1>2, <2>1
  <2> QED
    BY <1>3, <2>2, FS_EmptySet
<1>4. CASE fate[m] = "held"
  <2>1. CASE \E i \in Used : metric_queue[i].val = m
    <3>1. PICK i \in Used : metric_queue[i].val = m
      BY <2>1
    <3>2. S = {i} /\ P = {}
      <4>1. i \in S /\ \A j \in S : j = i
        BY <1>1, <3>1 DEF Located, Used
      <4>2. \A u \in Publishers : m \notin payload[u]
        BY <3>1 DEF Located
      <4> QED
        BY <4>1, <4>2
    <3>3. Places(m) = {<<"slot", i>>}
      BY <1>2, <3>2
    <3> QED
      BY <1>4, <3>3, FS_Singleton
  <2>2. CASE \E t \in Publishers : m \in payload[t]
    <3>1. PICK t \in Publishers : m \in payload[t]
      BY <2>2
    <3>2. S = {} /\ P = {t}
      BY <1>1, <3>1 DEF Located
    <3>3. Places(m) = {<<"payload", t>>}
      BY <1>2, <3>2
    <3> QED
      BY <1>4, <3>3, FS_Singleton
  <2> QED
    BY <1>4, <2>1, <2>2 DEF Located
<1> QED
  BY <1>3, <1>4

-----------------------------------------------------------------------------
(* The ring of log entries *)

(* A place of the ring, k entries after place i. *)
At(i, k) == IF i + k < LogSize THEN i + k ELSE i + k - LogSize

(* A slot of the log ring some places on, without the modulus.             *)
LEMMA LogSlot ==
  ASSUME NEW i \in 0 .. LogSize - 1, NEW k \in 0 .. LogSize
  PROVE  (i + k) % LogSize = At(i, k) /\ At(i, k) \in 0 .. LogSize - 1
BY LogAssumption DEF At

(* RingIsNewest, without the modulus. *)
RingLinear ==
  /\ g_head = At(g_tail, g_count)
  /\ \A k \in 0 .. g_count - 1 :
       g_ring[At(g_tail, k)] = logged - g_count + 1 + k

(* The ring said without the modulus is the ring said with it.             *)
LEMMA LinearIsNewest == RingTypes /\ RingLinear => RingIsNewest
<1> SUFFICES ASSUME RingTypes, RingLinear PROVE RingIsNewest
  OBVIOUS
<1> USE LogAssumption DEF RingTypes, LogTypeOK
<1>1. g_head = (g_tail + g_count) % LogSize
  BY LogSlot DEF RingLinear
<1>2. ASSUME NEW i \in 1 .. g_count
      PROVE  g_ring[(g_tail + i - 1) % LogSize] = logged - g_count + i
  <2>1. i - 1 \in 0 .. g_count - 1 /\ i - 1 \in 0 .. LogSize
    OBVIOUS
  <2>2. (g_tail + (i - 1)) % LogSize = At(g_tail, i - 1)
    BY <2>1, LogSlot
  <2>3. g_ring[At(g_tail, i - 1)] = logged - g_count + 1 + (i - 1)
    BY <2>1 DEF RingLinear
  <2>4. g_tail + i - 1 = g_tail + (i - 1)
    OBVIOUS
  <2> QED
    BY <2>2, <2>3, <2>4
<1> QED
  BY <1>1, <1>2 DEF RingIsNewest

(* What a step does to the log entries. *)
LEMMA LogMoves ==
  [Next]_vars =>
    \/ UNCHANGED logVars
    \/ RingPush \/ EntryLost
    \/ \E t \in Publishers : TakeEntry(t) \/ FreeArray(t)
BY Zenon DEF Next, vars, Connect, Lose, Log, RefuseMetric, SendMetric,
   PeriodicPublish, PeriodicRefused, PushOffline, AppPublish, LocationPublish,
   Begin, PublishStep, SkipCategory, TakeCategory, Build, BuildLogEntry,
   BuildLogEnd, DrainEnds, NextCategory, SendOK, BuildFails, SendBreaks,
   SendOffline, Published, Failed

(* At reset the ring is empty. *)
LEMMA LogsInit == Init => RingTypes /\ RingLinear /\ EntriesOnce
<1> SUFFICES ASSUME Init PROVE RingTypes /\ RingLinear /\ EntriesOnce
  OBVIOUS
<1> USE LogAssumption DEF Init, LogInit
<1>1. RingTypes
  BY DEF RingTypes, LogTypeOK
<1>2. RingLinear
  BY DEF RingLinear, At
<1>3. EntriesOnce
  <2>1. \A t \in Publishers : arr[t] = << >>
    OBVIOUS
  <2>2. DOMAIN << >> = {}
    OBVIOUS
  <2> QED
    BY <2>1, <2>2, Zenon DEF EntriesOnce
<1> QED
  BY <1>1, <1>2, <1>3

(* The place after another, and the oldest entry of a ring that is not     *)
(* empty.                                                                  *)
LEMMA Oldest ==
  ASSUME RingTypes, RingLinear
  PROVE  /\ Succ(g_tail) = At(g_tail, 1) /\ Succ(g_tail) \in 0 .. LogSize - 1
         /\ Succ(g_head) = At(g_head, 1) /\ Succ(g_head) \in 0 .. LogSize - 1
         /\ g_count > 0 => /\ g_ring[g_tail] = logged - g_count + 1
                           /\ g_ring[g_tail] \in 1 .. MaxLogs
<1> USE LogAssumption DEF RingTypes, LogTypeOK
<1>1. \A i \in 0 .. LogSize - 1 :
        Succ(i) = At(i, 1) /\ Succ(i) \in 0 .. LogSize - 1
  <2>1. 1 \in 0 .. LogSize
    OBVIOUS
  <2> QED
    BY <2>1, LogSlot, Zenon DEF Succ
<1>2. ASSUME g_count > 0
      PROVE  g_ring[g_tail] = logged - g_count + 1
  <2>1. g_ring[At(g_tail, 0)] = logged - g_count + 1 + 0
    BY <1>2 DEF RingLinear
  <2>2. At(g_tail, 0) = g_tail
    BY DEF At
  <2> QED
    BY <2>1, <2>2
<1>3. g_tail \in 0 .. LogSize - 1 /\ g_head \in 0 .. LogSize - 1
  OBVIOUS
<1>4. g_count > 0 => logged - g_count + 1 \in 1 .. MaxLogs
  OBVIOUS
<1> QED
  BY <1>1, <1>2, <1>3, <1>4, Zenon

(* Every step keeps the types of the ring and of the payloads of entries. *)
LEMMA RingTypesStep == RingTypes /\ RingLinear /\ [Next]_vars => RingTypes'
<1> SUFFICES ASSUME RingTypes, RingLinear, [Next]_vars PROVE RingTypes'
  OBVIOUS
<1> USE LogAssumption DEF RingTypes, LogTypeOK, ring
<1>1. CASE UNCHANGED logVars
  BY <1>1 DEF logVars
<1>2. CASE RingPush
  <2>1. /\ logged' = logged + 1 /\ logged' \in 1 .. MaxLogs
        /\ g_ring' = [g_ring EXCEPT ![g_head] = logged']
        /\ g_head' = Succ(g_head) /\ arr' = arr
        /\ \/ g_count < LogSize /\ g_count' = g_count + 1 /\ g_tail' = g_tail
           \/ g_count' = g_count /\ g_tail' = Succ(g_tail)
    BY <1>2 DEF RingPush
  <2>2. g_head' \in 0 .. LogSize - 1 /\ g_tail' \in 0 .. LogSize - 1
    BY <2>1, Oldest
  <2>3. g_ring' \in [0 .. LogSize - 1 -> 0 .. MaxLogs]
    BY <2>1
  <2>4. g_count' \in 0 .. LogSize /\ g_count' <= logged'
    BY <2>1
  <2> QED
    BY <2>1, <2>2, <2>3, <2>4
<1>3. CASE EntryLost
  BY <1>3, Oldest, SMTT(30) DEF EntryLost
<1>4. ASSUME NEW t \in Publishers, TakeEntry(t) PROVE RingTypes'
  <2>1. Append(arr[t], g_ring[g_tail]) \in Seq(1 .. MaxLogs)
    BY <1>4, Oldest DEF TakeEntry
  <2> QED
    BY SMTT(30), <1>4, <2>1, Oldest DEF TakeEntry
<1>5. ASSUME NEW t \in Publishers, FreeArray(t) PROVE RingTypes'
  BY <1>5 DEF FreeArray
<1> QED
  BY <1>1, <1>2, <1>3, <1>4, <1>5, LogMoves

(* The ring drops its oldest entry only, when it is full or drained. *)
LEMMA RingStep == RingTypes /\ RingLinear /\ [Next]_vars => RingLinear'
<1> SUFFICES ASSUME RingTypes, RingLinear, [Next]_vars PROVE RingLinear'
  OBVIOUS
<1> USE LogAssumption DEF RingTypes, LogTypeOK
<1>1. CASE UNCHANGED <<ring, logged>>
  BY <1>1 DEF RingLinear, ring, At
<1>2. CASE RingPush
  <2>1. /\ g_ring' = [g_ring EXCEPT ![g_head] = logged + 1]
        /\ logged' = logged + 1 /\ g_head' = At(g_head, 1)
        /\ g_head = At(g_tail, g_count)
    BY <1>2, Oldest DEF RingPush, RingLinear
  <2>2. CASE g_count < LogSize
    <3>1. g_count' = g_count + 1 /\ g_tail' = g_tail
      BY <1>2, <2>2 DEF RingPush
    <3>2. g_head' = At(g_tail', g_count')
      BY <2>1, <2>2, <3>1 DEF At
    <3>3. ASSUME NEW k \in 0 .. g_count
          PROVE  g_ring'[At(g_tail, k)] = logged - g_count + 1 + k
      <4>1. CASE k = g_count
        BY <4>1, <2>1
      <4>2. CASE k \in 0 .. g_count - 1
        <5>1. At(g_tail, k) # g_head /\ At(g_tail, k) \in 0 .. LogSize - 1
          BY <4>2, <2>1, <2>2 DEF At
        <5> QED
          BY <5>1, <4>2, <2>1 DEF RingLinear
      <4> QED
        BY <4>1, <4>2
    <3> QED
      BY <2>1, <3>1, <3>2, <3>3 DEF RingLinear
  <2>3. CASE g_count = LogSize
    <3>1. /\ g_count' = g_count /\ g_tail' = At(g_tail, 1)
          /\ g_head = g_tail
      BY <1>2, <2>1, <2>3, Oldest DEF RingPush, At
    <3>2. g_head' = At(g_tail', g_count')
      BY <2>1, <2>3, <3>1 DEF At
    <3>3. ASSUME NEW k \in 0 .. LogSize - 1
          PROVE  g_ring'[At(g_tail', k)] = logged + 1 - LogSize + 1 + k
      <4>1. CASE k = LogSize - 1
        <5>1. At(g_tail', k) = g_head
          BY <4>1, <3>1 DEF At
        <5> QED
          BY <4>1, <5>1, <2>1
      <4>2. CASE k \in 0 .. LogSize - 2
        <5>1. /\ At(g_tail', k) = At(g_tail, k + 1)
              /\ At(g_tail, k + 1) # g_head
              /\ At(g_tail, k + 1) \in 0 .. LogSize - 1
          BY <4>2, <3>1 DEF At
        <5>2. k + 1 \in 0 .. g_count - 1
          BY <4>2, <2>3
        <5>3. g_ring[At(g_tail, k + 1)] = logged - g_count + 1 + (k + 1)
          BY <5>2 DEF RingLinear
        <5> QED
          BY <5>1, <5>3, <4>2, <2>1, <2>3
      <4> QED
        BY <4>1, <4>2
    <3> QED
      BY <2>1, <2>3, <3>1, <3>2, <3>3 DEF RingLinear
  <2> QED
    BY <2>2, <2>3
<1>3. ASSUME g_count > 0, g_tail' = Succ(g_tail), g_count' = g_count - 1,
             UNCHANGED <<g_ring, g_head, logged>>
      PROVE  RingLinear'
  <2>1. g_tail' = At(g_tail, 1)
    BY <1>3, Oldest
  <2>2. \A k \in 0 .. g_count - 1 : At(g_tail', k) = At(g_tail, k + 1)
    BY <1>3, <2>1 DEF At
  <2>3. g_head' = At(g_tail', g_count')
    BY <1>3, <2>2 DEF RingLinear
  <2>4. ASSUME NEW k \in 0 .. g_count - 2
        PROVE  g_ring[At(g_tail', k)] = logged - (g_count - 1) + 1 + k
    <3>1. g_ring[At(g_tail, k + 1)] = logged - g_count + 1 + (k + 1)
      BY DEF RingLinear
    <3> QED
      BY <2>2, <3>1
  <2> QED
    BY <1>3, <2>3, <2>4 DEF RingLinear
<1> QED
  BY <1>1, <1>2, <1>3, LogMoves DEF logVars, ring, EntryLost, TakeEntry,
     FreeArray

(* An entry leaves the ring for one payload, behind all that were taken    *)
(* before it, whoever took them.                                           *)
LEMMA EntriesStep ==
  RingTypes /\ RingLinear /\ EntriesOnce /\ [Next]_vars => EntriesOnce'
<1> SUFFICES ASSUME RingTypes, RingLinear, EntriesOnce, [Next]_vars
             PROVE  EntriesOnce'
  OBVIOUS
<1>a. /\ LogSize \in Nat \ {0} /\ logged \in Nat /\ g_count \in Nat
      /\ \A t \in Publishers : /\ arr[t] \in Seq(1 .. MaxLogs)
                               /\ DOMAIN arr[t] = 1 .. Len(arr[t])
                               /\ \A i \in DOMAIN arr[t] : arr[t][i] \in Nat
  BY LogAssumption DEF RingTypes, LogTypeOK
<1>1. CASE UNCHANGED logVars
  BY <1>1 DEF logVars, ring, EntriesOnce
<1>2. CASE RingPush \/ EntryLost
  <2>1. /\ arr' = arr /\ logged - g_count <= logged' - g_count'
        /\ logged' - g_count' \in Int
    BY <1>a, <1>2, SMTT(30) DEF RingPush, EntryLost, RingTypes, LogTypeOK
  <2> QED
    BY <1>a, <2>1 DEF EntriesOnce
<1>3. ASSUME NEW t \in Publishers, TakeEntry(t) PROVE EntriesOnce'
  <2> DEFINE e == logged - g_count + 1
  <2>1. g_ring[g_tail] = e
    BY <1>3, Oldest DEF TakeEntry
  <2>2. /\ arr' = [arr EXCEPT ![t] = Append(arr[t], e)]
        /\ logged' - g_count' = e /\ e \in Nat
    BY <1>a, <1>3, <2>1, Oldest DEF TakeEntry, RingTypes, LogTypeOK
  <2>3. \A u \in Publishers : \A i \in DOMAIN arr[u] : arr[u][i] < e
    BY <1>a DEF EntriesOnce
  <2> HIDE DEF e
  <2>4. /\ arr'[t] = Append(arr[t], e)
        /\ \A u \in Publishers \ {t} : arr'[u] = arr[u]
    BY <2>2 DEF RingTypes, LogTypeOK
  <2>5. /\ DOMAIN arr'[t] = 1 .. Len(arr[t]) + 1
        /\ \A i \in 1 .. Len(arr[t]) : arr'[t][i] = arr[t][i]
        /\ arr'[t][Len(arr[t]) + 1] = e
    BY <1>a, <2>4
  <2>6. \A i \in DOMAIN arr'[t] :
          /\ arr'[t][i] <= e
          /\ \A j \in 1 .. i - 1 : arr'[t][j] < arr'[t][i]
    <3>1. Len(arr[t]) \in Nat
      BY <1>a
    <3>2. ASSUME NEW i \in 1 .. Len(arr[t])
          PROVE  /\ arr'[t][i] <= e
                 /\ \A j \in 1 .. i - 1 : arr'[t][j] < arr'[t][i]
      BY <1>a, <2>2, <2>3, <2>5, <3>1 DEF EntriesOnce
    <3>3. \A j \in 1 .. Len(arr[t]) : arr'[t][j] < e
      BY <1>a, <2>3, <2>5
    <3> QED
      BY <2>2, <2>5, <3>1, <3>2, <3>3
  <2>7. \A u \in Publishers \ {t} : \A i \in DOMAIN arr'[u] :
          /\ arr'[u][i] <= e
          /\ \A j \in 1 .. i - 1 : arr'[u][j] < arr'[u][i]
    <3>1. \A u \in Publishers : \A i \in DOMAIN arr[u] :
            \A j \in 1 .. i - 1 : arr[u][j] < arr[u][i]
      BY DEF EntriesOnce
    <3> QED
      BY <1>a, <2>2, <2>3, <2>4, <3>1
  <2>8. ASSUME NEW u \in Publishers \ {t}, NEW i \in DOMAIN arr'[t],
               NEW j \in DOMAIN arr'[u]
        PROVE  arr'[t][i] # arr'[u][j]
    <3>1. CASE i \in 1 .. Len(arr[t])
      BY <1>a, <2>4, <2>5, <3>1 DEF EntriesOnce
    <3>2. CASE i = Len(arr[t]) + 1
      BY <1>a, <2>2, <2>3, <2>4, <2>5, <3>2
    <3> QED
      BY <1>a, <2>5, <3>1, <3>2
  <2>9. ASSUME NEW u \in Publishers \ {t}, NEW w \in Publishers \ {t, u},
               NEW i \in DOMAIN arr'[u], NEW j \in DOMAIN arr'[w]
        PROVE  arr'[u][i] # arr'[w][j]
    BY <2>4 DEF EntriesOnce
  <2>10. \A u \in Publishers : \A i \in DOMAIN arr'[u] :
           /\ arr'[u][i] <= logged' - g_count'
           /\ \A j \in 1 .. i - 1 : arr'[u][j] < arr'[u][i]
    BY <2>2, <2>6, <2>7
  <2>11. \A u \in Publishers : \A w \in Publishers \ {u} :
           \A i \in DOMAIN arr'[u], j \in DOMAIN arr'[w] :
             arr'[u][i] # arr'[w][j]
    BY <2>8, <2>9
  <2> QED
    BY <2>10, <2>11 DEF EntriesOnce
<1>4. ASSUME NEW t \in Publishers, FreeArray(t) PROVE EntriesOnce'
  <2>1. /\ UNCHANGED <<logged, g_count>>
        /\ \A u \in Publishers : arr'[u] = IF u = t THEN << >> ELSE arr[u]
    BY <1>4 DEF FreeArray, ring, RingTypes, LogTypeOK
  <2>2. \A u \in Publishers : \A i \in DOMAIN arr'[u] :
          i \in DOMAIN arr[u] /\ arr'[u] = arr[u]
    BY <2>1
  <2> QED
    BY <2>1, <2>2 DEF EntriesOnce
<1> QED
  BY <1>1, <1>2, <1>3, <1>4, LogMoves

-----------------------------------------------------------------------------
(* Every metric and every log entry is in one place: threads that build    *)
(* payloads at once neither lose one nor send one twice, for any number of *)
(* threads and any sizes of the queue and the ring.                        *)
THEOREM OnePlaceEach == Spec => []Consistent
<1> DEFINE IInv == /\ CallTypes /\ CallFlags /\ ResultTrue
                   /\ QueueTypes /\ PayloadsBuilt /\ Located
                   /\ RingTypes /\ RingLinear /\ EntriesOnce
<1>1. Init => IInv
  BY CallsInit, QueueInit, LogsInit
<1>2. IInv /\ [Next]_vars => IInv'
  BY CallTypesStep, CallFlagsStep, ResultStep, QueueTypesStep,
     PayloadsStep, LocatedStep, RingTypesStep, RingStep, EntriesStep
<1>3. IInv => Consistent
  <2> SUFFICES ASSUME IInv PROVE Consistent
    OBVIOUS
  <2>1. TypeOK
    BY Zenon DEF TypeOK, CallTypes, CallFlags, QueueTypes, RingTypes
  <2> QED
    BY <2>1, LocatedOnce, LinearIsNewest DEF Consistent
<1> HIDE DEF IInv
<1> QED
  BY <1>1, <1>2, <1>3, PTL DEF Spec

=============================================================================
