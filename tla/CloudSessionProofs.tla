-------------------------- MODULE CloudSessionProofs --------------------------
(***************************************************************************)
(* Proofs about CloudSession, for every limit of attempts, whatever the    *)
(* application calls and whichever handler calls fail: the stacks stay     *)
(* shallow, and as long as the cloud thread is alone with the connection,  *)
(* status and connection agree and every loss is real and answered.        *)
(***************************************************************************)
EXTENDS CloudSession, Integers, SequenceTheorems, TLAPS

-----------------------------------------------------------------------------
(* The inductive invariant: first the types and the nesting *)

top  == Top("cloud")
rest == Tail(stack["cloud"])

Flags ==
  /\ connected \in BOOLEAN /\ session \in BOOLEAN /\ sock \in BOOLEAN
  /\ g_intentional_disconnect \in BOOLEAN /\ g_psm_sleep_pending \in BOOLEAN
  /\ owed \in BOOLEAN /\ alone \in BOOLEAN

Kinds ==
  /\ g_sdk_status \in {"connecting", "connected", "offline"}
  /\ g_connected_sem \in {0, 1}
  /\ loss \in {"none", "lost", "intended"}
  /\ outages \in 0 .. MaxAttempts + 1

Stacks == stack \in [Threads -> Seq(Labels)]

(* How high above the bottom of a stack a step can be. *)
Depth(label) ==
  IF label \in {"count", "sleep", "reboot"} THEN 5
  ELSE IF label \in {"intend", "bye", "disconnect", "offline", "forget",
                     "subscribe"} THEN 4
  ELSE IF label \in {"poll", "hang", "close", "online", "replay"} THEN 3
  ELSE IF label \in {"publish", "published", "pend"} THEN 2
  ELSE 1

Shallow ==
  \A t \in Threads : \A i \in 1 .. Len(stack[t]) :
    Len(stack[t]) - i + 1 <= Depth(stack[t][i])

(* The cloud thread never leaves its loop. *)
Rounds == {"loop", "gate", "due", "dial", "await"}

Looping == /\ stack["cloud"] # <<>>
           /\ stack["cloud"][Len(stack["cloud"])] \in Rounds

(* A thread that has counted up to the limit is about to reboot, and       *)
(* counts no more.                                                         *)
Rebooting(t) == IF Top(t) = "reboot" THEN 1 ELSE 0

CountBound ==
  /\ g_failure_count \in Nat
  /\ g_failure_count < MaxAttempts + Rebooting("cloud") + Rebooting("app")

-----------------------------------------------------------------------------
(* The rest of it is about the cloud thread while it is alone *)

(* What the thread was about when it lost the connection. *)
Interrupted ==
  {<<"await">>, <<"due">>, <<"loop">>, <<"published", "loop">>,
   <<"disconnect", "due">>, <<"disconnect", "published", "loop">>}

(* The disconnect before a PSM sleep. *)
ForPsm == <<"close", "pend", "loop">>

Forgetting ==
  {<<"forget", "await">>, <<"forget", "due">>, <<"forget", "loop">>,
   <<"forget", "published", "loop">>, <<"forget", "disconnect", "due">>,
   <<"forget", "disconnect", "published", "loop">>}

(* What is below a step.  No other nesting comes about while the thread is *)
(* alone.                                                                  *)
Nested ==
  alone =>
    /\ stack["app"] \in {<<>>, <<"wait">>}
    /\ top \in Rounds => rest = <<>>
    /\ top \in {"publish", "published", "pend"} => rest = <<"loop">>
    /\ top = "poll" => rest \in {<<"due">>, <<"published", "loop">>}
    /\ top = "subscribe" => rest = <<"online", "await">>
    /\ top \in {"online", "replay"} => rest = <<"await">>
    /\ top \in {"disconnect", "offline", "forget"} =>
         rest \in Interrupted \cup {ForPsm}
    /\ top \in {"count", "sleep", "reboot"} =>
         rest \in Forgetting \cup {<<"loop">>}
    /\ top = "intend" => rest = <<"hang", "pend", "loop">>
    /\ top = "hang" => rest = <<"pend", "loop">>
    /\ top = "bye" => rest = ForPsm
    /\ top = "close" => rest = <<"pend", "loop">>
    /\ top # "wait"

Up   == connected /\ session /\ sock
Down == ~ connected /\ ~ session /\ ~ sock /\ g_sdk_status # "connected"

(* Where the connection is up, where it is down, and what the transport    *)
(* and the status say of it in between.                                    *)
Linked ==
  alone =>
    /\ top \in {"loop", "due", "publish", "published"} =>
         \/ Up /\ g_sdk_status = "connected"
         \/ Down
    /\ top \in {"poll", "intend", "hang", "replay"} =>
         Up /\ g_sdk_status = "connected"
    /\ top \in {"subscribe", "online"} => Up
    /\ top = "await" =>
         \/ Up /\ g_sdk_status = "connected"
         \/ ~ connected /\ ~ session /\ g_sdk_status # "connected"
    /\ top = "bye" => ~ connected /\ session /\ sock
    /\ top = "disconnect" => ~ session /\ ~ sock
    /\ top = "offline" => ~ connected /\ ~ session /\ ~ sock
    /\ top \in {"gate", "dial", "forget", "count", "sleep", "reboot", "close",
                "pend"} => Down

(* A disconnect is intended from "intend" to "forget", and only then.      *)
Intended ==
  alone =>
    /\ top \in {"hang", "bye"} => g_intentional_disconnect
    /\ top \in {"disconnect", "offline"} =>
         (g_intentional_disconnect <=> rest = ForPsm)
    /\ top \notin {"hang", "bye", "disconnect", "offline", "forget"} =>
         ~ g_intentional_disconnect

(* How the last connection ended, and whether the interval is to be slept. *)
Ended ==
  alone =>
    /\ top \in {"bye", "close", "pend"} => loss = "intended"
    /\ top \in {"disconnect", "offline", "forget"} /\ rest = ForPsm =>
         loss = "intended"
    /\ top \in {"disconnect", "offline", "forget"} =>
         rest \in {ForPsm, <<"await">>} \/ loss = "lost"
    /\ top \in {"count", "sleep", "reboot"} =>
         rest = <<"forget", "await">> \/ loss = "lost"
    /\ top \in {"due", "publish", "published"} /\ ~ connected => loss = "lost"
    /\ top \in {"loop", "gate"} /\ ~ connected =>
         (g_psm_sleep_pending <=> loss = "intended")
    /\ top \notin {"loop", "gate"} \/ connected => ~ g_psm_sleep_pending

(* A loss is owed a sleep until it has been slept off, and a failure is    *)
(* counted by the time the step "count" is done.                           *)
Answered ==
  alone =>
    /\ owed => /\ top \in {"disconnect", "offline", "count", "sleep", "reboot"}
               /\ rest # ForPsm
    /\ outages <= g_failure_count
         \/ /\ top \in {"disconnect", "offline", "count"} /\ rest # ForPsm
            /\ outages <= g_failure_count + 1

SessionInv ==
  /\ Flags /\ Kinds /\ Stacks /\ Shallow /\ Looping /\ CountBound
  /\ Nested /\ Linked /\ Intended /\ Ended /\ Answered

-----------------------------------------------------------------------------
(* Sequences as stacks *)

(* A step put on top of a stack.                                           *)
LEMMA CatIs ==
  ASSUME NEW S, NEW a \in S, NEW r \in Seq(S)
  PROVE  /\ <<a>> \o r \in Seq(S) /\ <<a>> \o r # <<>>
         /\ Head(<<a>> \o r) = a /\ Tail(<<a>> \o r) = r
         /\ Len(<<a>> \o r) = Len(r) + 1
         /\ (<<a>> \o r)[1] = a
         /\ \A i \in 1 .. Len(r) : (<<a>> \o r)[i + 1] = r[i]
<1>1. <<a>> \in Seq(S) /\ Len(<<a>>) = 1 /\ <<a>>[1] = a
  OBVIOUS
<1>2. /\ <<a>> \o r \in Seq(S) /\ Len(<<a>> \o r) = Len(r) + 1
      /\ \A i \in 1 .. Len(r) + 1 :
           (<<a>> \o r)[i] = IF i <= 1 THEN <<a>>[i] ELSE r[i - 1]
  BY <1>1, ConcatProperties, LenProperties
<1>3. Len(r) \in Nat
  BY LenProperties
<1>4. /\ (<<a>> \o r)[1] = a
      /\ \A i \in 1 .. Len(r) : (<<a>> \o r)[i + 1] = r[i]
  <2>1. (<<a>> \o r)[1] = <<a>>[1]
    BY <1>2, <1>3
  <2>2. ASSUME NEW i \in 1 .. Len(r) PROVE (<<a>> \o r)[i + 1] = r[i]
    <3>1. i + 1 \in 1 .. Len(r) + 1 /\ ~ (i + 1 <= 1) /\ (i + 1) - 1 = i
      BY <1>3
    <3>2. QED
      BY <1>2, <3>1
  <2>3. QED
    BY <1>1, <2>1, <2>2
<1>5. <<a>> \o r # <<>>
  BY <1>2, <1>3, EmptySeq
<1>6. Head(<<a>> \o r) = a
  BY <1>2, <1>4, <1>5
<1>7. Tail(<<a>> \o r) = r
  <2>1. /\ Tail(<<a>> \o r) \in Seq(S)
        /\ Len(Tail(<<a>> \o r)) = Len(r)
        /\ \A i \in 1 .. Len(r) : Tail(<<a>> \o r)[i] = (<<a>> \o r)[i + 1]
    BY <1>2, <1>3, <1>5, HeadTailProperties
  <2>2. QED
    BY <1>4, <2>1, SeqEqual
<1>8. QED
  BY <1>2, <1>4, <1>5, <1>6, <1>7

(* The same for the short stacks of the loop, written out.                 *)
LEMMA ShortCat ==
  ASSUME NEW S, NEW a \in S, NEW b \in S, NEW c \in S
  PROVE  /\ <<a>> \o <<>> = <<a>>
         /\ <<a>> \o <<b>> = <<a, b>>
         /\ <<a>> \o <<b, c>> = <<a, b, c>>
<1>1. /\ <<a>> \in Seq(S) /\ <<b>> \in Seq(S) /\ <<>> \in Seq(S)
      /\ <<a, b>> \in Seq(S) /\ <<b, c>> \in Seq(S) /\ <<a, b, c>> \in Seq(S)
      /\ Len(<<b>>) = 1 /\ Len(<<b, c>>) = 2
  OBVIOUS
<1>2. <<a>> \o <<>> = <<a>>
  BY <1>1, ConcatEmptySeq
<1>3. <<a>> \o <<b>> = <<a, b>>
  <2>1. /\ <<a>> \o <<b>> \in Seq(S) /\ Len(<<a>> \o <<b>>) = 2
        /\ (<<a>> \o <<b>>)[1] = a /\ (<<a>> \o <<b>>)[1 + 1] = <<b>>[1]
    BY <1>1, CatIs
  <2>2. \A i \in 1 .. 2 : (<<a>> \o <<b>>)[i] = <<a, b>>[i]
    BY <2>1
  <2>3. Len(<<a, b>>) = 2
    OBVIOUS
  <2>4. QED
    BY <1>1, <2>1, <2>2, <2>3, SeqEqual
<1>4. <<a>> \o <<b, c>> = <<a, b, c>>
  <2>1. /\ <<a>> \o <<b, c>> \in Seq(S) /\ Len(<<a>> \o <<b, c>>) = 3
        /\ (<<a>> \o <<b, c>>)[1] = a
        /\ (<<a>> \o <<b, c>>)[1 + 1] = <<b, c>>[1]
        /\ (<<a>> \o <<b, c>>)[2 + 1] = <<b, c>>[2]
    BY <1>1, CatIs
  <2>2. \A i \in 1 .. 3 : (<<a>> \o <<b, c>>)[i] = <<a, b, c>>[i]
    BY <2>1
  <2>3. Len(<<a, b, c>>) = 3
    OBVIOUS
  <2>4. QED
    BY <1>1, <2>1, <2>2, <2>3, SeqEqual
<1>5. QED
  BY <1>2, <1>3, <1>4

(* Two steps put on top of one.                                            *)
LEMMA PairCat ==
  ASSUME NEW S, NEW a \in S, NEW b \in S, NEW c \in S
  PROVE  <<a, b>> \o <<c>> = <<a, b, c>>
<1>1. <<a>> \in Seq(S) /\ <<b>> \in Seq(S) /\ <<c>> \in Seq(S)
  OBVIOUS
<1>2. <<a, b>> = <<a>> \o <<b>> /\ <<b>> \o <<c>> = <<b, c>>
  BY ShortCat
<1>3. (<<a>> \o <<b>>) \o <<c>> = <<a>> \o (<<b>> \o <<c>>)
  BY <1>1, ConcatAssociative
<1>4. <<a>> \o <<b, c>> = <<a, b, c>>
  BY ShortCat
<1>5. QED
  BY <1>2, <1>3, <1>4

(* One step on top of three.                                               *)
LEMMA LongCat ==
  ASSUME NEW S, NEW a \in S, NEW b \in S, NEW c \in S, NEW d \in S
  PROVE  <<a>> \o <<b, c, d>> = <<a, b, c, d>>
<1>1. /\ <<b, c, d>> \in Seq(S) /\ <<a, b, c, d>> \in Seq(S)
      /\ Len(<<b, c, d>>) = 3 /\ Len(<<a, b, c, d>>) = 4
  OBVIOUS
<1>2. /\ <<a>> \o <<b, c, d>> \in Seq(S) /\ Len(<<a>> \o <<b, c, d>>) = 4
      /\ (<<a>> \o <<b, c, d>>)[1] = a
      /\ (<<a>> \o <<b, c, d>>)[1 + 1] = <<b, c, d>>[1]
      /\ (<<a>> \o <<b, c, d>>)[2 + 1] = <<b, c, d>>[2]
      /\ (<<a>> \o <<b, c, d>>)[3 + 1] = <<b, c, d>>[3]
  BY <1>1, CatIs
<1>3. \A i \in 1 .. 4 : (<<a>> \o <<b, c, d>>)[i] = <<a, b, c, d>>[i]
  BY <1>2
<1>4. QED
  BY <1>1, <1>2, <1>3, SeqEqual

(* The short stacks again, for the steps of this module.                   *)
LEMMA LabelCat ==
  /\ \A a \in Labels : <<a>> \o <<>> = <<a>>
  /\ \A a, b \in Labels : <<a>> \o <<b>> = <<a, b>>
  /\ \A a, b, c \in Labels : <<a>> \o <<b, c>> = <<a, b, c>>
BY ShortCat

-----------------------------------------------------------------------------
(* What a step does to the stacks *)

(* A step is taken from the top of a stack and others are put in its place.*)
LEMMA Moves ==
  ASSUME Stacks, NEW t \in Threads, NEW at \in Labels,
         NEW todo \in Seq(Labels), Go(t, at, todo)
  PROVE  /\ stack[t] # <<>> /\ Head(stack[t]) = at /\ Top(t) = at
         /\ stack[t] \in Seq(Labels) /\ Tail(stack[t]) \in Seq(Labels)
         /\ stack'[t] = todo \o Tail(stack[t])
         /\ stack'[t] \in Seq(Labels)
         /\ \A u \in Threads \ {t} : stack'[u] = stack[u]
         /\ Stacks'
<1>1. stack \in [Threads -> Seq(Labels)]
  BY DEF Stacks
<1>2. at # "none"
  BY DEF Labels
<1>3. stack[t] # <<>> /\ Head(stack[t]) = at /\ Top(t) = at
  BY <1>2 DEF Go, Top
<1>4. stack[t] \in Seq(Labels) /\ Tail(stack[t]) \in Seq(Labels)
  BY <1>1, <1>3, HeadTailProperties
<1>5. stack' = [stack EXCEPT ![t] = todo \o Tail(stack[t])]
  BY DEF Go
<1>6. todo \o Tail(stack[t]) \in Seq(Labels)
  BY <1>4, ConcatProperties
<1>7. QED
  BY <1>1, <1>3, <1>4, <1>5, <1>6 DEF Stacks

(* The cloud thread comes back to what is below, or has one, two or three  *)
(* steps to do first.                                                      *)
LEMMA Turns ==
  ASSUME Stacks, NEW at \in Labels,
         NEW x \in Labels, NEW y \in Labels, NEW z \in Labels
  PROVE  /\ Go("cloud", at, <<>>) =>
              /\ top = at /\ stack'["app"] = stack["app"]
              /\ rest # <<>> => top' = Head(rest) /\ rest' = Tail(rest)
         /\ Go("cloud", at, <<x>>) =>
              /\ top = at /\ stack'["app"] = stack["app"]
              /\ top' = x /\ rest' = rest
         /\ Go("cloud", at, <<x, y>>) =>
              /\ top = at /\ stack'["app"] = stack["app"]
              /\ top' = x /\ rest' = <<y>> \o rest
         /\ Go("cloud", at, <<x, y, z>>) =>
              /\ top = at /\ stack'["app"] = stack["app"]
              /\ top' = x /\ rest' = <<y, z>> \o rest
<1>1. /\ <<>> \in Seq(Labels) /\ <<x>> \in Seq(Labels)
      /\ <<x, y>> \in Seq(Labels) /\ <<x, y, z>> \in Seq(Labels)
      /\ <<y>> \in Seq(Labels) /\ <<y, z>> \in Seq(Labels)
  OBVIOUS
<1>2. "cloud" \in Threads /\ "app" \in Threads \ {"cloud"}
  BY DEF Threads
<1>3. ASSUME NEW todo \in Seq(Labels), Go("cloud", at, todo)
      PROVE  /\ top = at /\ stack'["app"] = stack["app"]
             /\ rest \in Seq(Labels) /\ stack'["cloud"] = todo \o rest
  BY <1>2, <1>3, Moves DEF top, rest
<1>4. /\ stack'["cloud"] # <<>> => top' = Head(stack'["cloud"])
      /\ rest' = Tail(stack'["cloud"])
  BY DEF top, rest, Top
<1>5. ASSUME Go("cloud", at, <<>>)
      PROVE  rest # <<>> => top' = Head(rest) /\ rest' = Tail(rest)
  <2>1. stack'["cloud"] = rest
    BY <1>1, <1>3, <1>5, ConcatEmptySeq
  <2>2. QED
    BY <1>4, <2>1
<1>6. ASSUME NEW r \in Seq(Labels), stack'["cloud"] = <<x>> \o r
      PROVE  top' = x /\ rest' = r
  BY <1>4, <1>6, CatIs
<1>7. ASSUME Go("cloud", at, <<x>>) PROVE top' = x /\ rest' = rest
  BY <1>1, <1>3, <1>6, <1>7
<1>8. ASSUME Go("cloud", at, <<x, y>>)
      PROVE  top' = x /\ rest' = <<y>> \o rest
  <2>1. rest \in Seq(Labels) /\ stack'["cloud"] = <<x, y>> \o rest
    BY <1>1, <1>3, <1>8
  <2>2. <<x, y>> \o rest = <<x>> \o (<<y>> \o rest)
    <3>1. <<x, y>> = <<x>> \o <<y>>
      BY ShortCat
    <3>2. QED
      BY <1>1, <2>1, <3>1, ConcatAssociative
  <2>3. <<y>> \o rest \in Seq(Labels)
    BY <2>1, CatIs
  <2>4. QED
    BY <1>6, <2>1, <2>2, <2>3
<1>9. ASSUME Go("cloud", at, <<x, y, z>>)
      PROVE  top' = x /\ rest' = <<y, z>> \o rest
  <2>1. <<x, y, z>> \o rest = <<x>> \o (<<y, z>> \o rest)
    <3>1. <<x, y, z>> = <<x>> \o <<y, z>>
      BY ShortCat
    <3>2. rest \in Seq(Labels)
      BY <1>1, <1>3, <1>9
    <3>3. (<<x>> \o <<y, z>>) \o rest = <<x>> \o (<<y, z>> \o rest)
      BY <1>1, <3>2, ConcatAssociative, SMTT(30)
    <3>4. QED
      BY <3>1, <3>3
  <2>2. <<y, z>> \o rest \in Seq(Labels)
    BY <1>1, <1>3, <1>9, ConcatProperties
  <2>3. QED
    BY <1>1, <1>3, <1>6, <1>9, <2>1, <2>2
<1>10. QED
  BY <1>1, <1>3, <1>5, <1>7, <1>8, <1>9

(* What a step may leave to do: nothing that lies deeper than it did, and  *)
(* a round of the loop is followed by another.                             *)
Nests(t, at, todo) ==
  /\ at \in Labels \ {"reboot"} /\ todo \in Seq(Labels)
  /\ \A k \in 1 .. Len(todo) : Len(todo) - k + Depth(at) <= Depth(todo[k])
  /\ t = "cloud" /\ at \in Rounds =>
       todo # <<>> /\ todo[Len(todo)] \in Rounds

(* Such a step keeps the stacks shallow and the cloud thread in its loop,  *)
(* and does not take a thread from its reboot.                             *)
LEMMA NestingKept ==
  ASSUME Stacks, Shallow, Looping, NEW t \in Threads, NEW at, NEW todo,
         Nests(t, at, todo), Go(t, at, todo)
  PROVE  Stacks' /\ Shallow' /\ Looping'
<1>1. at \in Labels /\ todo \in Seq(Labels) /\ Depth(at) \in Nat
  BY DEF Nests, Depth
<1> DEFINE r == Tail(stack[t])
           m == Len(todo)
           n == Len(r)
<1>2. /\ stack[t] # <<>> /\ Head(stack[t]) = at
      /\ stack[t] \in Seq(Labels) /\ r \in Seq(Labels)
      /\ stack'[t] = todo \o r /\ stack'[t] \in Seq(Labels)
      /\ \A u \in Threads \ {t} : stack'[u] = stack[u]
      /\ Stacks'
  BY <1>1, Moves
<1>3. /\ m \in Nat /\ n \in Nat /\ Len(stack'[t]) = m + n /\ m = Len(todo)
      /\ Len(stack[t]) = n + 1 /\ stack[t][1] = at
      /\ \A i \in 1 .. n : r[i] = stack[t][i + 1]
      /\ \A i \in 1 .. m + n :
           stack'[t][i] = IF i <= m THEN todo[i] ELSE r[i - m]
  <2>1. m \in Nat /\ n \in Nat
    BY <1>1, <1>2, LenProperties
  <2>2. Len(stack[t]) \in Nat /\ n = Len(stack[t]) - 1
        /\ \A i \in 1 .. n : r[i] = stack[t][i + 1]
    BY <1>2, HeadTailProperties, LenProperties
  <2>3. stack[t][1] = at
    BY <1>2
  <2>4. /\ Len(stack'[t]) = m + n
        /\ \A i \in 1 .. m + n :
             stack'[t][i] = IF i <= m THEN todo[i] ELSE r[i - m]
    BY <1>1, <1>2, ConcatProperties
  <2>5. QED
    BY <2>1, <2>2, <2>3, <2>4
<1> HIDE DEF m, n, r
<1>4. \A label \in Labels : Depth(label) \in Nat
  BY DEF Depth
<1>a. m + n > 0 => stack'[t] # <<>>
  <2>1. Len(<<>>) = 0
    OBVIOUS
  <2>2. QED
    BY <1>3, <2>1
<1>5. n + 1 <= Depth(at)
  <2>1. Len(stack[t]) - 1 + 1 <= Depth(stack[t][1])
    BY <1>3 DEF Shallow
  <2>2. QED
    BY <1>1, <1>3, <2>1
<1>6. ASSUME NEW i \in 1 .. m + n
      PROVE  (m + n) - i + 1 <= Depth(stack'[t][i])
  <2>1. CASE i <= m
    <3>1. i \in 1 .. m /\ stack'[t][i] = todo[i]
      BY <1>3, <2>1
    <3>2. todo[i] \in Labels /\ Depth(todo[i]) \in Nat
      <4>1. i \in 1 .. Len(todo)
        BY <1>3, <3>1
      <4>2. QED
        BY <1>1, <1>4, <4>1, ElementOfSeq
    <3>3. m - i + Depth(at) <= Depth(todo[i])
      BY <1>3, <3>1 DEF Nests
    <3>4. QED
      BY <1>1, <1>3, <1>5, <3>1, <3>2, <3>3
  <2>2. CASE ~ (i <= m)
    <3>1. /\ i - m \in 1 .. n /\ (i - m) + 1 \in 1 .. Len(stack[t])
          /\ stack'[t][i] = stack[t][(i - m) + 1]
      BY <1>3, <2>2
    <3>2. Len(stack[t]) - ((i - m) + 1) + 1 <= Depth(stack[t][(i - m) + 1])
      BY <3>1 DEF Shallow
    <3>3. Len(stack[t]) - ((i - m) + 1) + 1 = (m + n) - i + 1
      BY <1>3
    <3>4. QED
      BY <3>1, <3>2, <3>3
  <2>3. QED
    BY <2>1, <2>2
<1>7. Shallow'
  <2>1. ASSUME NEW u \in Threads, NEW i \in 1 .. Len(stack'[u])
        PROVE  Len(stack'[u]) - i + 1 <= Depth(stack'[u][i])
    <3>1. CASE u = t
      BY <1>3, <1>6, <3>1
    <3>2. CASE u # t
      BY <1>2, <3>2 DEF Shallow
    <3>3. QED
      BY <3>1, <3>2
  <2>2. QED
    BY <2>1 DEF Shallow
<1>8. Looping'
  <2>1. CASE t # "cloud"
    BY <1>2, <2>1 DEF Looping, Threads
  <2>2. CASE t = "cloud"
    <3>1. CASE n > 0
      <4>1. m + n \in 1 .. m + n /\ ~ (m + n <= m) /\ (m + n) - m = n
            /\ n \in 1 .. n
        BY <1>3, <3>1
      <4>2. stack'[t][m + n] = stack[t][n + 1]
        BY <1>3, <4>1
      <4>3. stack[t][n + 1] \in Rounds
        BY <1>3, <2>2 DEF Looping
      <4>4. stack'[t] # <<>>
        BY <1>3, <1>a, <3>1
      <4>5. QED
        BY <1>3, <2>2, <4>2, <4>3, <4>4 DEF Looping
    <3>2. CASE n = 0
      <4>1. at \in Rounds
        BY <1>3, <2>2, <3>2 DEF Looping
      <4>2. todo # <<>> /\ todo[m] \in Rounds
        BY <1>3, <2>2, <4>1 DEF Nests
      <4>3. m > 0
        BY <1>1, <1>3, <4>2, EmptySeq
      <4>4. stack'[t][m + n] = todo[m]
        <5>1. m + n = m /\ m \in 1 .. m + n /\ m <= m
          BY <1>3, <3>2, <4>3
        <5>2. QED
          BY <1>3, <5>1
      <4>5. stack'[t] # <<>>
        BY <1>3, <1>a, <3>2, <4>3
      <4>6. QED
        BY <1>3, <2>2, <4>2, <4>4, <4>5 DEF Looping
    <3>3. n = 0 \/ n > 0
      BY <1>3
    <3>4. QED
      BY <3>1, <3>2, <3>3
  <2>3. QED
    BY <2>1, <2>2
<1>9. QED
  BY <1>2, <1>7, <1>8

(* The same, said of up to three steps one by one.                         *)
LEMMA NestsShort ==
  ASSUME NEW t, NEW at \in Labels \ {"reboot"},
         NEW x \in Labels, NEW y \in Labels, NEW z \in Labels
  PROVE  /\ t # "cloud" \/ at \notin Rounds => Nests(t, at, <<>>)
         /\ /\ Depth(at) <= Depth(x)
            /\ t = "cloud" /\ at \in Rounds => x \in Rounds
            => Nests(t, at, <<x>>)
         /\ /\ 1 + Depth(at) <= Depth(x) /\ Depth(at) <= Depth(y)
            /\ at \in Rounds => y \in Rounds
            => Nests(t, at, <<x, y>>)
         /\ /\ 2 + Depth(at) <= Depth(x) /\ 1 + Depth(at) <= Depth(y)
            /\ Depth(at) <= Depth(z)
            /\ at \in Rounds => z \in Rounds
            => Nests(t, at, <<x, y, z>>)
<1>1. /\ <<>> \in Seq(Labels) /\ <<x>> \in Seq(Labels)
      /\ <<x, y>> \in Seq(Labels) /\ <<x, y, z>> \in Seq(Labels)
      /\ Len(<<>>) = 0 /\ Len(<<x>>) = 1
      /\ Len(<<x, y>>) = 2 /\ Len(<<x, y, z>>) = 3
  OBVIOUS
<1>2. Depth(at) \in Nat
  BY DEF Depth
<1>3. ASSUME t # "cloud" \/ at \notin Rounds PROVE Nests(t, at, <<>>)
  BY <1>1, <1>3 DEF Nests
<1>4. ASSUME Depth(at) <= Depth(x),
             t = "cloud" /\ at \in Rounds => x \in Rounds
      PROVE  Nests(t, at, <<x>>)
  <2>1. \A k \in 1 .. 1 : 1 - k + Depth(at) <= Depth(<<x>>[k])
    BY <1>2, <1>4
  <2>2. <<x>> # <<>> /\ <<x>>[1] = x
    OBVIOUS
  <2>3. QED
    BY <1>1, <1>4, <2>1, <2>2 DEF Nests
<1>5. ASSUME 1 + Depth(at) <= Depth(x), Depth(at) <= Depth(y),
             at \in Rounds => y \in Rounds
      PROVE  Nests(t, at, <<x, y>>)
  <2>1. \A k \in 1 .. 2 : 2 - k + Depth(at) <= Depth(<<x, y>>[k])
    BY <1>2, <1>5
  <2>2. <<x, y>> # <<>> /\ <<x, y>>[2] = y
    OBVIOUS
  <2>3. QED
    BY <1>1, <1>5, <2>1, <2>2 DEF Nests
<1>6. ASSUME 2 + Depth(at) <= Depth(x), 1 + Depth(at) <= Depth(y),
             Depth(at) <= Depth(z), at \in Rounds => z \in Rounds
      PROVE  Nests(t, at, <<x, y, z>>)
  <2>1. \A k \in 1 .. 3 : 3 - k + Depth(at) <= Depth(<<x, y, z>>[k])
    BY <1>2, <1>6
  <2>2. <<x, y, z>> # <<>> /\ <<x, y, z>>[3] = z
    OBVIOUS
  <2>3. QED
    BY <1>1, <1>6, <2>1, <2>2 DEF Nests
<1>7. QED
  BY <1>3, <1>4, <1>5, <1>6

(* What holds of the stacks after a step of thread t that is no reboot.    *)
Kept(t) ==
  /\ Stacks' /\ Shallow' /\ Looping'
  /\ Top(t) # "reboot"
  /\ \A u \in Threads \ {t} : Top(u)' = Top(u)

(* A step that nests keeps the stacks, and is not taken from a reboot.     *)
LEMMA KeptIf ==
  ASSUME Stacks, Shallow, Looping, NEW t \in Threads, NEW at, NEW todo,
         Nests(t, at, todo), Go(t, at, todo)
  PROVE  Kept(t)
<1>1. at \in Labels \ {"reboot"} /\ todo \in Seq(Labels)
  BY DEF Nests
<1>2. Top(t) = at /\ \A u \in Threads \ {t} : stack'[u] = stack[u]
  BY <1>1, Moves
<1>3. QED
  BY <1>1, <1>2, NestingKept DEF Kept, Top

(* The steps by their depth. *)
LEMMA Depths ==
  /\ \A a \in {"loop", "gate", "due", "dial", "await"} :
       a \in Rounds /\ a \in Labels \ {"reboot"} /\ Depth(a) = 1
  /\ \A a \in {"publish", "published", "pend"} :
       a \notin Rounds /\ a \in Labels \ {"reboot"} /\ Depth(a) = 2
  /\ \A a \in {"poll", "hang", "close", "online", "replay"} :
       a \notin Rounds /\ a \in Labels \ {"reboot"} /\ Depth(a) = 3
  /\ \A a \in {"intend", "bye", "disconnect", "offline", "forget",
              "subscribe"} :
       a \notin Rounds /\ a \in Labels \ {"reboot"} /\ Depth(a) = 4
  /\ \A a \in {"count", "sleep", "reboot"} :
       a \notin Rounds /\ a \in Labels /\ Depth(a) = 5
  /\ "wait" \notin Rounds /\ "wait" \in Labels \ {"reboot"} /\ Depth("wait") = 1
BY DEF Labels, Depth, Rounds

(* So does one that leaves nothing to do, which the loop never does ...    *)
LEMMA KeptByPop ==
  ASSUME Stacks, Shallow, Looping, NEW t \in Threads,
         NEW at \in Labels \ {"reboot"}, t # "cloud" \/ at \notin Rounds,
         Go(t, at, <<>>)
  PROVE  Kept(t)
<1>1. Nests(t, at, <<>>)
  BY NestsShort
<1>2. QED
  BY <1>1, KeptIf

(* ... one that leaves one step to do, no lower than it was itself ...     *)
LEMMA KeptByOne ==
  ASSUME Stacks, Shallow, Looping, NEW t \in Threads,
         NEW at \in Labels \ {"reboot"}, NEW x \in Labels,
         Depth(at) <= Depth(x), t = "cloud" /\ at \in Rounds => x \in Rounds,
         Go(t, at, <<x>>)
  PROVE  Kept(t)
<1>1. Nests(t, at, <<x>>)
  BY NestsShort
<1>2. QED
  BY <1>1, KeptIf

(* ... two steps ...                                                       *)
LEMMA KeptByTwo ==
  ASSUME Stacks, Shallow, Looping, NEW t \in Threads,
         NEW at \in Labels \ {"reboot"}, NEW x \in Labels, NEW y \in Labels,
         Depth(at) < Depth(x), Depth(at) <= Depth(y),
         at \in Rounds => y \in Rounds, Go(t, at, <<x, y>>)
  PROVE  Kept(t)
<1>1. 1 + Depth(at) <= Depth(x)
  BY DEF Depth
<1>2. Nests(t, at, <<x, y>>)
  BY <1>1, NestsShort
<1>3. QED
  BY <1>2, KeptIf

(* ... or three.                                                           *)
LEMMA KeptByThree ==
  ASSUME Stacks, Shallow, Looping, NEW t \in Threads,
         NEW at \in Labels \ {"reboot"}, NEW x \in Labels, NEW y \in Labels,
         NEW z \in Labels,
         2 + Depth(at) <= Depth(x), 1 + Depth(at) <= Depth(y),
         Depth(at) <= Depth(z), at \in Rounds => z \in Rounds,
         Go(t, at, <<x, y, z>>)
  PROVE  Kept(t)
<1>1. Nests(t, at, <<x, y, z>>)
  BY NestsShort
<1>2. QED
  BY <1>1, KeptIf

(* The loop of cloud_thread_fn keeps the stacks.                           *)
LEMMA LoopKeeps ==
  ASSUME Stacks, Shallow, Looping, Loop \/ Gate \/ Due
  PROVE  Kept("cloud")
<1> USE Depths DEF Threads
<1>1. CASE Loop
  <2>1. CASE Go("cloud", "loop", <<"poll", "due">>)
    BY <2>1, KeptByTwo
  <2>2. CASE Go("cloud", "loop", <<"gate">>)
    BY <2>2, KeptByOne
  <2>3. QED
    BY <1>1, <2>1, <2>2 DEF Loop
<1>2. CASE Gate
  BY <1>2, KeptByOne DEF Gate
<1>3. CASE Due
  <2>1. CASE Go("cloud", "due", <<"publish", "loop">>)
    BY <2>1, KeptByTwo
  <2>2. CASE Go("cloud", "due", <<"loop">>)
    BY <2>2, KeptByOne
  <2>3. QED
    BY <1>3, <2>1, <2>2 DEF Due
<1>4. QED
  BY <1>1, <1>2, <1>3

(* So does transport_connect, on either thread.                            *)
LEMMA ConnectKeeps ==
  ASSUME Stacks, Shallow, Looping, NEW t \in Threads, ConnectStep(t)
  PROVE  Kept(t)
<1> USE Depths
<1>1. ASSUME Go(t, "dial", AfterFailure(t)) \/ Go(t, "await", AfterFailure(t))
      PROVE  Kept(t)
  <2>1. CASE t = "cloud"
    BY <1>1, <2>1, KeptByTwo DEF AfterFailure
  <2>2. CASE t # "cloud"
    BY <1>1, <2>2, KeptByPop DEF AfterFailure
  <2>3. QED
    BY <2>1, <2>2
<1>2. CASE DialFails(t)
  BY <1>1, <1>2 DEF DialFails
<1>3. CASE DialOK(t)
  BY <1>3, KeptByOne DEF DialOK
<1>4. CASE Connack(t)
  <2>1. CASE Go(t, "await", <<"subscribe", "online", "await">>)
    BY <2>1, KeptByThree, SMTT(30)
  <2>2. CASE Go(t, "poll", <<"subscribe", "online">>)
    BY <2>2, KeptByTwo
  <2>3. QED
    BY <1>4, <2>1, <2>2 DEF Connack
<1>5. CASE ConnackRefused(t)
  BY <1>5, KeptByTwo DEF ConnackRefused
<1>6. CASE Connected(t)
  <2>1. CASE t = "cloud"
    BY <1>6, <2>1, KeptByTwo DEF Connected
  <2>2. CASE t # "cloud"
    BY <1>6, <2>2, KeptByPop DEF Connected
  <2>3. QED
    BY <2>1, <2>2
<1>7. CASE AwaitTimeout(t)
  <2>1. CASE ~ session
    BY <1>1, <1>7, <2>1 DEF AwaitTimeout
  <2>2. CASE session /\ t = "cloud"
    <3>1. Go(t, "await", <<"disconnect">> \o <<"count", "loop">>)
      BY <1>7, <2>2 DEF AwaitTimeout, AfterFailure
    <3>2. <<"disconnect">> \o <<"count", "loop">>
            = <<"disconnect", "count", "loop">>
      BY LabelCat
    <3>3. Go(t, "await", <<"disconnect", "count", "loop">>)
      BY <3>1, <3>2
    <3>4. QED
      BY <3>3, KeptByThree, SMTT(30)
  <2>3. CASE session /\ t # "cloud"
    <3>1. Go(t, "await", <<"disconnect">> \o <<>>)
      BY <1>7, <2>3 DEF AwaitTimeout, AfterFailure
    <3>2. <<"disconnect">> \o <<>> = <<"disconnect">>
      BY ShortCat
    <3>3. QED
      BY <2>3, <3>1, <3>2, KeptByOne
  <2>4. QED
    BY <2>1, <2>2, <2>3
<1>8. QED
  BY <1>2, <1>3, <1>4, <1>5, <1>6, <1>7 DEF ConnectStep

(* So does the event handler, unless it reboots.                           *)
LEMMA EventKeeps ==
  ASSUME Stacks, Shallow, Looping, NEW t \in Threads, EventStep(t)
  PROVE  Kept(t) \/ Reboot(t)
<1> USE Depths
<1>1. CASE Subscribe(t)
  BY <1>1, KeptByPop DEF Subscribe
<1>2. CASE SubscribeFails(t)
  BY <1>2, KeptByOne DEF SubscribeFails
<1>3. CASE Online(t)
  BY <1>3, KeptByOne DEF Online
<1>4. CASE Replay(t)
  BY <1>4, KeptByPop DEF Replay
<1>5. CASE ReplayFails(t)
  BY <1>5, KeptByOne DEF ReplayFails
<1>6. CASE DisconnectEvent(t)
  BY <1>6, KeptByOne DEF DisconnectEvent
<1>7. CASE Offline(t)
  <2>1. CASE Go(t, "offline", <<"forget">>)
    BY <2>1, KeptByOne
  <2>2. CASE Go(t, "offline", <<"count", "forget">>)
    BY <2>2, KeptByTwo
  <2>3. QED
    BY <1>7, <2>1, <2>2 DEF Offline
<1>8. CASE Forget(t)
  BY <1>8, KeptByPop DEF Forget
<1>9. CASE Count(t)
  <2>1. CASE Go(t, "count", <<"reboot">>)
    BY <2>1, KeptByOne
  <2>2. CASE Go(t, "count", <<"sleep">>)
    BY <2>2, KeptByOne
  <2>3. QED
    BY <1>9, <2>1, <2>2 DEF Count
<1>10. CASE Sleep(t)
  BY <1>10, KeptByPop DEF Sleep
<1>11. QED
  BY <1>1, <1>2, <1>3, <1>4, <1>5, <1>6, <1>7, <1>8, <1>9, <1>10 DEF EventStep

(* So do a poll, a publish and the disconnect after it.                    *)
LEMMA PublishKeeps ==
  ASSUME Stacks, Shallow, Looping, NEW t \in Threads, PublishStep(t)
  PROVE  Kept(t)
<1> USE Depths
<1>1. CASE PollQuiet(t)
  BY <1>1, KeptByPop DEF PollQuiet
<1>2. CASE PollLost(t)
  <2>1. CASE Go(t, "poll", <<"disconnect", "disconnect">>)
    BY <2>1, KeptByTwo
  <2>2. CASE Go(t, "poll", <<"disconnect">>)
    BY <2>2, KeptByOne
  <2>3. QED
    BY <1>2, <2>1, <2>2 DEF PollLost
<1>3. CASE PublishRefused(t)
  BY <1>3, KeptByPop DEF PublishRefused
<1>4. CASE PublishFails(t)
  BY <1>4, KeptByOne DEF PublishFails
<1>5. CASE PublishOK(t)
  BY <1>5, KeptByTwo DEF PublishOK
<1>6. CASE Published(t)
  <2>1. CASE Go(t, "published", <<"intend", "hang", "pend">>)
    BY <2>1, KeptByThree, SMTT(30)
  <2>2. CASE Go(t, "published", <<>>)
    BY <2>2, KeptByPop
  <2>3. QED
    BY <1>6, <2>1, <2>2 DEF Published
<1>7. CASE Intend(t)
  BY <1>7, KeptByPop DEF Intend
<1>8. CASE Hang(t)
  <2>1. CASE Go(t, "hang", <<"bye", "close">>)
    BY <2>1, KeptByTwo
  <2>2. CASE Go(t, "hang", <<"bye">>)
    BY <2>2, KeptByOne
  <2>3. QED
    BY <1>8, <2>1, <2>2 DEF Hang
<1>9. CASE Bye(t)
  <2>1. CASE Go(t, "bye", <<"disconnect">>)
    BY <2>1, KeptByOne
  <2>2. CASE Go(t, "bye", <<>>)
    BY <2>2, KeptByPop
  <2>3. QED
    BY <1>9, <2>1, <2>2 DEF Bye
<1>10. CASE Close(t)
  BY <1>10, KeptByPop DEF Close
<1>11. CASE Pend(t)
  BY <1>11, KeptByPop DEF Pend
<1>12. QED
  BY <1>1, <1>2, <1>3, <1>4, <1>5, <1>6, <1>7, <1>8, <1>9, <1>10, <1>11
  DEF PublishStep

-----------------------------------------------------------------------------
(* Types, nesting and the count of failures *)

(* At the boot the one thread is at its loop and nothing is counted.       *)
LEMMA StacksInit ==
  Init => Flags /\ Kinds /\ Stacks /\ Shallow /\ Looping /\ CountBound
<1> SUFFICES ASSUME Init
             PROVE  Flags /\ Kinds /\ Stacks /\ Shallow /\ Looping /\ CountBound
  OBVIOUS
<1>1. stack["cloud"] = <<"loop">> /\ stack["app"] = <<>>
  BY DEF Init
<1>2. Flags /\ Kinds
  <2>1. Flags
    BY DEF Init, Flags
  <2>2. Kinds
    BY SessionAssumption DEF Init, Kinds
  <2>3. QED
    BY <2>1, <2>2
<1>3. Stacks
  <2>1. <<"loop">> \in Seq(Labels) /\ <<>> \in Seq(Labels)
    <3>1. "loop" \in Labels
      BY DEF Labels
    <3>2. QED
      BY <3>1
  <2>2. stack = [cloud |-> <<"loop">>, app |-> <<>>]
    BY DEF Init
  <2>3. PICK loop, none \in Seq(Labels) : loop = <<"loop">> /\ none = <<>>
    BY <2>1
  <2>4. stack = [cloud |-> loop, app |-> none]
    BY <2>2, <2>3
  <2>5. QED
    BY <2>4 DEF Stacks, Threads
<1>4. Shallow
  <2>1. /\ Len(stack["cloud"]) = 1 /\ stack["cloud"][1] = "loop"
        /\ Len(stack["app"]) = 0 /\ Depth("loop") = 1
    BY <1>1, Depths
  <2>2. ASSUME NEW t \in Threads, NEW i \in 1 .. Len(stack[t])
        PROVE  Len(stack[t]) - i + 1 <= Depth(stack[t][i])
    <3>1. CASE t = "cloud"
      <4>1. i \in 1 .. 1
        BY <2>1, <3>1
      <4>2. i = 1
        BY <4>1
      <4>3. Len(stack[t]) - i + 1 = 1 /\ Depth(stack[t][i]) = 1
        BY <2>1, <3>1, <4>2
      <4>4. QED
        BY <4>3
    <3>2. CASE t = "app"
      BY <2>1, <3>2
    <3>3. QED
      BY <3>1, <3>2 DEF Threads
  <2>3. QED
    BY <2>2 DEF Shallow
<1>5. Looping
  BY <1>1 DEF Looping, Rounds
<1>6. CountBound
  BY SessionAssumption DEF Init, CountBound, Rebooting
<1>7. QED
  BY <1>2, <1>3, <1>4, <1>5, <1>6

(* A reboot is a new boot.                                                 *)
LEMMA RebootInit == ASSUME NEW t \in Threads, Reboot(t) PROVE Init'
BY DEF Reboot, Init

(* Flags stay flags.                                                       *)
LEMMA FlagsStep == Flags /\ [Next]_vars => Flags'
<1> SUFFICES ASSUME Flags, [Next]_vars PROVE Flags'
  OBVIOUS
<1> USE DEF Flags, link, state, flags, hist
<1>1. CASE Loop \/ Gate \/ Due
  BY <1>1 DEF Loop, Gate, Due
<1>2. ASSUME NEW t \in Threads, ConnectStep(t) PROVE Flags'
  BY <1>2 DEF ConnectStep, DialFails, DialOK, Connack, ConnackRefused,
     Connected, AwaitTimeout, Drop, Outage
<1>3. ASSUME NEW t \in Threads, EventStep(t) PROVE Flags'
  BY <1>3 DEF EventStep, Subscribe, SubscribeFails, Online, Replay,
     ReplayFails, DisconnectEvent, Offline, Forget, Count, Sleep, Reboot,
     Drop, LinkLost, Outage, NoLongerAlone
<1>4. ASSUME NEW t \in Threads, PublishStep(t) PROVE Flags'
  BY <1>4 DEF PublishStep, PollQuiet, PollLost, PublishRefused, PublishFails,
     PublishOK, Published, Intend, Hang, Bye, Close, Pend, Drop, LinkLost,
     Outage
<1>5. CASE AppCall \/ AppWait \/ WaitEnds
  BY <1>5 DEF AppCall, AppWait, WaitEnds, NoLongerAlone
<1>6. CASE UNCHANGED vars
  BY <1>6 DEF vars
<1>7. QED
  BY <1>1, <1>2, <1>3, <1>4, <1>5, <1>6
  DEF Next, CloudStep, AppStep, Threads

(* The other variables keep their types.                                   *)
LEMMA KindsStep == Kinds /\ [Next]_vars => Kinds'
<1> SUFFICES ASSUME Kinds, [Next]_vars PROVE Kinds'
  OBVIOUS
<1> USE SessionAssumption DEF Kinds, link, state, flags, hist
<1>1. CASE Loop \/ Gate \/ Due
  BY <1>1 DEF Loop, Gate, Due
<1>2. ASSUME NEW t \in Threads, ConnectStep(t) PROVE Kinds'
  BY <1>2 DEF ConnectStep, DialFails, DialOK, Connack, ConnackRefused,
     Connected, AwaitTimeout, Drop, Outage
<1>3. ASSUME NEW t \in Threads, EventStep(t) PROVE Kinds'
  BY <1>3 DEF EventStep, Subscribe, SubscribeFails, Online, Replay,
     ReplayFails, DisconnectEvent, Offline, Forget, Count, Sleep, Reboot,
     Drop, LinkLost, Outage, NoLongerAlone
<1>4. ASSUME NEW t \in Threads, PublishStep(t) PROVE Kinds'
  BY <1>4 DEF PublishStep, PollQuiet, PollLost, PublishRefused, PublishFails,
     PublishOK, Published, Intend, Hang, Bye, Close, Pend, Drop, LinkLost,
     Outage
<1>5. CASE AppCall \/ AppWait \/ WaitEnds
  BY <1>5 DEF AppCall, AppWait, WaitEnds, NoLongerAlone
<1>6. CASE UNCHANGED vars
  BY <1>6 DEF vars
<1>7. QED
  BY <1>1, <1>2, <1>3, <1>4, <1>5, <1>6
  DEF Next, CloudStep, AppStep, Threads

(* A step that neither counts nor reboots leaves the count below the limit.*)
LEMMA CountKept ==
  ASSUME CountBound, NEW t \in Threads, Kept(t),
         g_failure_count' \in {g_failure_count, 0}
  PROVE  CountBound'
<1>1. Rebooting(t) = 0 /\ \A u \in Threads : Rebooting(u)' \in {0, 1}
  BY DEF Kept, Rebooting
<1>2. \A u \in Threads \ {t} : Rebooting(u)' = Rebooting(u)
  BY DEF Kept, Rebooting
<1>3. /\ Rebooting("cloud") <= Rebooting("cloud")'
      /\ Rebooting("app") <= Rebooting("app")'
      /\ Rebooting("cloud") \in {0, 1} /\ Rebooting("app") \in {0, 1}
      /\ Rebooting("cloud")' \in {0, 1} /\ Rebooting("app")' \in {0, 1}
  BY <1>1, <1>2 DEF Threads, Rebooting
<1>4. QED
  BY <1>3, SessionAssumption DEF CountBound

(* One that counts does too, or goes to its reboot.                        *)
LEMMA CountCounts ==
  ASSUME Stacks, CountBound, NEW t \in Threads, Kept(t), Count(t)
  PROVE  CountBound'
<1>1. PICK u \in Threads : /\ u # t /\ Threads = {t, u}
                           /\ Rebooting(u)' = Rebooting(u)
  BY DEF Kept, Rebooting, Threads
<1>2. Rebooting(t) = 0 /\ Rebooting(u) \in {0, 1}
  BY DEF Kept, Rebooting
<1>3. g_failure_count \in Nat /\ g_failure_count < MaxAttempts + Rebooting(u)
  BY <1>1, <1>2, SessionAssumption DEF CountBound, Threads
<1>4. g_failure_count' = g_failure_count + 1
  BY DEF Count
<1>5. CASE g_failure_count + 1 < MaxAttempts
  <2>1. Rebooting("cloud")' \in {0, 1} /\ Rebooting("app")' \in {0, 1}
    BY DEF Rebooting
  <2>2. QED
    BY <1>3, <1>4, <1>5, <2>1, SessionAssumption DEF CountBound
<1>6. CASE ~ (g_failure_count + 1 < MaxAttempts)
  <2>1. Go(t, "count", <<"reboot">>)
    BY <1>3, <1>6, SessionAssumption DEF Count
  <2>2. Top(t)' = "reboot"
    <3>1. "count" \in Labels /\ "reboot" \in Labels
          /\ <<"reboot">> \in Seq(Labels)
      <4>1. "count" \in Labels /\ "reboot" \in Labels
        BY Depths
      <4>2. QED
        BY <4>1
    <3>2. /\ stack'[t] = <<"reboot">> \o Tail(stack[t])
          /\ Tail(stack[t]) \in Seq(Labels)
      BY <2>1, <3>1, Moves
    <3>3. stack'[t] # <<>> /\ Head(stack'[t]) = "reboot"
      BY <3>1, <3>2, CatIs
    <3>4. QED
      BY <3>3 DEF Top
  <2>3. Rebooting(t)' = 1
    BY <2>2 DEF Rebooting
  <2>4. g_failure_count' < MaxAttempts + Rebooting(t)' + Rebooting(u)'
    BY <1>1, <1>2, <1>3, <1>4, <2>3, SessionAssumption
  <2>5. Rebooting(t)' + Rebooting(u)' = Rebooting("cloud")' + Rebooting("app")'
    BY <1>1, <1>2, <2>3 DEF Threads
  <2>6. QED
    BY <1>1, <1>2, <1>3, <1>4, <2>3, <2>4, <2>5, SessionAssumption
    DEF CountBound, Threads
<1>7. QED
  BY <1>5, <1>6

(* A call of the application begins a stack of one step. *)
LEMMA CallKept ==
  ASSUME Stacks, Shallow, Looping, CountBound, stack["app"] = <<>>,
         NEW call \in Labels \ {"reboot"},
         stack' = [stack EXCEPT !["app"] = <<call>>],
         g_failure_count' = g_failure_count
  PROVE  Stacks' /\ Shallow' /\ Looping' /\ CountBound'
<1>1. /\ stack'["app"] = <<call>> /\ stack'["cloud"] = stack["cloud"]
      /\ Stacks'
  <2>1. <<call>> \in Seq(Labels)
    OBVIOUS
  <2>2. QED
    BY <2>1 DEF Stacks, Threads
<1>2. Shallow'
  <2>1. ASSUME NEW t \in Threads, NEW i \in 1 .. Len(stack'[t])
        PROVE  Len(stack'[t]) - i + 1 <= Depth(stack'[t][i])
    <3>1. CASE t = "cloud"
      BY <1>1, <3>1 DEF Shallow
    <3>2. CASE t = "app"
      <4>1. Len(stack'[t]) = 1 /\ i \in 1 .. 1 /\ stack'[t][1] = call
        BY <1>1, <3>2
      <4>2. i = 1 /\ Depth(call) \in Nat /\ 1 <= Depth(call)
        BY <4>1 DEF Depth
      <4>3. Len(stack'[t]) - i + 1 = 1 /\ stack'[t][i] = call
        BY <4>1, <4>2
      <4>4. QED
        BY <4>2, <4>3
    <3>3. QED
      BY <3>1, <3>2 DEF Threads
  <2>2. QED
    BY <2>1 DEF Shallow
<1>3. Looping'
  BY <1>1 DEF Looping
<1>4. CountBound'
  <2>1. Rebooting("cloud")' = Rebooting("cloud") /\ Rebooting("app") = 0
        /\ Rebooting("cloud") \in {0, 1} /\ Rebooting("app")' \in {0, 1}
    BY <1>1 DEF Rebooting, Top
  <2>2. QED
    BY <2>1, SessionAssumption DEF CountBound
<1>5. QED
  BY <1>1, <1>2, <1>3, <1>4

(* Every step keeps the stacks and the bound of the count.                 *)
LEMMA StacksStep ==
  Stacks /\ Shallow /\ Looping /\ CountBound /\ [Next]_vars
    => Stacks' /\ Shallow' /\ Looping' /\ CountBound'
<1> SUFFICES ASSUME Stacks, Shallow, Looping, CountBound, [Next]_vars
             PROVE  Stacks' /\ Shallow' /\ Looping' /\ CountBound'
  OBVIOUS
<1>1. ASSUME NEW t \in Threads, Kept(t),
             g_failure_count' \in {g_failure_count, 0}
      PROVE  Stacks' /\ Shallow' /\ Looping' /\ CountBound'
  BY <1>1, CountKept DEF Kept
<1>2. CASE Loop \/ Gate \/ Due
  BY <1>1, <1>2, LoopKeeps DEF Loop, Gate, Due, Threads
<1>3. ASSUME NEW t \in Threads, ConnectStep(t)
      PROVE  Stacks' /\ Shallow' /\ Looping' /\ CountBound'
  <2>1. g_failure_count' = g_failure_count
    BY <1>3 DEF ConnectStep, DialFails, DialOK, Connack, ConnackRefused,
       Connected, AwaitTimeout
  <2>2. QED
    BY <1>1, <1>3, <2>1, ConnectKeeps
<1>4. ASSUME NEW t \in Threads, PublishStep(t)
      PROVE  Stacks' /\ Shallow' /\ Looping' /\ CountBound'
  <2>1. g_failure_count' \in {g_failure_count, 0}
    BY <1>4 DEF PublishStep, PollQuiet, PollLost, PublishRefused,
       PublishFails, PublishOK, Published, Intend, Hang, Bye, Close, Pend
  <2>2. QED
    BY <1>1, <1>4, <2>1, PublishKeeps
<1>5. ASSUME NEW t \in Threads, EventStep(t)
      PROVE  Stacks' /\ Shallow' /\ Looping' /\ CountBound'
  <2>1. CASE Reboot(t)
    BY <2>1, RebootInit, StacksInit, PTL
  <2>2. CASE ~ Reboot(t) /\ Count(t)
    <3>1. Kept(t)
      BY <1>5, <2>2, EventKeeps
    <3>2. QED
      BY <2>2, <3>1, CountCounts DEF Kept
  <2>3. CASE ~ Reboot(t) /\ ~ Count(t)
    <3>1. Kept(t)
      BY <1>5, <2>3, EventKeeps
    <3>2. g_failure_count' \in {g_failure_count, 0}
      BY <1>5, <2>3 DEF EventStep, Subscribe, SubscribeFails, Online, Replay,
         ReplayFails, DisconnectEvent, Offline, Forget, Sleep
    <3>3. QED
      BY <1>1, <3>1, <3>2
  <2>4. QED
    BY <2>1, <2>2, <2>3
<1>6. CASE WaitEnds
  <2>1. Kept("app")
    BY <1>6, KeptByPop, Depths DEF WaitEnds, Threads
  <2>2. QED
    BY <1>1, <1>6, <2>1 DEF WaitEnds, Threads
<1>7. CASE AppCall
  <2>1. PICK call \in AppCalls \ {"wait"} :
          stack' = [stack EXCEPT !["app"] = <<FirstStep[call]>>]
    BY <1>7 DEF AppCall
  <2>2. FirstStep[call] \in Labels \ {"reboot"}
    BY <2>1, SessionAssumption DEF FirstStep, Labels
  <2>3. QED
    BY <1>7, <2>1, <2>2, CallKept DEF AppCall
<1>8. CASE AppWait
  <2>1. CASE UNCHANGED stack
    BY <1>8, <2>1 DEF AppWait, Stacks, Shallow, Looping, CountBound,
       Rebooting, Top
  <2>2. CASE stack' = [stack EXCEPT !["app"] = <<"wait">>]
    BY <1>8, <2>2, CallKept, Depths DEF AppWait
  <2>3. QED
    BY <1>8, <2>1, <2>2 DEF AppWait
<1>9. CASE UNCHANGED vars
  BY <1>9 DEF vars, Stacks, Shallow, Looping, CountBound, Rebooting, Top
<1>10. QED
  BY <1>2, <1>3, <1>4, <1>5, <1>6, <1>7, <1>8, <1>9
  DEF Next, CloudStep, AppStep, Threads

(* The four cases of Turns, to be cited one by one: back to what is below, *)
LEMMA TurnBack ==
  ASSUME Stacks, NEW at \in Labels, Go("cloud", at, <<>>)
  PROVE  /\ top = at /\ stack'["app"] = stack["app"]
         /\ rest # <<>> => top' = Head(rest) /\ rest' = Tail(rest)
BY Turns

(* one step instead of the one taken,                                      *)
LEMMA TurnOne ==
  ASSUME Stacks, NEW at \in Labels, NEW x \in Labels, Go("cloud", at, <<x>>)
  PROVE  /\ top = at /\ stack'["app"] = stack["app"]
         /\ top' = x /\ rest' = rest
BY Turns

(* two steps,                                                              *)
LEMMA TurnTwo ==
  ASSUME Stacks, NEW at \in Labels, NEW x \in Labels, NEW y \in Labels,
         Go("cloud", at, <<x, y>>)
  PROVE  /\ top = at /\ stack'["app"] = stack["app"]
         /\ top' = x /\ rest' = <<y>> \o rest
BY Turns

(* and three.                                                              *)
LEMMA TurnThree ==
  ASSUME Stacks, NEW at \in Labels, NEW x \in Labels, NEW y \in Labels,
         NEW z \in Labels, Go("cloud", at, <<x, y, z>>)
  PROVE  /\ top = at /\ stack'["app"] = stack["app"]
         /\ top' = x /\ rest' = <<y, z>> \o rest
BY Turns

-----------------------------------------------------------------------------
(* The cloud thread alone *)

AloneInv == Nested /\ Linked /\ Intended /\ Ended /\ Answered

(* Below the step that counts a loss is the step that forgets the flag.    *)
LEMMA Forgets ==
  ASSUME NEW r \in Interrupted
  PROVE  /\ <<"forget">> \o r \in Forgetting
         /\ <<"forget">> \o r = <<"forget", "await">> <=> r = <<"await">>
<1>1. /\ \A a \in Labels : <<"forget">> \o <<a>> = <<"forget", a>>
      /\ \A a, b \in Labels : <<"forget">> \o <<a, b>> = <<"forget", a, b>>
  BY LabelCat, Depths
<1>2. <<"forget">> \o <<"disconnect", "published", "loop">>
        = <<"forget", "disconnect", "published", "loop">>
  BY Depths, LongCat
<1>3. /\ <<"forget">> \o <<"await">> = <<"forget", "await">>
      /\ <<"forget">> \o <<"due">> = <<"forget", "due">>
      /\ <<"forget">> \o <<"loop">> = <<"forget", "loop">>
      /\ <<"forget">> \o <<"published", "loop">>
            = <<"forget", "published", "loop">>
      /\ <<"forget">> \o <<"disconnect", "due">>
            = <<"forget", "disconnect", "due">>
  BY <1>1, Depths
<1>4. <<"forget">> \o r \in Forgetting
  BY <1>2, <1>3 DEF Interrupted, Forgetting
<1>5. CASE r \in {<<"due">>, <<"loop">>}
  BY <1>3, <1>4, <1>5
<1>6. CASE r \in {<<"published", "loop">>, <<"disconnect", "due">>}
  BY <1>3, <1>4, <1>6
<1>7. CASE r = <<"disconnect", "published", "loop">>
  BY <1>2, <1>4, <1>7
<1>8. CASE r = <<"await">>
  BY <1>3, <1>8, <1>4
<1>9. QED
  BY <1>4, <1>5, <1>6, <1>7, <1>8 DEF Interrupted

(* What is done after the flag was forgotten, and after a backoff.         *)
LEMMA Resumes ==
  /\ \A r \in Interrupted :
       /\ r # <<>> /\ r # ForPsm
       /\ \/ Head(r) = "await" /\ Tail(r) = <<>> /\ r = <<"await">>
          \/ /\ \/ Head(r) \in {"due", "loop"} /\ Tail(r) = <<>>
                \/ Head(r) = "published" /\ Tail(r) = <<"loop">>
                \/ Head(r) = "disconnect" /\ Tail(r) = <<"due">>
                \/ Head(r) = "disconnect" /\ Tail(r) = <<"published", "loop">>
             /\ r # <<"await">>
  /\ ForPsm # <<>> /\ Head(ForPsm) = "close"
  /\ Tail(ForPsm) = <<"pend", "loop">>
  /\ \A r \in Forgetting :
       /\ r # <<>> /\ r # <<"loop">> /\ r # ForPsm
       /\ Head(r) = "forget" /\ Tail(r) \in Interrupted
       /\ r = <<"forget", "await">> <=> Tail(r) = <<"await">>
BY DEF Interrupted, Forgetting, ForPsm

(* The rounds of the loop.                                                 *)
LEMMA AloneLoop ==
  ASSUME SessionInv, alone, Loop \/ Gate \/ Due
  PROVE  AloneInv'
<1>1. Stacks /\ (top \in {"loop", "gate", "due"} => rest = <<>>)
  BY DEF SessionInv, Nested, Rounds
<1>2. ASSUME Go("cloud", "loop", <<"poll", "due">>)
      PROVE  /\ top = "loop" /\ rest = <<>> /\ stack'["app"] = stack["app"]
             /\ top' = "poll" /\ rest' = <<"due">>
  BY <1>1, <1>2, TurnTwo, LabelCat, Depths
<1>3. ASSUME Go("cloud", "loop", <<"gate">>)
      PROVE  /\ top = "loop" /\ rest = <<>> /\ stack'["app"] = stack["app"]
             /\ top' = "gate" /\ rest' = <<>>
  BY <1>1, <1>3, TurnOne, Depths
<1>4. ASSUME Go("cloud", "gate", <<"dial">>)
      PROVE  /\ top = "gate" /\ rest = <<>> /\ stack'["app"] = stack["app"]
             /\ top' = "dial" /\ rest' = <<>>
  BY <1>1, <1>4, TurnOne, Depths
<1>5. ASSUME Go("cloud", "due", <<"loop">>)
      PROVE  /\ top = "due" /\ rest = <<>> /\ stack'["app"] = stack["app"]
             /\ top' = "loop" /\ rest' = <<>>
  BY <1>1, <1>5, TurnOne, Depths
<1>6. ASSUME Go("cloud", "due", <<"publish", "loop">>)
      PROVE  /\ top = "due" /\ rest = <<>> /\ stack'["app"] = stack["app"]
             /\ top' = "publish" /\ rest' = <<"loop">>
  BY <1>1, <1>6, TurnTwo, LabelCat, Depths
<1> USE DEF SessionInv, AloneInv, Nested, Linked, Intended, Ended, Answered,
   Up, Down, Rounds, ForPsm, link, state, flags, hist, Flags, Kinds
<1>7. CASE Loop /\ connected
  BY <1>2, <1>7 DEF Loop
<1>8. CASE Loop /\ ~ connected
  BY <1>3, <1>8 DEF Loop
<1>9. CASE Gate
  BY <1>4, <1>9 DEF Gate
<1>10. CASE Due /\ Go("cloud", "due", <<"loop">>)
  BY <1>5, <1>10 DEF Due
<1>11. CASE Due /\ Go("cloud", "due", <<"publish", "loop">>)
  BY <1>6, <1>11 DEF Due
<1>12. QED
  BY <1>7, <1>8, <1>9, <1>10, <1>11 DEF Due

(* An attempt to connect.                                                  *)
LEMMA AloneConnect ==
  ASSUME SessionInv, alone, ConnectStep("cloud")
  PROVE  AloneInv'
<1>1. /\ Stacks
      /\ top \in {"dial", "await"} => rest = <<>>
      /\ top = "poll" => session
      /\ top = "await" /\ ~ connected => ~ session
  BY DEF SessionInv, Nested, Linked, Rounds, Up, Down
<1>2. ASSUME Go("cloud", "dial", <<"count", "loop">>)
      PROVE  /\ top = "dial" /\ rest = <<>> /\ stack'["app"] = stack["app"]
             /\ top' = "count" /\ rest' = <<"loop">>
  BY <1>1, <1>2, TurnTwo, LabelCat, Depths
<1>c. ASSUME Go("cloud", "await", <<"count", "loop">>)
      PROVE  /\ top = "await" /\ rest = <<>> /\ stack'["app"] = stack["app"]
             /\ top' = "count" /\ rest' = <<"loop">>
  BY <1>1, <1>c, TurnTwo, LabelCat, Depths
<1>3. ASSUME Go("cloud", "dial", <<"await">>)
      PROVE  /\ top = "dial" /\ rest = <<>> /\ stack'["app"] = stack["app"]
             /\ top' = "await" /\ rest' = <<>>
  BY <1>1, <1>3, TurnOne, Depths
<1>4. ASSUME Go("cloud", "await", <<"subscribe", "online", "await">>)
      PROVE  /\ top = "await" /\ rest = <<>> /\ stack'["app"] = stack["app"]
             /\ top' = "subscribe" /\ rest' = <<"online", "await">>
  <2>1. /\ "subscribe" \in Labels /\ "online" \in Labels /\ "await" \in Labels
        /\ <<"online", "await">> \in Seq(Labels)
    <3>1. "subscribe" \in Labels /\ "online" \in Labels /\ "await" \in Labels
      BY Depths
    <3>2. QED
      BY <3>1
  <2>2. /\ top = "await" /\ stack'["app"] = stack["app"]
        /\ top' = "subscribe" /\ rest' = <<"online", "await">> \o rest
    BY <1>1, <1>4, <2>1, TurnThree
  <2>3. QED
    BY <1>1, <2>1, <2>2, ConcatEmptySeq
<1>5. ASSUME Go("cloud", "await", <<"disconnect", "await">>)
      PROVE  /\ top = "await" /\ rest = <<>> /\ stack'["app"] = stack["app"]
             /\ top' = "disconnect" /\ rest' = <<"await">>
  BY <1>1, <1>5, TurnTwo, LabelCat, Depths
<1>6. ASSUME Go("cloud", "await", <<"poll", "due">>)
      PROVE  /\ top = "await" /\ rest = <<>> /\ stack'["app"] = stack["app"]
             /\ top' = "poll" /\ rest' = <<"due">>
  BY <1>1, <1>6, TurnTwo, LabelCat, Depths
<1>a. ~ session => ~ Go("cloud", "poll", <<"subscribe", "online">>)
  BY <1>1 DEF Go, top
<1> USE DEF SessionInv, AloneInv, Nested, Linked, Intended, Ended, Answered,
   Up, Down, Rounds, ForPsm, Interrupted, Forgetting, link, state, flags, hist,
   Flags, Kinds
<1>7. CASE DialFails("cloud")
  BY <1>2, <1>7, SessionAssumption
  DEF DialFails, AfterFailure, Outage, CountBound
<1>8. CASE DialOK("cloud")
  BY <1>3, <1>8 DEF DialOK
<1>9. CASE Connack("cloud")
  BY <1>4, <1>9, <1>a DEF Connack
<1>10. CASE ConnackRefused("cloud")
  BY <1>5, <1>10 DEF ConnackRefused, Drop
<1>11. CASE Connected("cloud")
  BY <1>6, <1>11 DEF Connected
<1>12. CASE AwaitTimeout("cloud")
  <2>1. top = "await" /\ ~ session /\ Go("cloud", "await", <<"count", "loop">>)
    <3>1. top = "await"
      BY <1>12 DEF AwaitTimeout, Go, top
    <3>2. QED
      BY <1>1, <1>12, <3>1 DEF AwaitTimeout, AfterFailure
  <2>2. QED
    BY <1>c, <1>12, <2>1, SessionAssumption DEF AwaitTimeout, Drop, Outage,
       CountBound
<1>13. QED
  BY <1>7, <1>8, <1>9, <1>10, <1>11, <1>12 DEF ConnectStep

(* The event handler and the failure counter.                              *)
LEMMA AloneEvent ==
  ASSUME SessionInv, alone, EventStep("cloud")
  PROVE  AloneInv'
<1>1. /\ Stacks
      /\ top = "subscribe" => rest = <<"online", "await">>
      /\ top = "replay" => rest = <<"await">>
      /\ top \in {"offline", "forget"} => rest \in Interrupted \cup {ForPsm}
      /\ top \in {"offline"} => (g_intentional_disconnect <=> rest = ForPsm)
      /\ top = "sleep" => rest \in Forgetting \cup {<<"loop">>}
  BY DEF SessionInv, Nested, Intended
<1>2. ASSUME Go("cloud", "subscribe", <<>>)
      PROVE  /\ top = "subscribe" /\ stack'["app"] = stack["app"]
             /\ top' = "online" /\ rest' = <<"await">>
  <2>1. "subscribe" \in Labels
    BY Depths
  <2>2. /\ top = "subscribe" /\ stack'["app"] = stack["app"]
        /\ rest # <<>> => top' = Head(rest) /\ rest' = Tail(rest)
    BY <1>1, <1>2, <2>1, TurnBack
  <2>3. rest = <<"online", "await">>
    BY <1>1, <2>2
  <2>4. /\ rest # <<>> /\ Head(rest) = "online" /\ Tail(rest) = <<"await">>
    BY <2>3
  <2>5. QED
    BY <2>2, <2>4
<1>3. ASSUME NEW at \in Labels, NEW x \in Labels, Go("cloud", at, <<x>>)
      PROVE  /\ top = at /\ stack'["app"] = stack["app"]
             /\ top' = x /\ rest' = rest
  BY <1>1, <1>3, TurnOne
<1>4. ASSUME Go("cloud", "replay", <<>>)
      PROVE  /\ top = "replay" /\ stack'["app"] = stack["app"]
             /\ top' = "await" /\ rest' = <<>>
  <2>1. "replay" \in Labels
    BY Depths
  <2>2. /\ top = "replay" /\ stack'["app"] = stack["app"]
        /\ rest # <<>> => top' = Head(rest) /\ rest' = Tail(rest)
    BY <1>1, <1>4, <2>1, TurnBack
  <2>3. rest = <<"await">>
    BY <1>1, <2>2
  <2>4. /\ rest # <<>> /\ Head(rest) = "await" /\ Tail(rest) = <<>>
    BY <2>3
  <2>5. QED
    BY <2>2, <2>4
<1>5. ASSUME Go("cloud", "offline", <<"count", "forget">>), rest \in Interrupted
      PROVE  /\ top = "offline" /\ stack'["app"] = stack["app"]
             /\ top' = "count" /\ rest' \in Forgetting
             /\ rest' = <<"forget", "await">> <=> rest = <<"await">>
  <2>1. /\ top = "offline" /\ stack'["app"] = stack["app"]
        /\ top' = "count" /\ rest' = <<"forget">> \o rest
    BY <1>1, <1>5, TurnTwo, Depths
  <2>2. QED
    BY <1>5, <2>1, Forgets
<1>6. ASSUME Go("cloud", "forget", <<>>)
      PROVE  /\ top = "forget" /\ stack'["app"] = stack["app"]
             /\ top' = Head(rest) /\ rest' = Tail(rest)
  <2>1. "forget" \in Labels
    BY Depths
  <2>2. rest # <<>>
    <3>1. top = "forget"
      BY <1>6 DEF Go, top
    <3>2. QED
      BY <1>1, <3>1 DEF Interrupted, ForPsm
  <2>3. QED
    BY <1>1, <1>6, <2>1, <2>2, TurnBack
<1>7. ASSUME Go("cloud", "sleep", <<>>)
      PROVE  /\ top = "sleep" /\ stack'["app"] = stack["app"]
             /\ top' = Head(rest) /\ rest' = Tail(rest)
  <2>1. "sleep" \in Labels
    BY Depths
  <2>2. rest # <<>>
    <3>1. top = "sleep"
      BY <1>7 DEF Go, top
    <3>2. QED
      BY <1>1, <3>1 DEF Forgetting
  <2>3. QED
    BY <1>1, <1>7, <2>1, <2>2, TurnBack
<1> USE DEF SessionInv, AloneInv, Nested, Linked, Intended, Ended, Answered,
   Up, Down, Rounds, link, state, flags, hist, Flags, Kinds
<1>8. CASE Subscribe("cloud")
  BY <1>2, <1>8 DEF Subscribe
<1>9. CASE SubscribeFails("cloud")
  BY <1>9 DEF SubscribeFails, NoLongerAlone
<1>10. CASE Online("cloud")
  BY <1>3, <1>10, Depths DEF Online, CountBound
<1>11. CASE Replay("cloud")
  BY <1>4, <1>11 DEF Replay
<1>12. CASE ReplayFails("cloud")
  <2>1. /\ top = "replay" /\ stack'["app"] = stack["app"]
        /\ top' = "disconnect" /\ rest' = <<"await">>
    BY <1>1, <1>3, <1>12, Depths DEF ReplayFails
  <2>2. <<"await">> \in Interrupted /\ <<"await">> # ForPsm
    BY Resumes DEF Interrupted
  <2>3. QED
    BY <1>12, <2>1, <2>2 DEF ReplayFails, LinkLost, Drop, Outage, CountBound
<1>13. CASE DisconnectEvent("cloud")
  BY <1>3, <1>13, Depths DEF DisconnectEvent
<1>14. CASE Offline("cloud")
  <2>1. CASE g_intentional_disconnect
    BY <1>3, <1>14, <2>1, Depths DEF Offline
  <2>2. CASE ~ g_intentional_disconnect
    <3>1. top = "offline" /\ Go("cloud", "offline", <<"count", "forget">>)
      BY <1>14, <2>2 DEF Offline, Go, top
    <3>2. rest \in Interrupted /\ rest # ForPsm
      BY <1>1, <2>2, <3>1
    <3>3. /\ stack'["app"] = stack["app"]
          /\ top' = "count" /\ rest' \in Forgetting
          /\ rest' = <<"forget", "await">> <=> rest = <<"await">>
      BY <1>5, <3>1, <3>2
    <3>4. rest' # ForPsm
      BY <3>3, Resumes
    <3>5. QED
      BY <1>14, <2>2, <3>1, <3>2, <3>3, <3>4 DEF Offline
  <2>3. QED
    BY <2>1, <2>2
<1>15. CASE Forget("cloud")
  <2>1. /\ top = "forget" /\ stack'["app"] = stack["app"]
        /\ top' = Head(rest) /\ rest' = Tail(rest)
        /\ rest \in Interrupted \cup {ForPsm}
    BY <1>1, <1>6, <1>15 DEF Forget
  <2>2. CASE rest = ForPsm
    BY <1>15, <2>1, <2>2, Resumes DEF Forget
  <2>3. CASE rest \in Interrupted
    <3>1. <<"due">> \in Interrupted /\ <<"published", "loop">> \in Interrupted
          /\ <<"due">> # ForPsm /\ <<"published", "loop">> # ForPsm
          /\ rest # ForPsm
      BY <2>3, Resumes DEF Interrupted
    <3>2. QED
      BY <1>15, <2>1, <2>3, <3>1, Resumes DEF Forget
  <2>4. QED
    BY <2>1, <2>2, <2>3
<1>16. CASE Count("cloud")
  BY <1>3, <1>16, Depths DEF Count, CountBound
<1>17. CASE Sleep("cloud")
  <2>1. /\ top = "sleep" /\ stack'["app"] = stack["app"]
        /\ top' = Head(rest) /\ rest' = Tail(rest)
        /\ rest \in Forgetting \cup {<<"loop">>}
    BY <1>1, <1>7, <1>17 DEF Sleep
  <2>2. CASE rest = <<"loop">>
    <3>1. top' = "loop" /\ rest' = <<>>
      BY <2>1, <2>2
    <3>2. rest # <<"forget", "await">>
      BY <2>2
    <3>3. QED
      BY <1>17, <2>1, <3>1, <3>2 DEF Sleep
  <2>3. CASE rest \in Forgetting
    <3>1. /\ top' = "forget" /\ rest' \in Interrupted /\ rest' # ForPsm
          /\ rest = <<"forget", "await">> <=> rest' = <<"await">>
      BY <2>1, <2>3, Resumes
    <3>2. QED
      BY <1>17, <2>1, <3>1 DEF Sleep
  <2>4. QED
    BY <2>1, <2>2, <2>3
<1>18. CASE Reboot("cloud")
  BY <1>18 DEF Reboot, top, rest, Top
<1>19. QED
  BY <1>8, <1>9, <1>10, <1>11, <1>12, <1>13, <1>14, <1>15, <1>16, <1>17, <1>18
  DEF EventStep

(* What is done after a step of a publish. *)
LEMMA PublishResumes ==
  /\ Head(<<"due">>) = "due" /\ Tail(<<"due">>) = <<>>
  /\ Head(<<"loop">>) = "loop" /\ Tail(<<"loop">>) = <<>>
  /\ Head(<<"published", "loop">>) = "published"
  /\ Tail(<<"published", "loop">>) = <<"loop">>
  /\ Head(<<"pend", "loop">>) = "pend" /\ Tail(<<"pend", "loop">>) = <<"loop">>
  /\ Head(<<"hang", "pend", "loop">>) = "hang"
  /\ Tail(<<"hang", "pend", "loop">>) = <<"pend", "loop">>
OBVIOUS

(* A poll, a publish, and the disconnect before a PSM sleep.               *)
LEMMA AlonePublish ==
  ASSUME SessionInv, alone, PublishStep("cloud")
  PROVE  AloneInv'
<1>1. /\ Stacks
      /\ top = "poll" => rest \in {<<"due">>, <<"published", "loop">>}
      /\ top \in {"publish", "published", "pend"} => rest = <<"loop">>
      /\ top = "intend" => rest = <<"hang", "pend", "loop">>
      /\ top \in {"hang", "close"} => rest = <<"pend", "loop">>
      /\ top = "bye" => rest = ForPsm
      /\ top = "hang" => sock
      /\ top = "bye" => session
      /\ top = "poll" => session /\ sock
  BY DEF SessionInv, Nested, Linked, Up
<1>2. ASSUME NEW at \in {"poll", "publish", "published", "pend", "intend",
                        "close"}, Go("cloud", at, <<>>)
      PROVE  /\ top = at /\ stack'["app"] = stack["app"]
             /\ top' = Head(rest) /\ rest' = Tail(rest)
  <2>1. at \in Labels
    BY Depths
  <2>2. /\ top = at /\ stack'["app"] = stack["app"]
        /\ rest # <<>> => top' = Head(rest) /\ rest' = Tail(rest)
    BY <1>1, <1>2, <2>1, TurnBack
  <2>3. rest # <<>>
    BY <1>1, <2>2
  <2>4. QED
    BY <2>2, <2>3
<1>3. ASSUME NEW at \in {"publish", "bye"}, Go("cloud", at, <<"disconnect">>)
      PROVE  /\ top = at /\ stack'["app"] = stack["app"]
             /\ top' = "disconnect" /\ rest' = rest
  <2>1. at \in Labels /\ "disconnect" \in Labels
    BY Depths
  <2>2. QED
    BY <1>1, <1>3, <2>1, TurnOne
<1>4. ASSUME Go("cloud", "poll", <<"disconnect", "disconnect">>)
      PROVE  /\ top = "poll" /\ stack'["app"] = stack["app"]
             /\ top' = "disconnect"
             /\ rest' \in {<<"disconnect", "due">>,
                          <<"disconnect", "published", "loop">>}
  <2>1. /\ top = "poll" /\ stack'["app"] = stack["app"]
        /\ top' = "disconnect" /\ rest' = <<"disconnect">> \o rest
    BY <1>1, <1>4, TurnTwo, Depths
  <2>2. /\ <<"disconnect">> \o <<"due">> = <<"disconnect", "due">>
        /\ <<"disconnect">> \o <<"published", "loop">>
              = <<"disconnect", "published", "loop">>
    BY LabelCat, Depths
  <2>3. QED
    BY <1>1, <2>1, <2>2
<1>5. ASSUME Go("cloud", "publish", <<"poll", "published">>)
      PROVE  /\ top = "publish" /\ stack'["app"] = stack["app"]
             /\ top' = "poll" /\ rest' = <<"published", "loop">>
  <2>1. /\ top = "publish" /\ stack'["app"] = stack["app"]
        /\ top' = "poll" /\ rest' = <<"published">> \o rest
    BY <1>1, <1>5, TurnTwo, Depths
  <2>2. <<"published">> \o <<"loop">> = <<"published", "loop">>
    BY LabelCat, Depths
  <2>3. QED
    BY <1>1, <2>1, <2>2
<1>6. ASSUME Go("cloud", "published", <<"intend", "hang", "pend">>)
      PROVE  /\ top = "published" /\ stack'["app"] = stack["app"]
             /\ top' = "intend" /\ rest' = <<"hang", "pend", "loop">>
  <2>1. /\ top = "published" /\ stack'["app"] = stack["app"]
        /\ top' = "intend" /\ rest' = <<"hang", "pend">> \o rest
    BY <1>1, <1>6, TurnThree, Depths
  <2>2. /\ "hang" \in Labels /\ "pend" \in Labels /\ "loop" \in Labels
    BY Depths
  <2>3. <<"hang", "pend">> \o <<"loop">> = <<"hang", "pend", "loop">>
    BY <2>2, PairCat
  <2>4. QED
    BY <1>1, <2>1, <2>3
<1>7. ASSUME Go("cloud", "hang", <<"bye", "close">>)
      PROVE  /\ top = "hang" /\ stack'["app"] = stack["app"]
             /\ top' = "bye" /\ rest' = ForPsm
  <2>1. /\ top = "hang" /\ stack'["app"] = stack["app"]
        /\ top' = "bye" /\ rest' = <<"close">> \o rest
    BY <1>1, <1>7, TurnTwo, Depths
  <2>2. <<"close">> \o <<"pend", "loop">> = <<"close", "pend", "loop">>
    BY LabelCat, Depths
  <2>3. QED
    BY <1>1, <2>1, <2>2 DEF ForPsm
<1>8. /\ <<"loop">> \in Interrupted /\ <<"disconnect", "due">> \in Interrupted
      /\ <<"disconnect", "published", "loop">> \in Interrupted
      /\ <<"loop">> # <<"await">>
  BY DEF Interrupted
<1>a. ASSUME Go("cloud", "poll", <<>>)
      PROVE  /\ top = "poll" /\ stack'["app"] = stack["app"]
             /\ \/ top' = "due" /\ rest' = <<>>
                \/ top' = "published" /\ rest' = <<"loop">>
  <2>1. /\ top = "poll" /\ stack'["app"] = stack["app"]
        /\ top' = Head(rest) /\ rest' = Tail(rest)
    BY <1>2, <1>a
  <2>2. QED
    BY <1>1, <2>1, PublishResumes
<1>b. ASSUME NEW at \in {"publish", "published", "pend"}, Go("cloud", at, <<>>)
      PROVE  /\ top = at /\ stack'["app"] = stack["app"]
             /\ top' = "loop" /\ rest' = <<>>
  BY <1>1, <1>2, <1>b, PublishResumes
<1>c. ASSUME Go("cloud", "intend", <<>>)
      PROVE  /\ top = "intend" /\ stack'["app"] = stack["app"]
             /\ top' = "hang" /\ rest' = <<"pend", "loop">>
  BY <1>1, <1>2, <1>c, PublishResumes
<1>d. ASSUME Go("cloud", "close", <<>>)
      PROVE  /\ top = "close" /\ stack'["app"] = stack["app"]
             /\ top' = "pend" /\ rest' = <<"loop">>
  BY <1>1, <1>2, <1>d, PublishResumes
<1> USE DEF SessionInv, AloneInv, Nested, Linked, Intended, Ended, Answered,
   Up, Down, Rounds, link, state, flags, hist, Flags, Kinds
<1>9. CASE PollQuiet("cloud")
  BY <1>a, <1>9 DEF PollQuiet
<1>10. CASE PollLost("cloud")
  <2>1. Go("cloud", "poll", <<"disconnect", "disconnect">>)
    <3>1. top = "poll"
      BY <1>10 DEF PollLost, Go, top
    <3>2. QED
      BY <1>1, <1>10, <3>1 DEF PollLost
  <2>2. rest' \in Interrupted /\ rest' # ForPsm
    BY <1>4, <1>8, <2>1, Resumes
  <2>3. QED
    BY <1>4, <1>10, <2>1, <2>2 DEF PollLost, LinkLost, Drop, Outage, CountBound
<1>11. CASE PublishRefused("cloud")
  BY <1>b, <1>11 DEF PublishRefused
<1>12. CASE PublishFails("cloud")
  BY <1>1, <1>3, <1>8, <1>12, Resumes
  DEF PublishFails, LinkLost, Drop, Outage, CountBound
<1>13. CASE PublishOK("cloud")
  BY <1>5, <1>13 DEF PublishOK
<1>14. CASE Published("cloud") /\ Go("cloud", "published", <<>>)
  BY <1>b, <1>14 DEF Published
<1>15. CASE Published("cloud") /\ ~ Go("cloud", "published", <<>>)
  BY <1>6, <1>15 DEF Published
<1>16. CASE Intend("cloud")
  BY <1>c, <1>16 DEF Intend, CountBound
<1>17. CASE Hang("cloud")
  <2>1. Go("cloud", "hang", <<"bye", "close">>)
    <3>1. top = "hang"
      BY <1>17 DEF Hang, Go, top
    <3>2. QED
      BY <1>1, <1>17, <3>1 DEF Hang
  <2>2. QED
    BY <1>7, <1>17, <2>1 DEF Hang
<1>18. CASE Bye("cloud")
  <2>1. Go("cloud", "bye", <<"disconnect">>) /\ session
    <3>1. top = "bye"
      BY <1>18 DEF Bye, Go, top
    <3>2. QED
      BY <1>1, <1>18, <3>1 DEF Bye
  <2>2. QED
    BY <1>3, <1>18, <2>1 DEF Bye, Drop
<1>19. CASE Close("cloud")
  BY <1>d, <1>19 DEF Close
<1>20. CASE Pend("cloud")
  BY <1>b, <1>20 DEF Pend
<1>21. QED
  BY <1>9, <1>10, <1>11, <1>12, <1>13, <1>14, <1>15, <1>16, <1>17, <1>18,
     <1>19, <1>20 DEF PublishStep

(* At the boot the thread is alone, and there is no connection.            *)
LEMMA AloneInit == Init => AloneInv
<1> SUFFICES ASSUME Init PROVE AloneInv
  OBVIOUS
<1>1. stack["cloud"] = <<"loop">> /\ stack["app"] = <<>>
  BY DEF Init
<1>2. top = "loop" /\ rest = <<>>
  BY <1>1 DEF top, rest, Top
<1>3. QED
  BY <1>1, <1>2 DEF Init, AloneInv, Nested, Linked, Intended, Ended, Answered,
     Up, Down, Rounds

-----------------------------------------------------------------------------
(* The application thread, and the thread that is not alone *)

(* What the cloud thread does not see does not disturb it.                 *)
LEMMA AloneSame ==
  ASSUME SessionInv, UNCHANGED <<link, g_sdk_status, g_failure_count, flags,
                                 hist>>,
         alone => stack'["app"] \in {<<>>, <<"wait">>},
         stack'["cloud"] = stack["cloud"]
  PROVE  AloneInv'
<1>1. top' = top /\ rest' = rest
  BY DEF top, rest, Top
<1> USE <1>1 DEF SessionInv, link, flags, hist, Up, Down
<1>2. Nested'
  BY DEF Nested
<1>3. Linked'
  BY DEF Linked
<1>4. Intended' /\ Ended'
  BY DEF Intended, Ended
<1>5. Answered'
  BY DEF Answered
<1>6. QED
  BY <1>2, <1>3, <1>4, <1>5 DEF AloneInv

(* While the cloud thread is alone, the application is at most waiting.    *)
LEMMA AloneApp ==
  ASSUME SessionInv, alone, AppStep
  PROVE  AloneInv'
<1>1. stack["app"] \in {<<>>, <<"wait">>}
  BY DEF SessionInv, Nested
<1>2. Top("app") \in {"none", "wait"}
  BY <1>1 DEF Top
<1>3. ~ ConnectStep("app")
  BY <1>2 DEF ConnectStep, DialFails, DialOK, Connack, ConnackRefused,
     Connected, AwaitTimeout, Go
<1>4. ~ EventStep("app")
  BY <1>2 DEF EventStep, Subscribe, SubscribeFails, Online, Replay,
     ReplayFails, DisconnectEvent, Offline, Forget, Count, Sleep, Reboot, Go
<1>5. ~ PublishStep("app")
  BY <1>2 DEF PublishStep, PollQuiet, PollLost, PublishRefused, PublishFails,
     PublishOK, Published, Intend, Hang, Bye, Close, Pend, Go
<1>6. WaitEnds
  BY <1>3, <1>4, <1>5 DEF AppStep
<1>7. stack'["app"] = <<>> /\ stack'["cloud"] = stack["cloud"]
  <2>1. /\ Top("app") = "wait"
        /\ stack' = [stack EXCEPT !["app"] = <<>> \o Tail(stack["app"])]
    BY <1>6 DEF WaitEnds, Go
  <2>2. stack["app"] = <<"wait">>
    BY <1>1, <2>1 DEF Top
  <2>3. Tail(stack["app"]) = <<>> /\ <<>> \o <<>> = <<>>
    BY <2>2
  <2>4. stack \in [Threads -> Seq(Labels)]
    BY DEF SessionInv, Stacks
  <2>5. QED
    BY <2>1, <2>3, <2>4 DEF Threads
<1>8. UNCHANGED <<link, g_sdk_status, g_failure_count, flags, hist>>
  BY <1>6 DEF WaitEnds, hist
<1>9. QED
  BY <1>7, <1>8, AloneSame

(* What is not alone stays so until the next reboot. *)
LEMMA NotAlone ==
  ASSUME ~ alone, [Next]_vars
  PROVE  AloneInv'
<1>1. ~ alone' \/ \E t \in Threads : Reboot(t)
  BY DEF Next, CloudStep, AppStep, Loop, Gate, Due, ConnectStep, DialFails,
     DialOK, Connack, ConnackRefused, Connected, AwaitTimeout, EventStep,
     Subscribe, SubscribeFails, Online, Replay, ReplayFails, DisconnectEvent,
     Offline, Forget, Count, Sleep, PublishStep, PollQuiet, PollLost,
     PublishRefused, PublishFails, PublishOK, Published, Intend, Hang, Bye,
     Close, Pend, AppCall, AppWait, WaitEnds, NoLongerAlone, LinkLost, Outage,
     hist, vars, Threads
<1>2. CASE ~ alone'
  BY <1>2 DEF AloneInv, Nested, Linked, Intended, Ended, Answered
<1>3. ASSUME NEW t \in Threads, Reboot(t)
      PROVE  AloneInv'
  BY <1>3, RebootInit, AloneInit, PTL
<1>4. QED
  BY <1>1, <1>2, <1>3

(* No step of either thread disturbs what holds while the thread is alone. *)
LEMMA AloneStep == SessionInv /\ [Next]_vars => AloneInv'
<1> SUFFICES ASSUME SessionInv, [Next]_vars PROVE AloneInv'
  OBVIOUS
<1>1. CASE ~ alone
  BY <1>1, NotAlone
<1>2. CASE alone /\ CloudStep
  BY <1>2, AloneLoop, AloneConnect, AloneEvent, AlonePublish DEF CloudStep
<1>3. CASE alone /\ AppStep
  BY <1>3, AloneApp
<1>4. CASE AppCall
  BY <1>4 DEF AppCall, NoLongerAlone, AloneInv, Nested, Linked, Intended,
     Ended, Answered
<1>5. CASE AppWait
  <2>1. /\ stack'["app"] \in {stack["app"], <<"wait">>}
        /\ stack'["cloud"] = stack["cloud"]
    BY <1>5 DEF AppWait, SessionInv, Stacks, Threads
  <2>2. QED
    BY <1>5, <2>1, AloneSame DEF AppWait, hist, SessionInv, Nested
<1>6. CASE UNCHANGED vars
  BY <1>6, AloneSame DEF vars, state, SessionInv, Nested
<1>7. QED
  BY <1>1, <1>2, <1>3, <1>4, <1>5, <1>6 DEF Next

-----------------------------------------------------------------------------
(* The theorems *)

(* The invariant holds at the boot ...                                     *)
LEMMA SessionInit == Init => SessionInv
BY StacksInit, AloneInit DEF SessionInv, AloneInv

(* ... and is inductive.                                                   *)
LEMMA SessionStep == SessionInv /\ [Next]_vars => SessionInv'
<1> SUFFICES ASSUME SessionInv, [Next]_vars PROVE SessionInv'
  OBVIOUS
<1>1. Flags /\ Kinds /\ Stacks /\ Shallow /\ Looping /\ CountBound
  BY DEF SessionInv
<1>2. Flags' /\ Kinds'
  BY <1>1, FlagsStep, KindsStep
<1>3. Stacks' /\ Shallow' /\ Looping' /\ CountBound'
  BY <1>1, StacksStep
<1>4. AloneInv'
  BY AloneStep
<1>5. QED
  BY <1>2, <1>3, <1>4 DEF SessionInv, AloneInv

(* While the thread is alone, the application does not reboot. *)
LEMMA AppIdle ==
  SessionInv /\ alone => Top("app") \in {"none", "wait"}
BY DEF SessionInv, Nested, Top

(* The types hold, no stack grows beyond five steps, and whenever the cloud*)
(* thread, alone with the connection, starts a round of its loop, status,  *)
(* transport, session and socket agree: for any limit of attempts.         *)
THEOREM SessionConsistent == Spec => []Consistent
<1>1. SessionInv => Consistent
  <2> SUFFICES ASSUME SessionInv PROVE Consistent
    OBVIOUS
  <2>1. g_failure_count \in 0 .. MaxAttempts + 1
    BY SessionAssumption DEF SessionInv, CountBound, Rebooting
  <2>2. ASSUME NEW t \in Threads
        PROVE  /\ Len(stack[t]) <= 8
               /\ \A i \in DOMAIN stack[t] : stack[t][i] \in Labels
    <3>1. stack[t] \in Seq(Labels)
      BY DEF SessionInv, Stacks
    <3>2. /\ Len(stack[t]) \in Nat /\ DOMAIN stack[t] = 1 .. Len(stack[t])
          /\ \A i \in 1 .. Len(stack[t]) : stack[t][i] \in Labels
      BY <3>1, LenProperties, ElementOfSeq
    <3>3. CASE Len(stack[t]) > 0
      <4>1. Len(stack[t]) - 1 + 1 <= Depth(stack[t][1])
        BY <3>2, <3>3 DEF SessionInv, Shallow
      <4>2. Depth(stack[t][1]) \in 1 .. 5
        BY DEF Depth
      <4>3. QED
        BY <3>2, <4>1, <4>2
    <3>4. QED
      BY <3>2, <3>3
  <2>3. TypeOK
    <3>1. stack["cloud"] # <<>>
      BY DEF SessionInv, Looping
    <3>2. Flags /\ Kinds
      BY DEF SessionInv
    <3>3. QED
      BY <2>1, <2>2, <3>1, <3>2 DEF TypeOK, Flags, Kinds
  <2>4. StatusAgrees
    BY DEF SessionInv, StatusAgrees, Linked, Flags, Up, Down, top
  <2>5. QED
    BY <2>3, <2>4 DEF Consistent
<1>2. QED
  BY SessionInit, SessionStep, <1>1, PTL DEF Spec

(* No loss escapes the counter of failures, none is answered by dialling   *)
(* before its backoff, and just the disconnect before a PSM sleep is slept *)
(* off: for any limit of attempts, while the cloud thread is alone.        *)
THEOREM LossesAreCounted == Spec => []LossesCounted
<1>1. SessionInv => LossesCounted
  <2> SUFFICES ASSUME SessionInv PROVE LossesCounted
    OBVIOUS
  <2>1. NoFailureMissed
    <3> SUFFICES ASSUME alone PROVE outages <= MaxAttempts
      BY DEF NoFailureMissed
    <3>1. Rebooting("app") = 0 /\ Rebooting("cloud") \in {0, 1}
          /\ (top # "reboot" => Rebooting("cloud") = 0)
      BY AppIdle DEF Rebooting, top
    <3>2. g_failure_count \in Nat /\ outages \in Nat
          /\ g_failure_count < MaxAttempts + Rebooting("cloud")
      BY <3>1, SessionAssumption DEF SessionInv, CountBound, Kinds
    <3>3. \/ outages <= g_failure_count
          \/ top # "reboot" /\ outages <= g_failure_count + 1
      BY DEF SessionInv, Answered
    <3>4. QED
      BY <3>1, <3>2, <3>3, SessionAssumption
  <2>2. NoHotReconnect
    BY DEF SessionInv, NoHotReconnect, Answered, top
  <2>3. SleepsForPsm
    BY DEF SessionInv, SleepsForPsm, Flags, Linked, Ended, Down, top
  <2>4. QED
    BY <2>1, <2>2, <2>3 DEF LossesCounted
<1>2. QED
  BY SessionInit, SessionStep, <1>1, PTL DEF Spec

(* A disconnect that is reported while the thread is alone has happened.   *)
THEOREM LossesAreReal == Spec => []LossIsReal
<1>1. SessionInv => LossIsReal
  <2> SUFFICES ASSUME SessionInv, alone, NEW t \in Threads,
                      Top(t) = "disconnect"
               PROVE  ~ session
    BY DEF LossIsReal
  <2>1. t = "cloud"
    BY AppIdle DEF Threads
  <2>2. QED
    BY <2>1 DEF SessionInv, Linked, top
<1>2. QED
  BY SessionInit, SessionStep, <1>1, PTL DEF Spec

=============================================================================
