---------------------------- MODULE CloudSession ----------------------------
(***************************************************************************)
(* The life of the cloud connection: the loop of cloud_thread_fn, the      *)
(* housekeeping of sdk_internal_event_handler (both src/conexio_cloud.c),  *)
(* the MQTT transport (src/transport/mqtt_transport.c) and the failure     *)
(* counter (src/retry.c), without what is sent over the connection.        *)
(*                                                                         *)
(* The MQTT library calls the event handler on whichever thread is inside  *)
(* it, in the middle of transport_connect, transport_poll or a publish,    *)
(* and the handler sleeps through the backoff.  So every thread has a      *)
(* stack of what it still has to do, its next step on top; an application  *)
(* thread may publish, connect, disconnect and wait for the connection at  *)
(* any time.                                                               *)
(***************************************************************************)
EXTENDS Naturals, Sequences

CONSTANTS
  AppCalls,        \* what the application calls of "publish", "connect",
                   \* "disconnect" and "wait"
  MaxAttempts,     \* CONFIG_CONEXIO_CLOUD_RETRY_MAX_ATTEMPTS
  HandlerFailures  \* calls inside the CONNACK handler that can fail:
                   \* "subscribe", "replay" or both

ASSUME SessionAssumption ==
  /\ AppCalls \subseteq {"publish", "connect", "disconnect", "wait"}
  /\ MaxAttempts \in Nat \ {0}
  /\ HandlerFailures \subseteq {"subscribe", "replay"}

VARIABLES
  connected,    \* mqtt_transport.c: connected
  session,      \* the MQTT client believes it is connected
  sock,         \* client.transport.tls.sock is an open socket
  g_sdk_status,
  g_connected_sem,
  g_failure_count,
  g_intentional_disconnect,
  g_psm_sleep_pending,
  stack,        \* per thread, what it has to do
  loss,         \* history: how the last connection or attempt ended
  outages,      \* history: connections lost and attempts failed since the
                \* last success, counted up to one above MaxAttempts
  owed,         \* history: a loss or failed attempt has not been slept off
  alone         \* history: since boot the application has only waited and
                \* no subscribe has failed

link  == <<connected, session, sock>>
state == <<g_sdk_status, g_connected_sem>>
flags == <<g_intentional_disconnect, g_psm_sleep_pending>>
hist  == <<loss, outages, owed, alone>>
vars  == <<link, state, g_failure_count, flags, stack, hist>>

Threads == {"cloud", "app"}

Top(t) == IF stack[t] = <<>> THEN "none" ELSE Head(stack[t])

(* Thread t replaces the step `at` on its stack by the steps `todo`.       *)
Go(t, at, todo) ==
  /\ Top(t) = at
  /\ stack' = [stack EXCEPT ![t] = todo \o Tail(@)]

Init ==
  /\ connected = FALSE /\ session = FALSE /\ sock = FALSE
  /\ g_sdk_status = "connecting" /\ g_connected_sem = 0
  /\ g_failure_count = 0
  /\ g_intentional_disconnect = FALSE /\ g_psm_sleep_pending = FALSE
  /\ stack = [cloud |-> <<"loop">>, app |-> <<>>]
  /\ loss = "none" /\ outages = 0 /\ owed = FALSE
  /\ alone = TRUE

(* How a call of the application begins: conexio_cloud_connect and         *)
(* conexio_cloud_disconnect are those of the transport.                    *)
FirstStep ==
  [publish |-> "publish", connect |-> "dial", disconnect |-> "hang"]

(* The history is kept while `alone`; nothing asks for it afterwards.      *)
Outage ==
  /\ loss' = IF alone THEN "lost" ELSE loss
  /\ outages' = IF alone /\ outages <= MaxAttempts THEN outages + 1
                                                   ELSE outages
  /\ owed' = (owed \/ alone)

NoLongerAlone ==
  /\ alone' = FALSE
  /\ loss' = "none" /\ outages' = 0 /\ owed' = FALSE

(* The library closes its socket and goes back to idle.                    *)
Drop == session' = FALSE /\ sock' = FALSE

LinkLost == Drop /\ Outage

-----------------------------------------------------------------------------
(* cloud_thread_fn *)

Loop ==
  /\ Go("cloud", "loop", IF connected THEN <<"poll", "due">> ELSE <<"gate">>)
  /\ UNCHANGED <<link, state, g_failure_count, flags, hist>>

(* Sleep for the rest of the interval if the flag says so, then dial.      *)
Gate ==
  /\ Go("cloud", "gate", <<"dial">>)
  /\ g_psm_sleep_pending' = FALSE
  /\ UNCHANGED <<link, state, g_failure_count, g_intentional_disconnect, hist>>

(* After a poll: the interval has not passed, or has. *)
Due ==
  /\ \/ Go("cloud", "due", <<"loop">>)
     \/ Go("cloud", "due", <<"publish", "loop">>)
  /\ UNCHANGED <<link, state, g_failure_count, flags, hist>>

-----------------------------------------------------------------------------
(* transport_connect, which the loop calls, or the application             *)

(* What a failed attempt leaves to its caller.  Only the loop counts it.   *)
AfterFailure(t) == IF t = "cloud" THEN <<"count", "loop">> ELSE <<>>

(* The host is not resolved, or mqtt_connect fails.                        *)
DialFails(t) ==
  /\ Go(t, "dial", AfterFailure(t))
  /\ Outage
  /\ UNCHANGED <<link, state, g_failure_count, flags, alone>>

(* The client is set up anew, whatever it was connected to.                *)
DialOK(t) ==
  /\ Go(t, "dial", <<"await">>)
  /\ session' = FALSE /\ sock' = TRUE
  /\ UNCHANGED <<connected, state, g_failure_count, flags, hist>>

(* CONNACK with result 0, read by the waiting loop; or by a poll, if the   *)
(* application dialled while `connected` still stood.                      *)
Connack(t) ==
  /\ ~ session /\ sock
  /\ \/ ~ connected /\ Go(t, "await", <<"subscribe", "online", "await">>)
     \/ connected /\ Go(t, "poll", <<"subscribe", "online">>)
  /\ connected' = TRUE /\ session' = TRUE
  /\ UNCHANGED <<sock, state, g_failure_count, flags, hist>>

(* The broker refuses or closes the connection.  mqtt_input fails, which   *)
(* the waiting loop does not look at, and the library fires DISCONNECT.    *)
(* The attempt is counted as failed when it times out.                     *)
ConnackRefused(t) ==
  /\ ~ connected /\ sock
  /\ Go(t, "await", <<"disconnect", "await">>)
  /\ Drop
  /\ UNCHANGED <<connected, state, g_failure_count, flags, hist>>

Connected(t) ==
  /\ connected
  /\ Go(t, "await", IF t = "cloud" THEN <<"poll", "due">> ELSE <<>>)
  /\ UNCHANGED <<link, state, g_failure_count, flags, hist>>

(* Ten seconds.  A client that is not connected is told to disconnect,     *)
(* which does nothing and fires no event.                                  *)
AwaitTimeout(t) ==
  /\ ~ connected
  /\ Go(t, "await", IF session THEN <<"disconnect">> \o AfterFailure(t)
                               ELSE AfterFailure(t))
  /\ Drop
  /\ Outage
  /\ UNCHANGED <<connected, state, g_failure_count, flags, alone>>

-----------------------------------------------------------------------------
(* mqtt_evt_handler, transport_on_connected and transport_on_disconnected  *)

Subscribe(t) ==
  /\ Go(t, "subscribe", <<>>)
  /\ UNCHANGED <<link, state, g_failure_count, flags, hist>>

(* The write fails; DISCONNECT is fired inside the CONNACK handler, which  *)
(* goes on as if nothing had happened.                                     *)
SubscribeFails(t) ==
  /\ "subscribe" \in HandlerFailures
  /\ session
  /\ Go(t, "subscribe", <<"disconnect">>)
  /\ Drop
  /\ NoLongerAlone
  /\ UNCHANGED <<connected, state, g_failure_count, flags>>

Online(t) ==
  /\ Go(t, "online", <<"replay">>)
  /\ g_sdk_status' = "connected"
  /\ g_connected_sem' = 1
  /\ g_failure_count' = 0
  /\ outages' = 0
  /\ UNCHANGED <<link, flags, loss, owed, alone>>

Replay(t) ==
  /\ Go(t, "replay", <<>>)
  /\ UNCHANGED <<link, state, g_failure_count, flags, hist>>

(* The publish of a buffered payload fails. *)
ReplayFails(t) ==
  /\ "replay" \in HandlerFailures
  /\ session
  /\ Go(t, "replay", <<"disconnect">>)
  /\ LinkLost
  /\ UNCHANGED <<connected, state, g_failure_count, flags, alone>>

(* Mutant of DisconnectEvent: the transport forgets to note it. *)
DisconnectSilent(t) ==
  /\ Go(t, "disconnect", <<"offline">>)
  /\ UNCHANGED <<link, state, g_failure_count, flags, hist>>

(* MQTT_EVT_DISCONNECT, and the error path of transport_poll. *)
DisconnectEvent(t) ==
  /\ Go(t, "disconnect", <<"offline">>)
  /\ connected' = FALSE
  /\ UNCHANGED <<session, sock, state, g_failure_count, flags, hist>>

Offline(t) ==
  /\ Go(t, "offline",
        IF g_intentional_disconnect THEN <<"forget">>
                                    ELSE <<"count", "forget">>)
  /\ g_sdk_status' = "offline"
  /\ UNCHANGED <<link, g_connected_sem, g_failure_count, flags, hist>>

(* Mutant of Forget: the flag is cleared in the other branch only. *)
ForgetNot(t) ==
  /\ Go(t, "forget", <<>>)
  /\ UNCHANGED <<link, state, g_failure_count, flags, hist>>

Forget(t) ==
  /\ Go(t, "forget", <<>>)
  /\ g_intentional_disconnect' = FALSE
  /\ UNCHANGED <<link, state, g_failure_count, g_psm_sleep_pending, hist>>

-----------------------------------------------------------------------------
(* retry_on_failure *)

(* Mutant of Count: the failure is not counted. *)
CountNot(t) ==
  /\ Go(t, "count", <<"sleep">>)
  /\ UNCHANGED <<link, state, g_failure_count, flags, hist>>

Count(t) ==
  /\ g_failure_count' = g_failure_count + 1
  /\ Go(t, "count",
        IF g_failure_count + 1 >= MaxAttempts THEN <<"reboot">>
                                              ELSE <<"sleep">>)
  /\ UNCHANGED <<link, state, flags, hist>>

Sleep(t) ==
  /\ Go(t, "sleep", <<>>)
  /\ owed' = FALSE
  /\ UNCHANGED <<link, state, g_failure_count, flags, loss, outages,
                 alone>>

Reboot(t) ==
  /\ Top(t) = "reboot"
  /\ connected' = FALSE /\ session' = FALSE /\ sock' = FALSE
  /\ g_sdk_status' = "connecting" /\ g_connected_sem' = 0
  /\ g_failure_count' = 0
  /\ g_intentional_disconnect' = FALSE /\ g_psm_sleep_pending' = FALSE
  /\ stack' = [cloud |-> <<"loop">>, app |-> <<>>]
  /\ loss' = "none" /\ outages' = 0 /\ owed' = FALSE
  /\ alone' = TRUE

-----------------------------------------------------------------------------
(* transport_poll *)

(* Mutant of PollQuiet: the -EAGAIN of mqtt_live is taken for an error.    *)
PollAgainIsLoss(t) ==
  /\ Go(t, "poll", IF connected THEN <<"disconnect">> ELSE <<>>)
  /\ UNCHANGED <<link, state, g_failure_count, flags, hist>>

PollQuiet(t) ==
  /\ Go(t, "poll", <<>>)
  /\ UNCHANGED <<link, state, g_failure_count, flags, hist>>

(* mqtt_input or mqtt_live fails: the library has fired DISCONNECT by the  *)
(* time it returns the error, and transport_poll reports it again.         *)
PollLost(t) ==
  /\ connected
  /\ Go(t, "poll", IF session \/ sock THEN <<"disconnect", "disconnect">>
                                      ELSE <<"disconnect">>)
  /\ LinkLost
  /\ UNCHANGED <<connected, state, g_failure_count, flags, alone>>

-----------------------------------------------------------------------------
(* conexio_cloud_publish, and the PSM disconnect after it                  *)

(* The application publishes, connects or disconnects at any time.         *)
AppCall ==
  /\ stack["app"] = <<>>
  /\ \E call \in AppCalls \ {"wait"} :
       stack' = [stack EXCEPT !["app"] = <<FirstStep[call]>>]
  /\ NoLongerAlone
  /\ UNCHANGED <<link, state, g_failure_count, flags>>

(* -ENOTCONN, or a failure that leaves the connection alone.               *)
PublishRefused(t) ==
  /\ Go(t, "publish", <<>>)
  /\ UNCHANGED <<link, state, g_failure_count, flags, hist>>

PublishFails(t) ==
  /\ connected /\ session
  /\ Go(t, "publish", <<"disconnect">>)
  /\ LinkLost
  /\ UNCHANGED <<connected, state, g_failure_count, flags, alone>>

(* Every category went out: poll once more, then report. *)
PublishOK(t) ==
  /\ connected /\ session
  /\ Go(t, "publish", <<"poll", "published">>)
  /\ UNCHANGED <<link, state, g_failure_count, flags, hist>>

(* The second case: not connected, or a download needs the connection.     *)
Published(t) ==
  /\ \/ connected /\ Go(t, "published", <<"intend", "hang", "pend">>)
     \/ Go(t, "published", <<>>)
  /\ UNCHANGED <<link, state, g_failure_count, flags, hist>>

Intend(t) ==
  /\ Go(t, "intend", <<>>)
  /\ g_intentional_disconnect' = TRUE
  /\ g_failure_count' = 0
  /\ outages' = 0
  /\ UNCHANGED <<link, state, g_psm_sleep_pending, loss, owed, alone>>

(* transport_disconnect: the flag first, then the library, which fires the *)
(* event if the client is connected, then the socket, if there was one.    *)
Hang(t) ==
  /\ Go(t, "hang", IF sock THEN <<"bye", "close">> ELSE <<"bye">>)
  /\ connected' = FALSE
  /\ loss' = IF alone THEN "intended" ELSE loss
  /\ UNCHANGED <<session, sock, state, g_failure_count, flags, outages, owed, alone>>

Bye(t) ==
  /\ Go(t, "bye", IF session THEN <<"disconnect">> ELSE <<>>)
  /\ IF session THEN Drop ELSE UNCHANGED <<session, sock>>
  /\ UNCHANGED <<connected, state, g_failure_count, flags, hist>>

Close(t) ==
  /\ Go(t, "close", <<>>)
  /\ sock' = FALSE
  /\ UNCHANGED <<connected, session, state, g_failure_count, flags, hist>>

Pend(t) ==
  /\ Go(t, "pend", <<>>)
  /\ g_psm_sleep_pending' = TRUE
  /\ UNCHANGED <<link, state, g_failure_count, g_intentional_disconnect, hist>>

-----------------------------------------------------------------------------
(* conexio_cloud_wait_connected                                            *)

(* While the status says connected the call returns at once.  Else it      *)
(* takes the token an earlier connection may have left, and returns too,   *)
(* offline as the device is; or it blocks.                                 *)
AppWait ==
  /\ "wait" \in AppCalls
  /\ stack["app"] = <<>>
  /\ g_sdk_status # "connected"
  /\ \/ /\ g_connected_sem = 1
        /\ g_connected_sem' = 0
        /\ UNCHANGED stack
     \/ /\ g_connected_sem = 0
        /\ stack' = [stack EXCEPT !["app"] = <<"wait">>]
        /\ UNCHANGED g_connected_sem
  /\ UNCHANGED <<link, g_sdk_status, g_failure_count, flags, loss, outages,
                 owed, alone>>

(* The connection comes up during the call, or the call times out. *)
WaitEnds ==
  /\ Go("app", "wait", <<>>)
  /\ \/ /\ g_connected_sem = 1
        /\ g_connected_sem' = 0
     \/ UNCHANGED g_connected_sem
  /\ UNCHANGED <<link, g_sdk_status, g_failure_count, flags, loss, outages,
                 owed, alone>>

ConnectStep(t) ==
  \/ DialFails(t) \/ DialOK(t) \/ Connack(t) \/ ConnackRefused(t)
  \/ Connected(t) \/ AwaitTimeout(t)

EventStep(t) ==
  \/ Subscribe(t) \/ SubscribeFails(t) \/ Online(t)
  \/ Replay(t) \/ ReplayFails(t)
  \/ DisconnectEvent(t) \/ Offline(t) \/ Forget(t)
  \/ Count(t) \/ Sleep(t) \/ Reboot(t)

PublishStep(t) ==
  \/ PollQuiet(t) \/ PollLost(t)
  \/ PublishRefused(t) \/ PublishFails(t) \/ PublishOK(t)
  \/ Published(t) \/ Intend(t) \/ Hang(t) \/ Bye(t) \/ Close(t) \/ Pend(t)

CloudStep ==
  \/ Loop \/ Gate \/ Due \/ ConnectStep("cloud")
  \/ EventStep("cloud") \/ PublishStep("cloud")
AppStep ==
  ConnectStep("app") \/ EventStep("app") \/ PublishStep("app") \/ WaitEnds

Next == CloudStep \/ AppStep \/ AppCall \/ AppWait

Spec == Init /\ [][Next]_vars

(* Both threads go on; the network does as it likes. *)
FairSpec == Spec /\ WF_vars(CloudStep) /\ WF_vars(AppStep)

-----------------------------------------------------------------------------
(* Invariants *)

Labels ==
  {"loop", "gate", "due", "dial", "await", "subscribe", "online", "replay",
   "disconnect", "offline", "forget", "count", "sleep", "reboot", "poll",
   "publish", "published", "intend", "hang", "bye", "close", "pend", "wait"}

(* Types, and the depth of the nesting: no step recurs into the loop.      *)
TypeOK ==
  /\ connected \in BOOLEAN /\ session \in BOOLEAN /\ sock \in BOOLEAN
  /\ g_sdk_status \in {"connecting", "connected", "offline"}
  /\ g_connected_sem \in {0, 1}
  /\ g_failure_count \in 0 .. MaxAttempts + 1
  /\ g_intentional_disconnect \in BOOLEAN /\ g_psm_sleep_pending \in BOOLEAN
  /\ \A t \in Threads : /\ Len(stack[t]) <= 8
                         /\ \A i \in DOMAIN stack[t] : stack[t][i] \in Labels
  /\ stack["cloud"] # <<>>
  /\ loss \in {"none", "lost", "intended"}
  /\ outages \in 0 .. MaxAttempts + 1
  /\ owed \in BOOLEAN
  /\ alone \in BOOLEAN

(* The properties that ask for `alone` are about the background thread     *)
(* while no other thread uses the connection and every subscription went   *)
(* out: two threads inside the event handler, or a session dropped halfway *)
(* through it, can break each of them.                                     *)

(* "Get the current SDK connection status" (conexio_cloud.h): whenever the *)
(* loop starts a new round, the status is connected just when the          *)
(* transport is, and only over a live session with a socket.               *)
StatusAgrees ==
  alone /\ Top("cloud") = "loop" =>
    /\ (g_sdk_status = "connected") = connected
    /\ connected = session /\ connected = sock

(* The device reboots for MaxAttempts failures at the latest: no loss and  *)
(* no failed attempt escapes the counter of retry.c.                       *)
NoFailureMissed == alone => outages <= MaxAttempts

(* "After an intentional PSM disconnect, sleep for the remaining publish   *)
(* interval before reconnecting" (conexio_cloud.c): the loop sleeps the    *)
(* interval after such a disconnect, and after no other loss.              *)
SleepsForPsm ==
  alone /\ Top("cloud") = "gate" =>
    (g_psm_sleep_pending = (loss = "intended"))

(* "exponential-backoff reconnect in the background thread"                *)
(* (mqtt_transport.c): no attempt is made before the last loss, or failed  *)
(* attempt, has been slept off.                                            *)
NoHotReconnect == alone /\ Top("cloud") = "dial" => ~ owed

(* What the loop, the transport and the handler know of the connection.    *)
Consistent == TypeOK /\ StatusAgrees

(* Every loss is answered as its cause demands: a failure is counted and   *)
(* backed off from, the disconnect before a PSM sleep is slept off.        *)
LossesCounted == NoFailureMissed /\ NoHotReconnect /\ SleepsForPsm

(* A disconnection that is reported has happened: a session that is up is  *)
(* never marked as lost by the second report of an earlier loss.           *)
LossIsReal ==
  alone => \A t \in Threads : Top(t) = "disconnect" => ~ session

-----------------------------------------------------------------------------
(* Liveness *)

(* "a stuck modem after PSM wake-up" does not "loop forever kicking the    *)
(* WDT, never recovering" (conexio_cloud.c): a device that is not          *)
(* connected is connected again, or reboots.                               *)
RecoversOrReboots ==
  ~ connected ~> connected \/ \E t \in Threads : Top(t) = "reboot"

=============================================================================
