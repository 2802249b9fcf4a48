-------------------------- MODULE FleetProvisioning --------------------------
(***************************************************************************)
(* The first boots of a device (samples/fleet_provisioning/src): main.c    *)
(* decides from a flag in flash and from the modem's credential slots      *)
(* whether the device has an identity; if not, the modem makes a key pair, *)
(* provision.c has a certificate issued for it (phase 1) and the device    *)
(* registered (phase 2), and the next boot goes to normal operation.       *)
(*                                                                         *)
(* A certificate is named by whether it belongs to the key now in the key  *)
(* slot: "current", or "old" once that key is replaced or deleted.         *)
(* The broker's side of a session is the one packet it has sent.           *)
(***************************************************************************)
EXTENDS Naturals, FiniteSets

CONSTANTS
  MaxAttempts,  \* RETRY_MAX_ATTEMPTS
  MaxFaults,    \* bound: failed accesses to flash and to credential slots
  MaxMisses,    \* bound: refusals and losses of the network
  MaxResets,    \* bound: resets that the program does not ask for
  MaxCommands   \* bound: REBOOT commands

ASSUME FleetBounds ==
  /\ MaxAttempts \in Nat \ {0}
  /\ MaxFaults \in Nat /\ MaxMisses \in Nat
  /\ MaxResets \in Nat /\ MaxCommands \in Nat

VARIABLES
  done, forced,     \* flash: prov/done, prov/forced
  cert, key, stale, \* modem: certificate at tag 101, private keys at 102 and 101
  g_provisioned, creds_exist, g_force_ran,
  s_state, s_cert, phase, mqtt_connected, retry_count,
  pc,               \* main, and the functions it calls
  wire,             \* the packet from the broker that is not yet read
  active,           \* cloud: the certificate of the current key is registered
  pending,          \* broker: REBOOT commands not acknowledged in this session
  misses, faults, resets, sent, ran, fired, cut  \* history

flash  == <<done, forced>>
modem  == <<cert, key, stale>>
flags  == <<g_provisioned, creds_exist, g_force_ran>>
exchange == <<s_state, s_cert, phase>>
loop   == <<mqtt_connected, retry_count>>
broker == <<wire, active, pending>>
counts == <<misses, faults, resets, sent, ran, fired, cut>>
vars   == <<flash, modem, flags, exchange, loop, pc, broker, counts>>

Certs  == {"none", "current", "old"}
Faults == {"load", "claim", "exists", "delete", "erase", "save_forced",
           "save_done", "keygen", "write", "verify"}
Waits  == {"connack", "suback", "answer"}
Replies == {"none", "connack", "refused", "suback", "accepted", "rejected"}
States == {"IDLE", "WAIT_CONNACK", "WAIT_SUBACK", "CONNECTED", "GOT_CERT",
           "DONE", "FAILED"}
PCs    == {"load", "claim", "check", "stale", "force", "force_flag", "force_save",
           "prepare", "keygen", "attach", "dns", "clear", "unflag", "connect",
           "subscribe", "publish", "persist", "failed", "loop", "session",
           "stopped"} \cup Waits

Age(c) == IF c = "current" THEN "old" ELSE c

(* A new device, one whose certificate was at tag 21, and one whose key    *)
(* pair an old build made at tag 101; with and without a build that forces *)
(* a new identity.                                                         *)
Init ==
  /\ \/ done = FALSE /\ cert = "none" /\ stale = FALSE
     \/ done = TRUE  /\ cert = "none" /\ stale = FALSE
     \/ done = TRUE  /\ cert = "old"  /\ stale = TRUE
  /\ forced \in BOOLEAN
  /\ key = FALSE /\ active = FALSE
  /\ g_provisioned = FALSE /\ creds_exist = FALSE /\ g_force_ran = FALSE
  /\ s_state = "IDLE" /\ s_cert = "none" /\ phase = 1
  /\ mqtt_connected = FALSE /\ retry_count = 0
  /\ pc = "load" /\ wire = "none" /\ pending = 0
  /\ misses = 0 /\ faults = {} /\ resets = 0 /\ sent = 0 /\ ran = 0
  /\ fired = 0 /\ cut = FALSE

Fault(f) ==
  /\ f \notin faults /\ Cardinality(faults) < MaxFaults
  /\ faults' = faults \cup {f}

Served(ok) ==
  IF ok THEN UNCHANGED misses ELSE misses < MaxMisses /\ misses' = misses + 1

Goto(p) == pc' = p

PowerDown ==
  /\ g_provisioned' = FALSE /\ creds_exist' = FALSE /\ g_force_ran' = FALSE
  /\ s_state' = "IDLE" /\ s_cert' = "none" /\ phase' = 1
  /\ mqtt_connected' = FALSE /\ retry_count' = 0
  /\ wire' = "none"
  /\ Goto("load")

Reset ==
  /\ resets < MaxResets
  /\ resets' = resets + 1
  /\ cut' = (cut \/ pc \in {"force_flag", "force_save"})
  /\ PowerDown
  /\ UNCHANGED <<flash, modem, active, pending, misses, faults, sent, ran, fired>>

(* main returns: nothing runs until the power is cut *)
Stop ==
  /\ Goto("stopped")
  /\ UNCHANGED <<flags, exchange, loop, broker, misses, resets, sent, ran,
                 fired, cut>>

Continue(p) ==
  /\ Goto(p)
  /\ UNCHANGED <<exchange, loop, broker, misses, resets, sent, ran, cut>>

-----------------------------------------------------------------------------
(* main, up to the connection *)

(* main continues after a settings_subsys_init or a load that fails. *)
LoadSettings ==
  /\ pc = "load"
  /\ \/ g_provisioned' = done /\ g_force_ran' = forced /\ UNCHANGED faults
     \/ /\ Fault("load")
        /\ g_provisioned' \in {FALSE, done} /\ g_force_ran' \in {FALSE, forced}
  /\ Continue("claim")
  /\ UNCHANGED <<flash, modem, creds_exist, fired>>

(* The slots of the claim credentials, once written, are not looked at     *)
(* again; derive_device_id stops main in the same way.                     *)
ClaimCreds ==
  /\ pc = "claim"
  /\ \/ Continue("check") /\ UNCHANGED <<flags, faults, fired>>
     \/ Fault("claim") /\ Stop
  /\ UNCHANGED <<flash, modem>>

CheckCreds ==
  /\ pc = "check"
  /\ \/ creds_exist' = (cert # "none" /\ key) /\ UNCHANGED faults
     \/ creds_exist' = FALSE /\ Fault("exists")
  /\ Continue("stale")
  /\ UNCHANGED <<flash, modem, g_provisioned, g_force_ran, fired>>

CleanStaleKey ==
  /\ pc = "stale"
  /\ \/ stale' = FALSE /\ UNCHANGED faults
     \/ stale /\ Fault("delete") /\ UNCHANGED stale
  /\ Continue("force")
  /\ UNCHANGED <<flash, cert, key, flags, fired>>

(* cert_store_clear_all_device_creds, then two writes to flash *)
ForceClear ==
  /\ pc = "force"
  /\ IF ~ g_force_ran /\ (g_provisioned \/ creds_exist)
     THEN /\ stale' = FALSE
          /\ \/ cert' = "none" /\ key' = FALSE /\ UNCHANGED faults
             \/ cert' = "none" /\ UNCHANGED key /\ Fault("delete")
             \/ cert' = Age(cert) /\ key' = FALSE /\ Fault("delete")
          /\ fired' = IF fired = 2 THEN 2 ELSE fired + 1
          /\ Continue("force_flag")
     ELSE UNCHANGED <<modem, faults, fired>> /\ Continue("prepare")
  /\ UNCHANGED <<flash, flags>>

(* settings_delete of prov/done: its result is not looked at *)
EraseFlag ==
  /\ g_provisioned' = FALSE
  /\ \/ done' = FALSE /\ UNCHANGED faults
     \/ done /\ Fault("erase") /\ UNCHANGED done

ForceErase ==
  /\ pc = "force_flag"
  /\ EraseFlag
  /\ creds_exist' = FALSE
  /\ Continue("force_save")
  /\ UNCHANGED <<forced, modem, g_force_ran, fired>>

(* Mutant of ForceSave: the flag is only kept in RAM. *)
ForceSaveRam ==
  /\ pc = "force_save"
  /\ g_force_ran' = TRUE
  /\ Continue("prepare")
  /\ UNCHANGED <<flash, modem, g_provisioned, creds_exist, faults, fired>>

ForceSave ==
  /\ pc = "force_save"
  /\ \/ forced' = TRUE /\ UNCHANGED faults
     \/ Fault("save_forced") /\ UNCHANGED forced
  /\ g_force_ran' = TRUE
  /\ Continue("prepare")
  /\ UNCHANGED <<done, modem, g_provisioned, creds_exist, fired>>

(* Mutant of Prepare: the flag stays in flash until run_provisioning.      *)
PrepareKeepsFlag ==
  /\ pc = "prepare"
  /\ Continue(IF g_provisioned /\ creds_exist THEN "attach" ELSE "keygen")
  /\ g_provisioned' = (g_provisioned /\ creds_exist)
  /\ UNCHANGED <<flash, modem, creds_exist, g_force_ran, faults, fired>>

(* Mutant of Prepare: a key pair is made on every boot.                    *)
PrepareAlways ==
  /\ pc = "prepare"
  /\ Continue("keygen")
  /\ UNCHANGED <<flash, modem, flags, faults, fired>>

Prepare ==
  /\ pc = "prepare"
  /\ \/ /\ g_provisioned /\ creds_exist
        /\ Continue("attach")
        /\ UNCHANGED <<done, g_provisioned, faults>>
     \/ /\ g_provisioned /\ ~ creds_exist
        /\ EraseFlag
        /\ Continue("keygen")
     \/ /\ ~ g_provisioned
        /\ Continue("keygen")
        /\ UNCHANGED <<done, g_provisioned, faults>>
  /\ UNCHANGED <<forced, modem, creds_exist, g_force_ran, fired>>

(* AT%KEYGEN replaces the key at 102 after both credentials of that tag    *)
(* are deleted.  When it fails, or its answer cannot be read, main stops:  *)
(* with the old key if that was not deleted, with none or with a new one.  *)
KeyGen ==
  /\ pc = "keygen"
  /\ \/ /\ key' = TRUE /\ cert' = Age(cert) /\ active' = FALSE
        /\ Goto("attach")
        /\ UNCHANGED faults
     \/ /\ Fault("keygen")
        /\ \/ UNCHANGED <<key, cert, active>>
           \/ key' \in BOOLEAN /\ cert' = Age(cert) /\ active' = FALSE
        /\ Goto("stopped")
  /\ UNCHANGED <<flash, stale, flags, exchange, loop, wire, pending, misses,
                 resets, sent, ran, fired, cut>>

Reboot ==
  /\ PowerDown
  /\ UNCHANGED <<flash, modem, active, pending, faults, resets, sent, ran, fired,
                 cut>>

Attach ==
  /\ pc = "attach"
  /\ \/ Continue("dns") /\ UNCHANGED <<flags, fired>>
     \/ Stop
  /\ UNCHANGED <<flash, modem, faults>>

(* no registration within 120 s *)
AttachTimeout == pc = "attach" /\ Served(FALSE) /\ Reboot

ResolveBroker ==
  /\ pc = "dns"
  /\ \/ /\ Continue(IF g_provisioned /\ creds_exist THEN "loop" ELSE "clear")
        /\ UNCHANGED <<flags, fired>>
     \/ Stop
  /\ UNCHANGED <<flash, modem, faults>>

(* The modem is online here, where it may refuse to delete anything. *)
ClearCreds ==
  /\ pc = "clear"
  /\ cert' \in {"none", cert} /\ stale' \in {FALSE, stale}
  /\ Continue("unflag")
  /\ UNCHANGED <<flash, key, flags, faults, fired>>

Unflag ==
  /\ pc = "unflag"
  /\ EraseFlag
  /\ Continue("connect")
  /\ UNCHANGED <<forced, modem, creds_exist, g_force_ran, fired>>

-----------------------------------------------------------------------------
(* run_provisioning *)

(* A call into the MQTT library, and what the broker answers: nothing when *)
(* the request or the answer is lost, or comes too late.                   *)
Call(p, state, next, reply) ==
  /\ pc = p
  /\ s_state' = state /\ wire' = reply
  /\ Goto(next)
  /\ UNCHANGED <<flash, modem, flags, s_cert, phase, loop, pending, faults,
                 resets, sent, ran, fired, cut>>

Connect ==
  \E r \in {"connack", "refused", "none"} :
    /\ Call("connect", "WAIT_CONNACK", "connack", r)
    /\ Served(r = "connack")
    /\ UNCHANGED active

Subscribe ==
  \E r \in {"suback", "none"} :
    /\ Call("subscribe", "WAIT_SUBACK", "suback", r)
    /\ Served(r = "suback")
    /\ UNCHANGED active

(* RegisterThing takes the token of a certificate and activates it.        *)
Publish ==
  \E r \in {"accepted", "rejected", "none"} :
    /\ Call("publish", s_state, "answer", r)
    /\ Served(r = "accepted")
    /\ IF phase = 2 /\ s_cert = "current"
       THEN active' \in [accepted |-> {TRUE}, rejected |-> {active},
                         none |-> {active, TRUE}][r]
       ELSE (r = "accepted" => phase = 1) /\ UNCHANGED active

CallFails ==
  /\ pc \in {"connect", "subscribe", "publish"}
  /\ Served(FALSE)
  /\ Goto("failed")
  /\ UNCHANGED <<flash, modem, flags, exchange, loop, broker, faults, resets,
                 sent, ran, fired, cut>>

Target ==
  IF pc # "answer" THEN "CONNECTED" ELSE IF phase = 1 THEN "GOT_CERT" ELSE "DONE"

(* The loop of drive_until goes on. *)
Driving == pc \in Waits /\ s_state \notin {Target, "FAILED", "DONE"}

Handle(state) ==
  /\ s_state' = state /\ wire' = "none"
  /\ UNCHANGED <<flash, flags, phase, loop, pc, active, pending, resets, sent,
                 ran, fired, cut>>

OnConnack ==
  /\ Driving /\ wire \in {"connack", "refused"}
  /\ Served(TRUE)
  /\ Handle(IF wire = "connack" THEN "CONNECTED" ELSE "FAILED")
  /\ UNCHANGED <<modem, s_cert, faults>>

OnSuback ==
  /\ Driving /\ wire = "suback"
  /\ Served(TRUE)
  /\ Handle("CONNECTED")
  /\ UNCHANGED <<modem, s_cert, faults>>

(* the broker, or the modem, closes the connection *)
OnDisconnect ==
  /\ Driving /\ wire # "none"
  /\ Served(FALSE)
  /\ Handle(IF s_state \in {"WAIT_CONNACK", "WAIT_SUBACK"} THEN "FAILED"
                                                           ELSE s_state)
  /\ UNCHANGED <<modem, s_cert, faults>>

(* An answer that is too long, cannot be read or parsed, or lacks the      *)
(* certificate or the token, is handled as a rejection.                    *)
OnRejected ==
  /\ Driving /\ wire \in {"rejected", "accepted"}
  /\ wire = "accepted" => phase = 1 /\ Served(FALSE)
  /\ wire = "rejected" => Served(TRUE)
  /\ Handle("FAILED")
  /\ UNCHANGED <<modem, s_cert, faults>>

OnCreated ==
  /\ Driving /\ wire = "accepted" /\ phase = 1
  /\ s_cert' = "current"
  /\ Served(TRUE)
  /\ Handle("GOT_CERT")
  /\ UNCHANGED <<modem, faults>>

(* The certificate is written with the modem offline, and looked for.      *)
OnRegistered ==
  /\ Driving /\ wire = "accepted" /\ phase = 2
  /\ Served(TRUE)
  /\ \/ cert' = s_cert /\ Handle("DONE") /\ UNCHANGED faults
     \/ Fault("write") /\ Handle("FAILED") /\ UNCHANGED cert
     \/ Fault("verify") /\ Handle("FAILED") /\ cert' = s_cert
  /\ UNCHANGED <<key, stale, s_cert>>

Arrive == OnConnack \/ OnSuback \/ OnDisconnect \/ OnRejected \/ OnCreated
          \/ OnRegistered

After ==
  CASE pc = "connack" -> "subscribe"
    [] pc = "suback"  -> "publish"
    [] pc = "answer"  -> IF phase = 1 THEN "connect" ELSE "persist"

DriveEnds ==
  /\ pc \in Waits /\ s_state = Target
  /\ Goto(After)
  /\ phase' = IF pc = "answer" THEN 2 ELSE phase
  /\ wire' = "none"
  /\ UNCHANGED <<flash, modem, flags, s_state, s_cert, loop, active, pending,
                 counts>>

(* PROV_FAILED, a timeout, or an error of the socket *)
DriveFails ==
  /\ pc \in Waits /\ s_state # Target
  /\ s_state = "FAILED" \/ wire = "none"
  /\ Goto("failed")
  /\ wire' = "none"
  /\ UNCHANGED <<flash, modem, flags, exchange, loop, active, pending, counts>>

Retry == pc = "failed" /\ Served(TRUE) /\ Reboot

(* persist_provisioned, then the modem and the device go down in order *)
Persist ==
  /\ pc = "persist"
  /\ \/ done' = TRUE /\ UNCHANGED faults
     \/ Fault("save_done") /\ UNCHANGED done
  /\ PowerDown
  /\ UNCHANGED <<forced, modem, active, pending, misses, resets, sent, ran,
                 fired, cut>>

-----------------------------------------------------------------------------
(* Normal operation *)

(* The server knows the certificate, and the first private key among the   *)
(* tags, which a stale key at 101 would be, belongs to it.                 *)
Accepted == active /\ cert = "current" /\ ~ stale

Normal ==
  UNCHANGED <<flash, modem, flags, exchange, active, faults, resets, fired, cut>>

(* Mutant of NormalConnect: a persistent session.                          *)
NormalConnectKeeps ==
  /\ pc = "loop" /\ Accepted
  /\ retry_count' = 0
  /\ Goto("session")
  /\ Normal /\ UNCHANGED <<misses, mqtt_connected, wire, pending, sent, ran>>

(* clean_session: the broker forgets what was not acknowledged *)
NormalConnect ==
  /\ pc = "loop" /\ Accepted
  /\ retry_count' = 0
  /\ pending' = 0
  /\ Goto("session")
  /\ Normal /\ UNCHANGED <<misses, mqtt_connected, wire, sent, ran>>

NormalConnectFails ==
  /\ pc = "loop" /\ Served(~ Accepted)
  /\ \/ /\ retry_count + 1 < MaxAttempts
        /\ retry_count' = retry_count + 1
        /\ Normal /\ UNCHANGED <<mqtt_connected, pc, wire, pending, sent, ran>>
     \/ retry_count + 1 >= MaxAttempts /\ Reboot

NormalConnack ==
  /\ pc = "session" /\ ~ mqtt_connected
  /\ mqtt_connected' = TRUE
  /\ Normal /\ UNCHANGED <<misses, retry_count, pc, wire, pending, sent, ran>>

(* A CONNACK that refuses, an error of poll, of the keepalive or of the    *)
(* input, or a connection the broker closes: no attempt is counted.        *)
SessionLost ==
  /\ pc = "session" /\ Served(mqtt_connected)
  /\ mqtt_connected' = FALSE
  /\ Goto("loop")
  /\ Normal /\ UNCHANGED <<retry_count, wire, pending, sent, ran>>

SendReboot ==
  /\ mqtt_connected /\ sent < MaxCommands
  /\ sent' = sent + 1 /\ pending' = pending + 1
  /\ Normal /\ UNCHANGED <<misses, loop, pc, wire, ran>>

(* The device is reset before the PUBACK.  The broker holds the command    *)
(* for the session, not for the next one.                                  *)
OnReboot ==
  /\ mqtt_connected /\ pending > 0
  /\ ran' = ran + 1
  /\ PowerDown
  /\ UNCHANGED <<flash, modem, active, pending, misses, faults, resets, sent,
                 fired, cut>>

-----------------------------------------------------------------------------
Boot == LoadSettings \/ ClaimCreds \/ CheckCreds \/ CleanStaleKey \/ ForceClear
        \/ ForceErase \/ ForceSave \/ Prepare \/ KeyGen \/ Attach \/ AttachTimeout
        \/ ResolveBroker \/ ClearCreds \/ Unflag
Provision == Connect \/ Subscribe \/ Publish \/ CallFails \/ Arrive \/ DriveEnds
             \/ DriveFails \/ Retry \/ Persist
Operate == NormalConnect \/ NormalConnectFails \/ NormalConnack

Next == Boot \/ Provision \/ Operate \/ SessionLost \/ SendReboot \/ OnReboot
        \/ Reset

Spec == Init /\ [][Next]_vars

(* main is one thread that never waits without a timeout.  A network that  *)
(* refuses for ever is excluded by MaxMisses.                              *)
FairSpec == Spec /\ WF_vars(Boot) /\ WF_vars(Provision) /\ WF_vars(Operate)

-----------------------------------------------------------------------------
(* Properties *)

TypeOK ==
  /\ {done, forced, key, stale, active, cut, mqtt_connected} \subseteq BOOLEAN
  /\ {g_provisioned, creds_exist, g_force_ran} \subseteq BOOLEAN
  /\ cert \in Certs /\ s_cert \in {"none", "current"}
  /\ s_state \in States /\ phase \in 1..2 /\ pc \in PCs /\ wire \in Replies
  /\ misses \in 0..MaxMisses /\ retry_count \in 0..MaxAttempts-1
  /\ faults \subseteq Faults /\ Cardinality(faults) <= MaxFaults
  /\ resets \in 0..MaxResets /\ sent \in 0..MaxCommands
  /\ pending \in 0..MaxCommands /\ ran \in Nat /\ fired \in 0..2

(* The flag in flash is trusted by the next boot together with the mere    *)
(* presence of a certificate and a key: whenever all three are there, the  *)
(* certificate belongs to the key and is registered, at every point where  *)
(* the power may fail.  A load that fails (the key is replaced before the  *)
(* flag is erased) and an erase that fails are the exceptions.             *)
FlagIsTrue ==
  done /\ cert # "none" /\ key /\ faults \cap {"load", "erase"} = {}
    => cert = "current" /\ active

(* Flash, the modem's slots and the broker agree on the identity. *)
Consistent == TypeOK /\ FlagIsTrue

(* A registered identity that the flag vouches for is given up only for    *)
(* the build that forces it, or because flash or the slots could not be    *)
(* read: no refusal of the network, no reset and no command costs it.      *)
IdentityKept ==
  [][ done /\ key /\ cert = "current" /\ cert' # "current"
        => pc = "force" \/ faults \cap {"load", "exists"} # {} ]_vars

(* main.c: the escape hatch only fires once even if the option stays in    *)
(* the firmware; a reset amid its three steps, and a flag that cannot be   *)
(* saved or loaded, make it fire again.                                    *)
FiresOnce == fired <= 1 \/ cut \/ faults \cap {"save_forced", "load"} # {}

(* A REBOOT command resets the device before it is acknowledged, and does  *)
(* not do so again after the boot.                                         *)
RebootOnce == ran <= sent

(* Whatever the network refused and wherever the power failed, the device  *)
(* comes to normal operation with the server, or main has returned; unless *)
(* it is left with the pair that FlagIsTrue cannot exclude.                *)
GetsOnline ==
  []<>(mqtt_connected \/ pc = "stopped" \/ faults \cap {"load", "erase"} # {})
=============================================================================
