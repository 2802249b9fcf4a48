------------------------ MODULE FleetProvisioningProofs ------------------------
(***************************************************************************)
(* Proofs about FleetProvisioning, for any number of attempts, failed      *)
(* accesses, refusals of the network, resets and commands: the flag in     *)
(* flash vouches for an identity that is good, a good identity is given up *)
(* only for the stated reasons, the escape hatch fires once, and a REBOOT  *)
(* command reboots the device once.                                        *)
(***************************************************************************)
EXTENDS FleetProvisioning, FiniteSetTheorems, TLAPS

-----------------------------------------------------------------------------
(* The inductive invariant: first the types *)

SlotFlags ==
  /\ done \in BOOLEAN /\ forced \in BOOLEAN
  /\ key \in BOOLEAN /\ stale \in BOOLEAN /\ active \in BOOLEAN

RamFlags ==
  /\ g_provisioned \in BOOLEAN /\ creds_exist \in BOOLEAN
  /\ g_force_ran \in BOOLEAN /\ mqtt_connected \in BOOLEAN /\ cut \in BOOLEAN

Places ==
  /\ cert \in Certs /\ s_cert \in {"none", "current"}
  /\ s_state \in States /\ phase \in 1 .. 2 /\ pc \in PCs /\ wire \in Replies

Counters ==
  /\ misses \in 0 .. MaxMisses /\ retry_count \in 0 .. MaxAttempts - 1
  /\ resets \in 0 .. MaxResets
  /\ fired \in 0 .. 2

FaultsBounded ==
  /\ faults \subseteq Faults
  /\ IsFiniteSet(faults) /\ Cardinality(faults) <= MaxFaults

(* A command that the broker still holds was sent and has not run: in a    *)
(* session, for before it the broker may hold one that has.                *)
Commanded ==
  /\ sent \in 0 .. MaxCommands /\ pending \in 0 .. sent /\ ran \in 0 .. sent
  /\ mqtt_connected => pc = "session"
  /\ pc = "session" => ran + pending <= sent

(* Once the hatch has fired, flash says so, or is about to; and what flash *)
(* says is known to main from the load of the settings on.                 *)
HatchShut ==
  \/ cut \/ "save_forced" \in faults \/ "load" \in faults
  \/ /\ fired <= 1
     /\ fired = 1 => forced \/ pc \in {"force_flag", "force_save"}
     /\ pc # "load" /\ forced => g_force_ran

(* What the packet on the wire and the state of the exchange say about the *)
(* certificate: the device is registered before it is told so, and the     *)
(* exchange is done only when the certificate is in its slot.              *)
Exchanged ==
  /\ wire # "none" => pc \in Waits
  /\ wire = "accepted" => pc = "answer"
  /\ wire = "accepted" /\ phase = 2 => active /\ s_cert = "current"
  /\ pc = "publish" => s_state = "CONNECTED"
  /\ s_state = "DONE" => /\ pc \in {"answer", "persist"} /\ phase = 2
                         /\ active /\ cert = "current"
  /\ pc = "persist" => s_state = "DONE"

(* As long as no load and no erase has failed, RAM and flash agree on the  *)
(* flag, and no key is made while the flag is set.                         *)
Vouched ==
  "load" \notin faults /\ "erase" \notin faults =>
    /\ pc # "load" => (done <=> g_provisioned)
    /\ pc = "keygen" => ~ done
    /\ done /\ cert # "none" /\ key => cert = "current" /\ active

(* A good identity, seen by main's checks, is one it does not replace.     *)
Good == key /\ cert = "current"

Recognised ==
  /\ "load" \notin faults /\ "exists" \notin faults =>
       /\ pc \in {"claim", "check", "stale", "force"} => (done => g_provisioned)
       /\ pc \in {"stale", "force"} => (Good => creds_exist)
       /\ pc \in {"force_flag", "force_save"} => ~ Good
       /\ pc = "prepare" => (done /\ Good => g_provisioned /\ creds_exist)
       /\ pc = "keygen" => ~ (done /\ Good)
  /\ pc \in {"attach", "dns"} =>
       (g_provisioned /\ creds_exist) \/ cert # "current"
  /\ pc = "clear" => cert # "current"

-----------------------------------------------------------------------------
(* Types *)

(* What a publish does: it registers the device or leaves the registration *)
(* alone, and phase 2 is accepted only of a device that is now registered. *)
LEMMA PublishRegisters ==
  Publish =>
    /\ pc = "publish" /\ pc' = "answer"
    /\ active' = TRUE \/ active' = active
    /\ wire' = "accepted" /\ phase = 2 => active' = TRUE /\ s_cert = "current"
    /\ UNCHANGED <<flash, modem, flags, exchange, loop, faults>>
<1> SUFFICES ASSUME Publish
             PROVE  /\ active' = TRUE \/ active' = active
                    /\ wire' = "accepted" /\ phase = 2
                         => active' = TRUE /\ s_cert = "current"
  BY Zenon DEF Publish, Call, Goto, exchange
<1>1. PICK r \in {"accepted", "rejected", "none"} :
        /\ wire' = r
        /\ IF phase = 2 /\ s_cert = "current"
           THEN active' \in [accepted |-> {TRUE}, rejected |-> {active},
                             none |-> {active, TRUE}][r]
           ELSE (r = "accepted" => phase = 1) /\ UNCHANGED active
  BY Zenon DEF Publish, Call
<1>2. CASE phase = 2 /\ s_cert = "current"
  <2>1. CASE r = "accepted"
    BY <1>1, <1>2, <2>1
  <2>2. CASE r = "rejected"
    BY <1>1, <1>2, <2>2
  <2>3. CASE r = "none"
    BY <1>1, <1>2, <2>3
  <2> QED
    BY <2>1, <2>2, <2>3
<1>3. CASE ~ (phase = 2 /\ s_cert = "current")
  BY <1>1, <1>3
<1> QED
  BY <1>2, <1>3

(* The flags in flash and in the modem are Booleans at reset. *)
LEMMA SlotFlagsInit == Init => SlotFlags
BY Zenon DEF Init, SlotFlags

(* Every step leaves the flags in flash and in the modem Booleans. *)
(* Every step leaves the flags in flash and in the modem Booleans.         *)
LEMMA SlotFlagsStep == SlotFlags /\ [Next]_vars => SlotFlags'
<1> SUFFICES ASSUME SlotFlags, [Next]_vars PROVE SlotFlags'
  OBVIOUS
<1> USE DEF SlotFlags
<1>1. CASE \/ LoadSettings \/ ClaimCreds \/ CheckCreds \/ CleanStaleKey
  BY <1>1, Zenon DEF LoadSettings, ClaimCreds, CheckCreds, CleanStaleKey,
     Continue, Stop, Goto, flash, modem, flags, broker
<1>2. CASE \/ ForceClear \/ ForceErase \/ ForceSave
  BY <1>2, Zenon DEF ForceClear, ForceErase, ForceSave, Continue, EraseFlag,
     Goto, flash, modem, flags, broker
<1>3. CASE \/ Prepare \/ KeyGen
  BY <1>3, Zenon DEF Prepare, KeyGen, EraseFlag, Continue, Goto, flash,
     modem, flags, broker
<1>4. CASE \/ Attach \/ AttachTimeout \/ ResolveBroker \/ ClearCreds
           \/ Unflag
  BY <1>4, Zenon DEF Attach, AttachTimeout, ResolveBroker, ClearCreds,
     Unflag, Continue, Stop, Reboot, PowerDown, EraseFlag, Goto, flash,
     modem, flags, broker
<1>5. CASE \/ Connect \/ Subscribe \/ Publish \/ CallFails
  BY <1>5, PublishRegisters, Zenon DEF Connect, Subscribe, Publish,
     CallFails, Call, Goto, flash, modem, flags, broker
<1>6. CASE \/ OnConnack \/ OnSuback \/ OnDisconnect \/ OnRejected
           \/ OnCreated \/ OnRegistered
  BY <1>6, Zenon DEF OnConnack, OnSuback, OnDisconnect, OnRejected,
     OnCreated, OnRegistered, Handle, Goto, flash, modem, flags, broker
<1>7. CASE \/ DriveEnds \/ DriveFails \/ Retry \/ Persist
  BY <1>7, Zenon DEF DriveEnds, DriveFails, Retry, Persist, Reboot,
     PowerDown, Goto, flash, modem, flags, broker
<1>8. CASE \/ NormalConnect \/ NormalConnectFails \/ NormalConnack
           \/ SessionLost \/ SendReboot
  BY <1>8, Zenon DEF NormalConnect, NormalConnectFails, NormalConnack,
     SessionLost, SendReboot, Normal, Reboot, PowerDown, Goto, flash, modem,
     flags, broker
<1>9. CASE \/ OnReboot \/ Reset
  BY <1>9, Zenon DEF OnReboot, Reset, PowerDown, Goto, flash, modem, flags,
     broker
<1>10. CASE UNCHANGED vars
  BY <1>10, Zenon DEF vars, flash, modem, flags, broker, counts
<1> QED
  BY <1>1, <1>2, <1>3, <1>4, <1>5, <1>6, <1>7, <1>8, <1>9, <1>10, Zenon DEF
     Next, Boot, Provision, Operate, Arrive

(* The flags in RAM are Booleans at reset.                                 *)
LEMMA RamFlagsInit == Init => RamFlags
BY Zenon DEF Init, RamFlags

(* Every step leaves the flags in RAM Booleans.                            *)
LEMMA RamFlagsStep == SlotFlags /\ RamFlags /\ [Next]_vars => RamFlags'
<1> SUFFICES ASSUME SlotFlags, RamFlags, [Next]_vars PROVE RamFlags'
  OBVIOUS
<1> USE DEF SlotFlags, RamFlags
<1>1. CASE \/ LoadSettings \/ ClaimCreds \/ CheckCreds \/ CleanStaleKey
  BY <1>1, Zenon DEF LoadSettings, ClaimCreds, CheckCreds, CleanStaleKey,
     Continue, Stop, Goto, flags, loop, counts
<1>2. CASE \/ ForceClear \/ ForceErase \/ ForceSave
  BY <1>2, Zenon DEF ForceClear, ForceErase, ForceSave, Continue, EraseFlag,
     Goto, flags, loop, counts
<1>3. CASE \/ Prepare \/ KeyGen
  BY <1>3, Zenon DEF Prepare, KeyGen, EraseFlag, Continue, Goto, flags, loop,
     counts
<1>4. CASE \/ Attach \/ AttachTimeout \/ ResolveBroker \/ ClearCreds
           \/ Unflag
  BY <1>4, Zenon DEF Attach, AttachTimeout, ResolveBroker, ClearCreds,
     Unflag, Continue, Stop, Reboot, PowerDown, EraseFlag, Goto, flags, loop,
     counts
<1>5. CASE \/ Connect \/ Subscribe \/ Publish \/ CallFails
  BY <1>5, Zenon DEF Connect, Subscribe, Publish, CallFails, Call, Goto,
     flags, loop, counts
<1>6. CASE \/ OnConnack \/ OnSuback \/ OnDisconnect \/ OnRejected
           \/ OnCreated \/ OnRegistered
  BY <1>6, Zenon DEF OnConnack, OnSuback, OnDisconnect, OnRejected,
     OnCreated, OnRegistered, Handle, Goto, flags, loop, counts
<1>7. CASE \/ DriveEnds \/ DriveFails \/ Retry \/ Persist
  BY <1>7, Zenon DEF DriveEnds, DriveFails, Retry, Persist, Reboot,
     PowerDown, Goto, flags, loop, counts
<1>8. CASE \/ NormalConnect \/ NormalConnectFails \/ NormalConnack
           \/ SessionLost \/ SendReboot
  BY <1>8, Zenon DEF NormalConnect, NormalConnectFails, NormalConnack,
     SessionLost, SendReboot, Normal, Reboot, PowerDown, Goto, flags, loop,
     counts
<1>9. CASE \/ OnReboot \/ Reset
  BY <1>9, Zenon DEF OnReboot, Reset, PowerDown, Goto, flags, loop, counts
<1>10. CASE UNCHANGED vars
  BY <1>10, Zenon DEF vars, flags, loop, counts
<1> QED
  BY <1>1, <1>2, <1>3, <1>4, <1>5, <1>6, <1>7, <1>8, <1>9, <1>10, Zenon DEF
     Next, Boot, Provision, Operate, Arrive

(* At reset everything else is what its type says.                         *)
LEMMA PlacesInit == Init => Places /\ Counters /\ FaultsBounded
BY FleetBounds, FS_EmptySet DEF Init, Places, Counters, FaultsBounded, Certs,
   States, PCs, Waits, Replies

(* Every step leaves main, the exchange and the wire at a place of theirs. *)
LEMMA PlacesStep == Places /\ [Next]_vars => Places'
<1> SUFFICES ASSUME Places, [Next]_vars PROVE Places'
  OBVIOUS
<1> USE DEF Places, Certs, States, PCs, Waits, Replies, Age
<1>1. CASE \/ LoadSettings \/ ClaimCreds \/ CheckCreds \/ CleanStaleKey
  BY <1>1 DEF LoadSettings, ClaimCreds, CheckCreds, CleanStaleKey, Continue,
     Stop, Goto, flash, modem, exchange, broker
<1>2. CASE \/ ForceClear \/ ForceErase \/ ForceSave
  BY <1>2 DEF ForceClear, ForceErase, ForceSave, Continue, EraseFlag, Goto,
     flash, modem, exchange, broker
<1>3. CASE \/ Prepare \/ KeyGen
  BY <1>3 DEF Prepare, KeyGen, EraseFlag, Continue, Goto, flash, modem,
     exchange, broker
<1>4. CASE \/ Attach \/ ResolveBroker
  BY <1>4 DEF Attach, ResolveBroker, Continue, Stop, Goto, flash, modem,
     exchange, broker
<1>5. CASE AttachTimeout
  BY <1>5 DEF AttachTimeout, Reboot, PowerDown, Goto, Served, flash, modem,
     exchange, broker
<1>6. CASE \/ ClearCreds \/ Unflag
  BY <1>6 DEF ClearCreds, Unflag, Continue, EraseFlag, Goto, flash, modem,
     exchange, broker
<1>7. CASE \/ Connect \/ Subscribe
  BY <1>7 DEF Connect, Subscribe, Call, Goto, flash, modem, exchange, broker
<1>8. CASE Publish
  BY <1>8 DEF Publish, Call, Goto, flash, modem, exchange, broker
<1>9. CASE CallFails
  BY <1>9 DEF CallFails, Goto, flash, modem, exchange, broker
<1>10. CASE \/ OnConnack \/ OnSuback \/ OnDisconnect \/ OnRejected
            \/ OnCreated \/ OnRegistered
  BY <1>10 DEF OnConnack, OnSuback, OnDisconnect, OnRejected, OnCreated,
     OnRegistered, Handle, Goto, flash, modem, exchange, broker
<1>11. CASE DriveEnds
  BY <1>11 DEF DriveEnds, Goto, After, flash, modem, exchange, broker
<1>12. CASE DriveFails
  BY <1>12 DEF DriveFails, Goto, flash, modem, exchange, broker
<1>13. CASE Retry
  BY <1>13 DEF Retry, Reboot, PowerDown, Goto, Served, flash, modem,
     exchange, broker
<1>14. CASE Persist
  BY <1>14 DEF Persist, PowerDown, Goto, flash, modem, exchange, broker
<1>15. CASE \/ NormalConnect \/ NormalConnectFails \/ NormalConnack
            \/ SessionLost \/ SendReboot
  BY <1>15 DEF NormalConnect, NormalConnectFails, NormalConnack, SessionLost,
     SendReboot, Normal, Reboot, PowerDown, Goto, flash, modem, exchange,
     broker
<1>16. CASE \/ OnReboot \/ Reset
  BY <1>16 DEF OnReboot, Reset, PowerDown, Goto, flash, modem, exchange,
     broker
<1>17. CASE UNCHANGED vars
  BY <1>17 DEF vars, flash, modem, exchange, broker, counts
<1> QED
  BY <1>1, <1>2, <1>3, <1>4, <1>5, <1>6, <1>7, <1>8, <1>9, <1>10, <1>11,
     <1>12, <1>13, <1>14, <1>15, <1>16, <1>17 DEF Next, Boot, Provision,
     Operate, Arrive

(* Every step leaves each counter in its bounds.                           *)
LEMMA CountersStep == Counters /\ [Next]_vars => Counters'
<1> SUFFICES ASSUME Counters, [Next]_vars PROVE Counters'
  OBVIOUS
<1> USE DEF Counters
<1>1. CASE \/ LoadSettings \/ ClaimCreds \/ CheckCreds \/ CleanStaleKey
  BY <1>1, FleetBounds DEF LoadSettings, ClaimCreds, CheckCreds,
     CleanStaleKey, Continue, Stop, Goto, loop, counts, Served
<1>2. CASE \/ ForceClear \/ ForceErase \/ ForceSave
  BY <1>2, FleetBounds DEF ForceClear, ForceErase, ForceSave, Continue,
     EraseFlag, Goto, loop, counts, Served
<1>3. CASE \/ Prepare \/ KeyGen
  BY <1>3, FleetBounds DEF Prepare, KeyGen, EraseFlag, Continue, Goto, loop,
     counts, Served
<1>4. CASE \/ Attach \/ AttachTimeout \/ ResolveBroker
  BY <1>4, FleetBounds DEF Attach, AttachTimeout, ResolveBroker, Continue,
     Stop, Reboot, PowerDown, Goto, loop, counts, Served
<1>5. CASE \/ ClearCreds \/ Unflag
  BY <1>5, FleetBounds DEF ClearCreds, Unflag, Continue, EraseFlag, Goto,
     loop, counts, Served
<1>6. CASE \/ Connect \/ Subscribe
  BY <1>6, FleetBounds DEF Connect, Subscribe, Call, Goto, loop, counts,
     Served
<1>7. CASE Publish
  BY <1>7, FleetBounds DEF Publish, Call, Goto, loop, counts, Served
<1>8. CASE CallFails
  BY <1>8, FleetBounds DEF CallFails, Goto, loop, counts, Served
<1>9. CASE \/ OnConnack \/ OnSuback \/ OnDisconnect \/ OnRejected
           \/ OnCreated \/ OnRegistered
  BY <1>9, FleetBounds DEF OnConnack, OnSuback, OnDisconnect, OnRejected,
     OnCreated, OnRegistered, Handle, Goto, loop, counts, Served
<1>10. CASE DriveEnds
  BY <1>10, FleetBounds DEF DriveEnds, Goto, loop, counts, Served
<1>11. CASE \/ DriveFails \/ Retry \/ Persist
  BY <1>11, FleetBounds DEF DriveFails, Retry, Persist, Reboot, PowerDown,
     Goto, loop, counts, Served
<1>12. CASE \/ NormalConnect \/ NormalConnectFails \/ NormalConnack
            \/ SessionLost \/ SendReboot
  BY <1>12, FleetBounds DEF NormalConnect, NormalConnectFails, NormalConnack,
     SessionLost, SendReboot, Normal, Reboot, PowerDown, Goto, loop, counts,
     Served
<1>13. CASE \/ OnReboot \/ Reset
  BY <1>13, FleetBounds DEF OnReboot, Reset, PowerDown, Goto, loop, counts,
     Served
<1>14. CASE UNCHANGED vars
  BY <1>14, FleetBounds DEF vars, loop, counts, Served
<1> QED
  BY <1>1, <1>2, <1>3, <1>4, <1>5, <1>6, <1>7, <1>8, <1>9, <1>10, <1>11,
     <1>12, <1>13, <1>14 DEF Next, Boot, Provision, Operate, Arrive

(* A step repeats no fault, and takes at most one new one.                 *)
LEMMA FaultMoves ==
  [Next]_vars => UNCHANGED faults \/ \E f \in Faults : Fault(f)
<1> SUFFICES ASSUME [Next]_vars
             PROVE  UNCHANGED faults \/ \E f \in Faults : Fault(f)
  OBVIOUS
<1> USE DEF Faults
<1>1. CASE \/ LoadSettings \/ ClaimCreds \/ CheckCreds \/ CleanStaleKey
  BY <1>1, Zenon DEF LoadSettings, ClaimCreds, CheckCreds, CleanStaleKey,
     Continue, Stop, Goto, counts
<1>2. CASE ForceClear
  BY <1>2, Zenon DEF ForceClear, Continue, Goto, counts
<1>3. CASE \/ ForceErase \/ ForceSave
  BY <1>3, Zenon DEF ForceErase, ForceSave, EraseFlag, Continue, Goto, counts
<1>4. CASE \/ Prepare \/ KeyGen
  BY <1>4, Zenon DEF Prepare, KeyGen, EraseFlag, Continue, Goto, counts
<1>5. CASE \/ Attach \/ AttachTimeout \/ ResolveBroker \/ ClearCreds
           \/ Unflag
  BY <1>5, Zenon DEF Attach, AttachTimeout, ResolveBroker, ClearCreds,
     Unflag, Continue, Stop, Reboot, PowerDown, EraseFlag, Goto, counts
<1>6. CASE \/ Connect \/ Subscribe \/ Publish \/ CallFails
  BY <1>6, Zenon DEF Connect, Subscribe, Publish, CallFails, Call, Goto,
     counts
<1>7. CASE \/ OnConnack \/ OnSuback \/ OnDisconnect \/ OnRejected
  BY <1>7, Zenon DEF OnConnack, OnSuback, OnDisconnect, OnRejected, Handle,
     Goto, counts
<1>8. CASE \/ OnCreated \/ OnRegistered
  BY <1>8, Zenon DEF OnCreated, OnRegistered, Handle, Goto, counts
<1>9. CASE \/ DriveEnds \/ DriveFails \/ Retry \/ Persist
  BY <1>9, Zenon DEF DriveEnds, DriveFails, Retry, Persist, Reboot,
     PowerDown, Goto, counts
<1>10. CASE \/ NormalConnect \/ NormalConnectFails \/ NormalConnack
            \/ SessionLost \/ SendReboot
  BY <1>10, Zenon DEF NormalConnect, NormalConnectFails, NormalConnack,
     SessionLost, SendReboot, Normal, Reboot, PowerDown, Goto, counts
<1>11. CASE \/ OnReboot \/ Reset
  BY <1>11, Zenon DEF OnReboot, Reset, PowerDown, Goto, counts
<1>12. CASE UNCHANGED vars
  BY <1>12, Zenon DEF vars, counts
<1> QED
  BY <1>1, <1>2, <1>3, <1>4, <1>5, <1>6, <1>7, <1>8, <1>9, <1>10, <1>11,
     <1>12, Zenon DEF Next, Boot, Provision, Operate, Arrive

(* Every step leaves the faults within their bound.                        *)
LEMMA FaultsStep == FaultsBounded /\ [Next]_vars => FaultsBounded'
<1> SUFFICES ASSUME FaultsBounded, [Next]_vars PROVE FaultsBounded'
  OBVIOUS
<1>1. CASE UNCHANGED faults
  BY <1>1 DEF FaultsBounded
<1>2. ASSUME NEW f \in Faults, Fault(f) PROVE FaultsBounded'
  <2>1. /\ f \notin faults /\ Cardinality(faults) < MaxFaults
        /\ faults' = faults \cup {f}
    BY <1>2 DEF Fault
  <2>2. /\ IsFiniteSet(faults')
        /\ Cardinality(faults') = Cardinality(faults) + 1
    BY <2>1, FS_AddElement DEF FaultsBounded
  <2>3. Cardinality(faults) \in Nat
    BY FS_CardinalityType DEF FaultsBounded
  <2> QED
    BY <2>1, <2>2, <2>3, FleetBounds DEF FaultsBounded
<1> QED
  BY <1>1, <1>2, FaultMoves

-----------------------------------------------------------------------------
(* The commands of an operator *)

(* At reset nothing has been sent.                                         *)
LEMMA CommandedInit == Init => Commanded
BY FleetBounds DEF Init, Commanded

(* A session starts with no command at the broker, and ends with the one   *)
(* that runs.                                                              *)
LEMMA CommandedStep ==
  RamFlags /\ Places /\ Commanded /\ [Next]_vars
    => Commanded'
<1> SUFFICES ASSUME RamFlags, Places, Commanded, [Next]_vars PROVE Commanded'
  OBVIOUS
<1> USE DEF Commanded
<1>1. CASE LoadSettings
  BY <1>1, FleetBounds DEF LoadSettings, Continue, Goto, loop, broker, counts
<1>2. CASE ClaimCreds
  BY <1>2, FleetBounds DEF ClaimCreds, Continue, Stop, Goto, loop, broker,
     counts
<1>3. CASE CheckCreds
  BY <1>3, FleetBounds DEF CheckCreds, Continue, Goto, loop, broker, counts
<1>4. CASE CleanStaleKey
  BY <1>4, FleetBounds DEF CleanStaleKey, Continue, Goto, loop, broker,
     counts
<1>5. CASE \/ ForceClear \/ ForceErase \/ ForceSave
  BY <1>5, FleetBounds DEF ForceClear, ForceErase, ForceSave, Continue,
     EraseFlag, Goto, loop, broker, counts
<1>6. CASE Prepare
  BY <1>6, FleetBounds DEF Prepare, EraseFlag, Continue, Goto, loop, broker,
     counts
<1>7. CASE KeyGen
  BY <1>7, FleetBounds DEF KeyGen, Goto, loop, broker, counts
<1>8. CASE \/ Attach \/ ResolveBroker
  BY <1>8, FleetBounds DEF Attach, ResolveBroker, Continue, Stop, Goto, PCs,
     loop, broker, counts
<1>9. CASE AttachTimeout
  BY <1>9, FleetBounds DEF AttachTimeout, Reboot, PowerDown, Goto, loop,
     broker, counts
<1>10. CASE ClearCreds
  BY <1>10, FleetBounds DEF ClearCreds, Continue, Goto, loop, broker, counts
<1>11. CASE Unflag
  BY <1>11, FleetBounds DEF Unflag, EraseFlag, Continue, Goto, loop, broker,
     counts
<1>12. CASE \/ Connect \/ Subscribe
  BY <1>12, FleetBounds DEF Connect, Subscribe, Call, Goto, Waits, loop,
     broker, counts
<1>13. CASE Publish
  BY <1>13, FleetBounds DEF Publish, Call, Goto, loop, broker, counts
<1>14. CASE CallFails
  BY <1>14, FleetBounds DEF CallFails, Goto, loop, broker, counts
<1>15. CASE \/ OnConnack \/ OnSuback \/ OnDisconnect \/ OnRejected
            \/ OnCreated \/ OnRegistered
  <2>1. UNCHANGED <<loop, pc, pending, sent, ran>>
    BY <1>15, Zenon DEF OnConnack, OnSuback, OnDisconnect, OnRejected,
       OnCreated, OnRegistered, Handle
  <2> QED
    BY <2>1 DEF loop
<1>16. CASE DriveEnds
  BY <1>16, FleetBounds DEF DriveEnds, Goto, After, Waits, loop, broker,
     counts
<1>17. CASE DriveFails
  BY <1>17, FleetBounds DEF DriveFails, Goto, Waits, loop, broker, counts
<1>18. CASE \/ Retry \/ Persist
  BY <1>18, FleetBounds DEF Retry, Persist, Reboot, PowerDown, Goto, loop,
     broker, counts
<1>19. CASE NormalConnect
  BY <1>19, FleetBounds DEF NormalConnect, Normal, Goto, loop, broker, counts
<1>20. CASE NormalConnectFails
  BY <1>20, FleetBounds DEF NormalConnectFails, Normal, Reboot, PowerDown,
     Goto, loop, broker, counts
<1>21. CASE \/ NormalConnack \/ SessionLost
  BY <1>21, FleetBounds DEF NormalConnack, SessionLost, Normal, Goto, loop,
     broker, counts
<1>22. CASE SendReboot
  BY <1>22, FleetBounds DEF SendReboot, Normal, Goto, RamFlags, loop, broker,
     counts
<1>23. CASE OnReboot
  BY <1>23, FleetBounds DEF OnReboot, PowerDown, Goto, RamFlags, loop,
     broker, counts
<1>24. CASE Reset
  BY <1>24, FleetBounds DEF Reset, PowerDown, Goto, loop, broker, counts
<1>25. CASE UNCHANGED vars
  BY <1>25, FleetBounds DEF vars, loop, broker, counts
<1> QED
  BY <1>1, <1>2, <1>3, <1>4, <1>5, <1>6, <1>7, <1>8, <1>9, <1>10, <1>11,
     <1>12, <1>13, <1>14, <1>15, <1>16, <1>17, <1>18, <1>19, <1>20, <1>21,
     <1>22, <1>23, <1>24, <1>25 DEF Next, Boot, Provision, Operate, Arrive

-----------------------------------------------------------------------------
(* The escape hatch *)

(* At reset the hatch has not fired.                                       *)
LEMMA HatchInit == Init => HatchShut
BY DEF Init, HatchShut

(* The hatch fires when flash does not say that it has, and flash says so  *)
(* before main goes on.                                                    *)
LEMMA HatchStep ==
  SlotFlags /\ RamFlags /\ Counters /\ Commanded /\ HatchShut /\ [Next]_vars
    => HatchShut'
<1> SUFFICES ASSUME SlotFlags, RamFlags, Counters, Commanded, HatchShut, [Next]_vars
             PROVE HatchShut'
  OBVIOUS
<1> USE DEF HatchShut, SlotFlags, RamFlags, Counters
<1>1. CASE LoadSettings
  BY <1>1 DEF LoadSettings, Continue, Goto, flash, flags, modem, counts,
     Fault
<1>2. CASE \/ ClaimCreds \/ CheckCreds \/ CleanStaleKey
  BY <1>2 DEF ClaimCreds, CheckCreds, CleanStaleKey, Continue, Stop, Goto,
     flash, flags, modem, counts, Fault
<1>3. CASE ForceClear
  BY <1>3 DEF ForceClear, Continue, Goto, flash, flags, modem, counts, Fault
<1>4. CASE ForceErase
  BY <1>4 DEF ForceErase, EraseFlag, Continue, Goto, flash, flags, modem,
     counts, Fault
<1>5. CASE ForceSave
  BY <1>5 DEF ForceSave, Continue, Goto, flash, flags, modem, counts, Fault
<1>6. CASE \/ Prepare \/ KeyGen
  BY <1>6 DEF Prepare, KeyGen, EraseFlag, Continue, Goto, flash, flags,
     modem, counts, Fault
<1>7. CASE \/ Attach \/ AttachTimeout \/ ResolveBroker \/ ClearCreds
           \/ Unflag
  BY <1>7 DEF Attach, AttachTimeout, ResolveBroker, ClearCreds, Unflag,
     Continue, Stop, Reboot, PowerDown, EraseFlag, Goto, flash, flags, modem,
     counts, Fault
<1>8. CASE \/ Connect \/ Subscribe \/ Publish \/ CallFails
  BY <1>8 DEF Connect, Subscribe, Publish, CallFails, Call, Goto, Waits,
     flash, flags, modem, counts, Fault
<1>9. CASE \/ OnConnack \/ OnSuback \/ OnDisconnect \/ OnRejected
           \/ OnCreated \/ OnRegistered
  BY <1>9 DEF OnConnack, OnSuback, OnDisconnect, OnRejected, OnCreated,
     OnRegistered, Handle, Goto, Driving, Waits, flash, flags, modem, counts,
     Fault
<1>10. CASE \/ DriveEnds \/ DriveFails \/ Retry \/ Persist
  BY <1>10 DEF DriveEnds, DriveFails, Retry, Persist, Reboot, PowerDown,
     Goto, After, Waits, flash, flags, modem, counts, Fault
<1>11. CASE \/ NormalConnect \/ NormalConnectFails \/ NormalConnack
            \/ SessionLost \/ SendReboot
  BY <1>11 DEF NormalConnect, NormalConnectFails, NormalConnack, SessionLost,
     SendReboot, Normal, Reboot, PowerDown, Goto, flash, flags, modem,
     counts, Fault
<1>12. CASE OnReboot
  BY <1>12 DEF OnReboot, PowerDown, Goto, Commanded, flash, flags, modem,
     counts, Fault
<1>13. CASE Reset
  BY <1>13 DEF Reset, PowerDown, Goto, flash, flags, modem, counts, Fault
<1>14. CASE UNCHANGED vars
  BY <1>14 DEF vars, flash, flags, modem, counts, Fault
<1> QED
  BY <1>1, <1>2, <1>3, <1>4, <1>5, <1>6, <1>7, <1>8, <1>9, <1>10, <1>11,
     <1>12, <1>13, <1>14 DEF Next, Boot, Provision, Operate, Arrive

-----------------------------------------------------------------------------
(* The exchange with the provisioning service *)

(* At reset nothing is on the wire.                                        *)
LEMMA ExchangedInit == Init => Exchanged
BY DEF Init, Exchanged

(* The service registers the device before it says so, and the certificate *)
(* is in its slot before the exchange is done.                             *)
LEMMA ExchangedStep ==
  SlotFlags /\ Places /\ Exchanged /\ [Next]_vars
    => Exchanged'
<1> SUFFICES ASSUME SlotFlags, Places, Exchanged, [Next]_vars
             PROVE Exchanged'
  OBVIOUS
<1> USE DEF Exchanged, SlotFlags, Places, Waits
<1>1. CASE \/ LoadSettings \/ ClaimCreds \/ CheckCreds \/ CleanStaleKey
  BY <1>1 DEF LoadSettings, ClaimCreds, CheckCreds, CleanStaleKey, Continue,
     Stop, Goto, modem, exchange, broker
<1>2. CASE ForceClear
  BY <1>2 DEF ForceClear, Continue, Goto, modem, exchange, broker
<1>3. CASE \/ ForceErase \/ ForceSave
  BY <1>3 DEF ForceErase, ForceSave, EraseFlag, Continue, Goto, modem,
     exchange, broker
<1>4. CASE Prepare
  BY <1>4 DEF Prepare, EraseFlag, Continue, Goto, modem, exchange, broker
<1>5. CASE KeyGen
  BY <1>5 DEF KeyGen, Goto, modem, exchange, broker
<1>6. CASE \/ Attach \/ ResolveBroker
  BY <1>6 DEF Attach, ResolveBroker, Continue, Stop, Goto, modem, exchange,
     broker
<1>7. CASE AttachTimeout
  BY <1>7 DEF AttachTimeout, Reboot, PowerDown, Goto, modem, exchange, broker
<1>8. CASE \/ ClearCreds \/ Unflag
  BY <1>8 DEF ClearCreds, Unflag, Continue, EraseFlag, Goto, modem, exchange,
     broker
<1>9. CASE Connect
  BY <1>9 DEF Connect, Call, Goto, modem, exchange, broker
<1>10. CASE Subscribe
  BY <1>10 DEF Subscribe, Call, Goto, modem, exchange, broker
<1>11. CASE Publish
  BY <1>11, PublishRegisters DEF modem, exchange
<1>12. CASE CallFails
  BY <1>12 DEF CallFails, Goto, modem, exchange, broker
<1>13. CASE \/ OnConnack \/ OnSuback
  BY <1>13 DEF OnConnack, OnSuback, Handle, Goto, Driving, modem, exchange,
     broker
<1>14. CASE OnDisconnect
  BY <1>14 DEF OnDisconnect, Handle, Goto, Driving, modem, exchange, broker
<1>15. CASE OnRejected
  BY <1>15 DEF OnRejected, Handle, Goto, Driving, modem, exchange, broker
<1>16. CASE OnCreated
  BY <1>16 DEF OnCreated, Handle, Goto, Driving, modem, exchange, broker
<1>17. CASE OnRegistered
  <2>1. pc = "answer" /\ phase = 2 /\ active /\ s_cert = "current"
    BY <1>17 DEF OnRegistered, Exchanged
  <2>2. /\ UNCHANGED <<done, forced, key, stale, flags, pc, phase, active, s_cert>>
        /\ wire' = "none"
    BY <1>17, Zenon DEF OnRegistered, Handle, flash
  <2>3. \/ s_state' = "DONE" /\ cert' = s_cert
        \/ s_state' = "FAILED" /\ (cert' = s_cert \/ cert' = cert)
    BY <1>17, Zenon DEF OnRegistered, Handle
  <2>4. faults \subseteq faults'
    BY <1>17, Zenon DEF OnRegistered, Fault
  <2> QED
    BY <2>1, <2>2, <2>3, <2>4 DEF flags
<1>18. CASE DriveEnds
  BY <1>18 DEF DriveEnds, Goto, After, Target, modem, exchange, broker
<1>19. CASE DriveFails
  BY <1>19 DEF DriveFails, Goto, Target, modem, exchange, broker
<1>20. CASE Retry
  BY <1>20 DEF Retry, Reboot, PowerDown, Goto, modem, exchange, broker
<1>21. CASE Persist
  BY <1>21 DEF Persist, PowerDown, Goto, modem, exchange, broker
<1>22. CASE \/ NormalConnect \/ NormalConnack
  BY <1>22 DEF NormalConnect, NormalConnack, Normal, Goto, modem, exchange,
     broker
<1>23. CASE NormalConnectFails
  BY <1>23 DEF NormalConnectFails, Normal, Reboot, PowerDown, Goto, modem,
     exchange, broker
<1>24. CASE \/ SessionLost \/ SendReboot
  BY <1>24 DEF SessionLost, SendReboot, Normal, Goto, modem, exchange, broker
<1>25. CASE OnReboot
  BY <1>25 DEF OnReboot, PowerDown, Goto, Commanded, modem, exchange, broker
<1>26. CASE Reset
  BY <1>26 DEF Reset, PowerDown, Goto, modem, exchange, broker
<1>27. CASE UNCHANGED vars
  BY <1>27 DEF vars, modem, exchange, broker, counts
<1> QED
  BY <1>1, <1>2, <1>3, <1>4, <1>5, <1>6, <1>7, <1>8, <1>9, <1>10, <1>11,
     <1>12, <1>13, <1>14, <1>15, <1>16, <1>17, <1>18, <1>19, <1>20, <1>21,
     <1>22, <1>23, <1>24, <1>25, <1>26, <1>27 DEF Next, Boot, Provision,
     Operate, Arrive

-----------------------------------------------------------------------------
(* The identity *)

(* No device begins with a key and a certificate that do not match.        *)
LEMMA VouchedInit == Init => Vouched
BY DEF Init, Vouched

(* The flag is written after the certificate of a registered key, and      *)
(* erased before the key is replaced.                                      *)
LEMMA VouchedStep ==
  SlotFlags /\ RamFlags /\ Exchanged /\ Vouched /\ [Next]_vars
    => Vouched'
<1> SUFFICES ASSUME SlotFlags, RamFlags, Exchanged, Vouched, [Next]_vars
             PROVE Vouched'
  OBVIOUS
<1> USE DEF Vouched, SlotFlags, RamFlags
<1>1. CASE LoadSettings
  BY <1>1 DEF LoadSettings, Continue, Goto, flash, modem, flags, broker,
     Fault
<1>2. CASE \/ ClaimCreds \/ CheckCreds \/ CleanStaleKey
  BY <1>2 DEF ClaimCreds, CheckCreds, CleanStaleKey, Continue, Stop, Goto,
     flash, modem, flags, broker, Fault
<1>3. CASE ForceClear
  BY <1>3 DEF ForceClear, Continue, Goto, Age, flash, modem, flags, broker,
     Fault
<1>4. CASE ForceErase
  BY <1>4 DEF ForceErase, EraseFlag, Continue, Goto, flash, modem, flags,
     broker, Fault
<1>5. CASE ForceSave
  BY <1>5 DEF ForceSave, Continue, Goto, flash, modem, flags, broker, Fault
<1>6. CASE Prepare
  BY <1>6 DEF Prepare, EraseFlag, Continue, Goto, flash, modem, flags,
     broker, Fault
<1>7. CASE KeyGen
  BY <1>7 DEF KeyGen, Goto, Age, flash, modem, flags, broker, Fault
<1>8. CASE \/ Attach \/ ResolveBroker
  BY <1>8 DEF Attach, ResolveBroker, Continue, Stop, Goto, flash, modem,
     flags, broker, Fault
<1>9. CASE AttachTimeout
  BY <1>9 DEF AttachTimeout, Reboot, PowerDown, Goto, flash, modem, flags,
     broker, Fault
<1>10. CASE ClearCreds
  BY <1>10 DEF ClearCreds, Continue, Goto, flash, modem, flags, broker, Fault
<1>11. CASE Unflag
  BY <1>11 DEF Unflag, EraseFlag, Continue, Goto, flash, modem, flags,
     broker, Fault
<1>12. CASE \/ Connect \/ Subscribe
  BY <1>12 DEF Connect, Subscribe, Call, Goto, flash, modem, flags, broker,
     Fault
<1>13. CASE Publish
  BY <1>13, PublishRegisters DEF flash, modem, flags, exchange
<1>14. CASE CallFails
  BY <1>14 DEF CallFails, Goto, flash, modem, flags, broker, Fault
<1>15. CASE \/ OnConnack \/ OnSuback \/ OnDisconnect \/ OnRejected
            \/ OnCreated
  BY <1>15 DEF OnConnack, OnSuback, OnDisconnect, OnRejected, OnCreated,
     Handle, Goto, flash, modem, flags, broker, Fault
<1>16. CASE OnRegistered
  <2>1. pc = "answer" /\ phase = 2 /\ active /\ s_cert = "current"
    BY <1>16 DEF OnRegistered, Exchanged
  <2>2. /\ UNCHANGED <<done, forced, key, stale, flags, pc, phase, active, s_cert>>
        /\ wire' = "none"
    BY <1>16, Zenon DEF OnRegistered, Handle, flash
  <2>3. \/ s_state' = "DONE" /\ cert' = s_cert
        \/ s_state' = "FAILED" /\ (cert' = s_cert \/ cert' = cert)
    BY <1>16, Zenon DEF OnRegistered, Handle
  <2>4. faults \subseteq faults'
    BY <1>16, Zenon DEF OnRegistered, Fault
  <2> QED
    BY <2>1, <2>2, <2>3, <2>4 DEF flags
<1>17. CASE DriveEnds
  BY <1>17 DEF DriveEnds, Goto, After, Waits, counts, flash, modem, flags,
     broker, Fault
<1>18. CASE DriveFails
  BY <1>18 DEF DriveFails, Goto, Waits, counts, flash, modem, flags, broker,
     Fault
<1>19. CASE Retry
  BY <1>19 DEF Retry, Reboot, PowerDown, Goto, flash, modem, flags, broker,
     Fault
<1>20. CASE Persist
  BY <1>20 DEF Persist, PowerDown, Goto, Exchanged, flash, modem, flags,
     broker, Fault
<1>21. CASE \/ NormalConnect \/ NormalConnack
  BY <1>21 DEF NormalConnect, NormalConnack, Normal, Goto, flash, modem,
     flags, broker, Fault
<1>22. CASE NormalConnectFails
  BY <1>22 DEF NormalConnectFails, Normal, Reboot, PowerDown, Goto, flash,
     modem, flags, broker, Fault
<1>23. CASE \/ SessionLost \/ SendReboot
  BY <1>23 DEF SessionLost, SendReboot, Normal, Goto, flash, modem, flags,
     broker, Fault
<1>24. CASE OnReboot
  BY <1>24 DEF OnReboot, PowerDown, Goto, flash, modem, flags, broker, Fault
<1>25. CASE Reset
  BY <1>25 DEF Reset, PowerDown, Goto, flash, modem, flags, broker, Fault
<1>26. CASE UNCHANGED vars
  BY <1>26 DEF vars, flash, modem, flags, broker, Fault, counts
<1> QED
  BY <1>1, <1>2, <1>3, <1>4, <1>5, <1>6, <1>7, <1>8, <1>9, <1>10, <1>11,
     <1>12, <1>13, <1>14, <1>15, <1>16, <1>17, <1>18, <1>19, <1>20, <1>21,
     <1>22, <1>23, <1>24, <1>25, <1>26 DEF Next, Boot, Provision, Operate,
     Arrive

(* At reset main has checked nothing.                                      *)
LEMMA RecognisedInit == Init => Recognised
BY DEF Init, Recognised

(* Main replaces a key only after it has found that the flag, the key or   *)
(* the certificate is missing.                                             *)
LEMMA RecognisedStep ==
  SlotFlags /\ RamFlags /\ Exchanged /\ Recognised /\ [Next]_vars
    => Recognised'
<1> SUFFICES ASSUME SlotFlags, RamFlags, Exchanged, Recognised, [Next]_vars
             PROVE Recognised'
  OBVIOUS
<1> USE DEF Recognised, Good, SlotFlags, RamFlags
<1>1. CASE LoadSettings
  BY <1>1 DEF LoadSettings, Continue, Goto, flash, modem, flags, broker,
     Fault
<1>2. CASE \/ ClaimCreds \/ CheckCreds \/ CleanStaleKey
  BY <1>2 DEF ClaimCreds, CheckCreds, CleanStaleKey, Continue, Stop, Goto,
     flash, modem, flags, broker, Fault
<1>3. CASE ForceClear
  BY <1>3 DEF ForceClear, Continue, Goto, Age, flash, modem, flags, broker,
     Fault
<1>4. CASE ForceErase
  BY <1>4 DEF ForceErase, EraseFlag, Continue, Goto, flash, modem, flags,
     broker, Fault
<1>5. CASE ForceSave
  BY <1>5 DEF ForceSave, Continue, Goto, flash, modem, flags, broker, Fault
<1>6. CASE Prepare
  BY <1>6 DEF Prepare, EraseFlag, Continue, Goto, flash, modem, flags,
     broker, Fault
<1>7. CASE KeyGen
  BY <1>7 DEF KeyGen, Goto, Age, flash, modem, flags, broker, Fault
<1>8. CASE \/ Attach \/ ResolveBroker
  BY <1>8 DEF Attach, ResolveBroker, Continue, Stop, Goto, flash, modem,
     flags, broker, Fault
<1>9. CASE AttachTimeout
  BY <1>9 DEF AttachTimeout, Reboot, PowerDown, Goto, flash, modem, flags,
     broker, Fault
<1>10. CASE ClearCreds
  BY <1>10 DEF ClearCreds, Continue, Goto, flash, modem, flags, broker, Fault
<1>11. CASE Unflag
  BY <1>11 DEF Unflag, EraseFlag, Continue, Goto, flash, modem, flags,
     broker, Fault
<1>12. CASE \/ Connect \/ Subscribe
  BY <1>12 DEF Connect, Subscribe, Call, Goto, flash, modem, flags, broker,
     Fault
<1>13. CASE Publish
  BY <1>13, PublishRegisters DEF flash, modem, flags, exchange
<1>14. CASE CallFails
  BY <1>14 DEF CallFails, Goto, flash, modem, flags, broker, Fault
<1>15. CASE \/ OnConnack \/ OnSuback \/ OnDisconnect \/ OnRejected
            \/ OnCreated
  BY <1>15 DEF OnConnack, OnSuback, OnDisconnect, OnRejected, OnCreated,
     Handle, Goto, Driving, Waits, flash, modem, flags, broker, Fault
<1>16. CASE OnRegistered
  <2>1. pc = "answer" /\ phase = 2 /\ active /\ s_cert = "current"
    BY <1>16 DEF OnRegistered, Exchanged
  <2>2. /\ UNCHANGED <<done, forced, key, stale, flags, pc, phase, active, s_cert>>
        /\ wire' = "none"
    BY <1>16, Zenon DEF OnRegistered, Handle, flash
  <2>3. \/ s_state' = "DONE" /\ cert' = s_cert
        \/ s_state' = "FAILED" /\ (cert' = s_cert \/ cert' = cert)
    BY <1>16, Zenon DEF OnRegistered, Handle
  <2>4. faults \subseteq faults'
    BY <1>16, Zenon DEF OnRegistered, Fault
  <2> QED
    BY <2>1, <2>2, <2>3, <2>4 DEF flags
<1>17. CASE DriveEnds
  BY <1>17 DEF DriveEnds, Goto, After, Waits, counts, flash, modem, flags,
     broker, Fault
<1>18. CASE DriveFails
  BY <1>18 DEF DriveFails, Goto, Waits, counts, flash, modem, flags, broker,
     Fault
<1>19. CASE Retry
  BY <1>19 DEF Retry, Reboot, PowerDown, Goto, flash, modem, flags, broker,
     Fault
<1>20. CASE Persist
  BY <1>20 DEF Persist, PowerDown, Goto, flash, modem, flags, broker, Fault
<1>21. CASE \/ NormalConnect \/ NormalConnack
  BY <1>21 DEF NormalConnect, NormalConnack, Normal, Goto, flash, modem,
     flags, broker, Fault
<1>22. CASE NormalConnectFails
  BY <1>22 DEF NormalConnectFails, Normal, Reboot, PowerDown, Goto, flash,
     modem, flags, broker, Fault
<1>23. CASE \/ SessionLost \/ SendReboot
  BY <1>23 DEF SessionLost, SendReboot, Normal, Goto, flash, modem, flags,
     broker, Fault
<1>24. CASE OnReboot
  BY <1>24 DEF OnReboot, PowerDown, Goto, flash, modem, flags, broker, Fault
<1>25. CASE Reset
  BY <1>25 DEF Reset, PowerDown, Goto, flash, modem, flags, broker, Fault
<1>26. CASE UNCHANGED vars
  BY <1>26 DEF vars, flash, modem, flags, broker, Fault, counts
<1> QED
  BY <1>1, <1>2, <1>3, <1>4, <1>5, <1>6, <1>7, <1>8, <1>9, <1>10, <1>11,
     <1>12, <1>13, <1>14, <1>15, <1>16, <1>17, <1>18, <1>19, <1>20, <1>21,
     <1>22, <1>23, <1>24, <1>25, <1>26 DEF Next, Boot, Provision, Operate,
     Arrive

-----------------------------------------------------------------------------
(* What follows from it *)

IInv ==
  /\ SlotFlags /\ RamFlags /\ Places /\ Counters /\ FaultsBounded
  /\ Commanded /\ HatchShut /\ Exchanged /\ Vouched /\ Recognised

(* The invariant holds of every device that comes from the factory or from *)
(* an older build.                                                         *)
LEMMA IInvInit == Init => IInv
BY SlotFlagsInit, RamFlagsInit, PlacesInit, CommandedInit, HatchInit,
   ExchangedInit, VouchedInit, RecognisedInit DEF IInv

(* Every step keeps the invariant, the resets amid a write included.       *)
LEMMA IInvStep == IInv /\ [Next]_vars => IInv'
BY SlotFlagsStep, RamFlagsStep, PlacesStep, CountersStep, FaultsStep,
   CommandedStep, HatchStep, ExchangedStep, VouchedStep, RecognisedStep
   DEF IInv

(* Whenever the flag, a certificate and a key are all there for the next   *)
(* boot to trust, the certificate belongs to the key and is registered,    *)
(* wherever the power has failed before.                                   *)
THEOREM FlagVouches == Spec => []Consistent
<1>1. IInv => Consistent
  <2> SUFFICES ASSUME IInv PROVE Consistent
    OBVIOUS
  <2>1. /\ {done, forced, key, stale, active, cut, mqtt_connected}
              \subseteq BOOLEAN
        /\ {g_provisioned, creds_exist, g_force_ran} \subseteq BOOLEAN
    BY Zenon DEF IInv, SlotFlags, RamFlags
  <2>2. pending \in 0 .. MaxCommands /\ ran \in Nat
    BY FleetBounds DEF IInv, Commanded
  <2>3. TypeOK
    BY <2>1, <2>2, Zenon DEF TypeOK, IInv, Places, Counters, FaultsBounded,
       Commanded
  <2>4. FlagIsTrue
    BY DEF FlagIsTrue, IInv, Vouched
  <2> QED
    BY <2>3, <2>4 DEF Consistent
<1> QED
  BY <1>1, IInvInit, IInvStep, PTL DEF Spec

(* The build that forces a new identity does so once, unless a reset comes *)
(* amid its three steps or its flag cannot be saved or loaded.             *)
THEOREM HatchFiresOnce == Spec => []FiresOnce
<1>1. IInv => FiresOnce
  BY DEF IInv, HatchShut, FiresOnce
<1> QED
  BY <1>1, IInvInit, IInvStep, PTL DEF Spec

(* A REBOOT command does not reboot the device again after the boot.       *)
THEOREM RebootsOnce == Spec => []RebootOnce
<1>1. IInv => RebootOnce
  BY FleetBounds DEF IInv, Commanded, RebootOnce
<1> QED
  BY <1>1, IInvInit, IInvStep, PTL DEF Spec

(* The steps that change the certificate, and where main is when they do.  *)
LEMMA CertificateMoves ==
  [Next]_vars =>
    \/ UNCHANGED cert
    \/ pc = "force"
    \/ pc = "clear"
    \/ KeyGen
    \/ OnRegistered
<1> SUFFICES ASSUME [Next]_vars
             PROVE  \/ UNCHANGED cert \/ pc = "force" \/ pc = "clear"
                    \/ KeyGen \/ OnRegistered
  OBVIOUS
<1>1. CASE \/ LoadSettings \/ ClaimCreds \/ CheckCreds \/ CleanStaleKey
  BY <1>1, Zenon DEF LoadSettings, ClaimCreds, CheckCreds, CleanStaleKey,
     Continue, Stop, Goto, modem
<1>2. CASE \/ ForceClear \/ ForceErase \/ ForceSave
  BY <1>2, Zenon DEF ForceClear, ForceErase, ForceSave, Continue, EraseFlag,
     Goto, modem
<1>3. CASE \/ Prepare \/ KeyGen
  BY <1>3, Zenon DEF Prepare, KeyGen, EraseFlag, Continue, Goto, modem
<1>4. CASE \/ Attach \/ AttachTimeout \/ ResolveBroker \/ ClearCreds
           \/ Unflag
  BY <1>4, Zenon DEF Attach, AttachTimeout, ResolveBroker, ClearCreds,
     Unflag, Continue, Stop, Reboot, PowerDown, EraseFlag, Goto, modem
<1>5. CASE \/ Connect \/ Subscribe \/ Publish
  BY <1>5, Zenon DEF Connect, Subscribe, Publish, Call, Goto, modem
<1>6. CASE CallFails
  BY <1>6, Zenon DEF CallFails, Goto, modem
<1>7. CASE \/ OnConnack \/ OnSuback \/ OnDisconnect \/ OnRejected
  BY <1>7, Zenon DEF OnConnack, OnSuback, OnDisconnect, OnRejected, Handle,
     Goto, modem
<1>8. CASE \/ OnCreated \/ OnRegistered
  BY <1>8, Zenon DEF OnCreated, OnRegistered, Handle, Goto, modem
<1>9. CASE \/ DriveEnds \/ DriveFails \/ Retry \/ Persist
  BY <1>9, Zenon DEF DriveEnds, DriveFails, Retry, Persist, Reboot,
     PowerDown, Goto, modem
<1>10. CASE \/ NormalConnect \/ NormalConnectFails \/ NormalConnack
            \/ SessionLost \/ SendReboot
  BY <1>10, Zenon DEF NormalConnect, NormalConnectFails, NormalConnack,
     SessionLost, SendReboot, Normal, Reboot, PowerDown, Goto, modem
<1>11. CASE \/ OnReboot \/ Reset
  BY <1>11, Zenon DEF OnReboot, Reset, PowerDown, Goto, modem
<1>12. CASE UNCHANGED vars
  BY <1>12, Zenon DEF vars, modem, counts
<1> QED
  BY <1>1, <1>2, <1>3, <1>4, <1>5, <1>6, <1>7, <1>8, <1>9, <1>10, <1>11,
     <1>12, Zenon DEF Next, Boot, Provision, Operate, Arrive

(* No refusal, no reset and no command costs the device a registered       *)
(* identity that its flag vouches for.                                     *)
THEOREM IdentityStays == Spec => IdentityKept
<1> DEFINE A == done /\ key /\ cert = "current" /\ cert' # "current"
                  => pc = "force" \/ faults \cap {"load", "exists"} # {}
<1>1. IInv /\ [Next]_vars => A
  <2> SUFFICES ASSUME IInv, [Next]_vars,
                      done, key, cert = "current", cert' # "current",
                      "load" \notin faults, "exists" \notin faults
               PROVE  pc = "force"
    OBVIOUS
  <2>1. ~ KeyGen
    BY DEF IInv, Recognised, Good, KeyGen
  <2>2. ~ OnRegistered
    BY DEF IInv, Exchanged, OnRegistered
  <2>3. pc # "clear"
    BY DEF IInv, Recognised
  <2> QED
    BY <2>1, <2>2, <2>3, CertificateMoves
<1>2. Spec => []IInv
  BY IInvInit, IInvStep, PTL DEF Spec
<1>3. IInv /\ [Next]_vars => [A]_vars
  BY <1>1
<1> QED
  BY <1>2, <1>3, PTL DEF Spec, IdentityKept

=============================================================================
