-------------------------------- MODULE Fota --------------------------------
(***************************************************************************)
(* Firmware updates (src/fota.c) between the cloud's jobs and MCUboot.     *)
(*                                                                         *)
(* A FIRMWARE_UPDATE command starts a download; the downloader thread has  *)
(* the image marked for a swap, leaves a record of the job in NVS and      *)
(* resets the device.  MCUboot swaps, and swaps back at the next reset     *)
(* unless conexio_cloud_init has come as far as fota_confirm.  When the    *)
(* cloud is reached, fota_check_and_execute compares the record with the   *)
(* running firmware and reports the job as SUCCEEDED or FAILED.            *)
(*                                                                         *)
(* The cloud is polled by the cloud thread, and by every application       *)
(* thread that publishes (conexio_cloud_publish), so that a command can be *)
(* handled on two threads at once, and before the check: nothing in the    *)
(* code keeps them apart but g_fota_active, which is read before it is     *)
(* set.  What such a crossing does is kept in the history `crossed'.       *)
(*                                                                         *)
(* An image is its version.  Only the final reports are kept.  Flash is    *)
(* taken to work: fota_pending_save does not look at the result of its     *)
(* write.                                                                  *)
(***************************************************************************)
EXTENDS Naturals, FiniteSets

CONSTANTS
  CloudThread, Apps,  \* the SDK's thread, and those of the application
                      \* that connect and publish
  Jobs,       \* jobs of the cloud
  Version,    \* the version of each job's image
  Unnamed,    \* jobs whose document has no firmwareVersion
  Foreign,    \* jobs for another device type
  Factory,    \* the version the device starts with
  MaxSends,   \* bound: FIRMWARE_UPDATE commands, repetitions included
  MaxResets,  \* bound: resets other than the one of an update
  MaxFaults   \* bound: failed publishes and failed confirmations

ASSUME FotaJobs ==
  /\ Unnamed \subseteq Jobs /\ Foreign \subseteq Jobs
  /\ Jobs \subseteq Nat \ {0}
  /\ Version \in [Jobs -> Nat \ {0}] /\ Factory \in Nat \ {0}
ASSUME FotaThreads == CloudThread \notin Apps
ASSUME FotaBounds == MaxSends \in Nat /\ MaxResets \in Nat /\ MaxFaults \in Nat

VARIABLES
  running, confirmed,  \* primary slot
  slot, marked,        \* secondary slot: image, and whether to swap
  pending,             \* NVS 0x0007: job and target version
  installed,           \* NVS 0x0008: version last confirmed
  g_device_id,         \* is it set?
  g_current_job_id, g_target_version, g_fota_active,
  pc,                  \* the main and then the cloud thread
  at, doc,             \* command handlers: place, and job let in, by thread
  url,                 \* the job in g_host_buf and g_file_buf
  bypassed,            \* the application made this session: no check in it
  dl, image,           \* the downloader thread, and what it downloads
  sends, resets, faults,
  succeeded, failed,   \* jobs reported as SUCCEEDED, as FAILED
  undone,              \* history: images MCUboot refused or swapped back
  crossed              \* history: two steps that nothing keeps apart met

slots   == <<running, confirmed, slot, marked>>
nvs     == <<pending, installed>>
ram     == <<g_device_id, g_current_job_id, g_target_version, g_fota_active>>
busy    == <<at, doc, url>>
loader  == <<dl, image>>
reports == <<succeeded, failed>>
counts  == <<sends, resets, faults>>
history == <<undone, crossed>>
fota_vars ==
  <<slots, nvs, ram, busy, bypassed, loader, pc, counts, reports, history>>

Threads == {CloudThread} \cup Apps

NoJob     == 0
NoVersion == 0
NoRecord  == [job |-> NoJob, version |-> NoVersion]

Named(j) == IF j \in Unnamed THEN NoVersion ELSE Version[j]

FotaInit ==
  /\ running = Factory /\ confirmed = TRUE
  /\ slot = NoVersion /\ marked = FALSE
  /\ pending = NoRecord /\ installed = NoVersion
  /\ g_device_id = FALSE /\ g_current_job_id = NoJob
  /\ g_target_version = NoVersion /\ g_fota_active = FALSE
  /\ pc = "off" /\ dl = "idle" /\ image = NoVersion
  /\ at = [t \in Threads |-> "idle"] /\ doc = [t \in Threads |-> NoJob]
  /\ url = NoJob /\ bypassed = FALSE
  /\ sends = 0 /\ resets = 0 /\ faults = 0
  /\ succeeded = {} /\ failed = {} /\ undone = {} /\ crossed = FALSE

Fault == faults < MaxFaults /\ faults' = faults + 1

(* job_status_publish of a final status: nothing is sent without a device  *)
(* id and a job, and the result of the publish is not handed on.           *)
Report(j, ok) ==
  IF g_device_id /\ j # NoJob
    THEN \/ /\ IF ok THEN succeeded' = succeeded \cup {j} /\ UNCHANGED failed
                     ELSE failed' = failed \cup {j} /\ UNCHANGED succeeded
            /\ UNCHANGED faults
         \/ Fault /\ UNCHANGED reports
    ELSE UNCHANGED <<faults, reports>>

-----------------------------------------------------------------------------
(* Resets and MCUboot (external) *)

PowerDown ==
  /\ pc' = "off" /\ dl' = "idle" /\ image' = NoVersion
  /\ at' = [t \in Threads |-> "idle"] /\ doc' = [t \in Threads |-> NoJob]
  /\ url' = NoJob /\ bypassed' = FALSE
  /\ g_device_id' = FALSE /\ g_current_job_id' = NoJob
  /\ g_target_version' = NoVersion /\ g_fota_active' = FALSE

Reset ==
  /\ pc # "off" /\ resets < MaxResets
  /\ resets' = resets + 1
  /\ PowerDown
  /\ UNCHANGED <<slots, nvs, sends, faults, reports, history>>

BootPlain ==
  /\ pc = "off" /\ ~ marked /\ confirmed
  /\ pc' = "init"
  /\ UNCHANGED <<slots, nvs, ram, busy, bypassed, loader, counts, reports,
                 history>>

BootSwap ==
  /\ pc = "off" /\ marked
  /\ running' = slot /\ slot' = running
  /\ marked' = FALSE /\ confirmed' = FALSE
  /\ pc' = "init"
  /\ UNCHANGED <<nvs, ram, busy, bypassed, loader, counts, reports, history>>

(* The signature of the new image is wrong. *)
BootRefuse ==
  /\ pc = "off" /\ marked
  /\ marked' = FALSE
  /\ undone' = undone \cup {slot}
  /\ pc' = "init"
  /\ UNCHANGED <<running, confirmed, slot, nvs, ram, busy, bypassed, loader,
                 counts, reports, crossed>>

(* The new image was reset before it was confirmed. *)
BootRevert ==
  /\ pc = "off" /\ ~ marked /\ ~ confirmed
  /\ running' = slot /\ slot' = running
  /\ confirmed' = TRUE
  /\ undone' = undone \cup {running}
  /\ pc' = "init"
  /\ UNCHANGED <<marked, nvs, ram, busy, bypassed, loader, counts, reports,
                 crossed>>

-----------------------------------------------------------------------------
(* fota_init and fota_confirm, the last steps of conexio_cloud_init        *)

Confirm ==
  /\ pc = "init"
  /\ g_device_id' = TRUE
  /\ confirmed' = TRUE
  /\ pc' = "record"
  /\ UNCHANGED <<running, slot, marked, nvs, g_current_job_id,
                 g_target_version, g_fota_active, busy, bypassed, loader,
                 counts, reports, history>>

(* boot_write_img_confirmed, which writes nothing for an image that is     *)
(* confirmed already, fails: a warning, no more.                           *)
ConfirmFails ==
  /\ pc = "init" /\ ~ confirmed
  /\ Fault
  /\ g_device_id' = TRUE
  /\ pc' = "offline"
  /\ UNCHANGED <<slots, nvs, g_current_job_id, g_target_version, g_fota_active,
                 busy, bypassed, loader, sends, resets, reports, history>>

RecordVersion ==
  /\ pc = "record"
  /\ installed' = running
  /\ pc' = "offline"
  /\ UNCHANGED <<slots, pending, ram, busy, bypassed, loader, counts, reports,
                 history>>

-----------------------------------------------------------------------------
(* Sessions, and fota_check_and_execute on the cloud thread                *)

Sessions(place, bypass) ==
  /\ pc' = place /\ bypassed' = bypass
  /\ UNCHANGED <<slots, nvs, ram, busy, loader, counts, reports, history>>

(* Mutant of Connect: the check is skipped. *)
ConnectNoCheck == pc = "offline" /\ Sessions("online", FALSE)

(* The cloud thread connects and goes on to the check. *)
Connect == pc = "offline" /\ Sessions("check", FALSE)

(* conexio_cloud_connect on a thread of the application: the cloud thread  *)
(* finds a session and goes past the block with the check.                 *)
AppConnect == Apps # {} /\ pc = "offline" /\ Sessions("online", TRUE)

Disconnect ==
  pc = "online" /\ at[CloudThread] = "idle" /\ Sessions("offline", FALSE)

(* There is a record and no update is running. *)
CheckDue == pc = "check" /\ ~ g_fota_active /\ pending # NoRecord

(* A handler that was let in, or the report of a failed download, is not   *)
(* over when the check begins.                                             *)
CheckMeetsOthers ==
  crossed' = (crossed \/ dl = "failing" \/ \E t \in Threads : at[t] = "let_in")

CheckNothing ==
  /\ pc = "check"
  /\ g_fota_active \/ pending = NoRecord
  /\ Sessions("online", bypassed)

RolledBack == pending.version \notin {NoVersion, running}

CheckRollback ==
  /\ CheckDue /\ RolledBack
  /\ g_device_id' = TRUE /\ g_current_job_id' = pending.job
  /\ \/ failed' = failed \cup {pending.job} /\ UNCHANGED faults
     \/ Fault /\ UNCHANGED failed
  /\ pc' = "clear_failed"
  /\ CheckMeetsOthers
  /\ UNCHANGED <<slots, nvs, g_target_version, g_fota_active, busy, bypassed,
                 loader, sends, resets, succeeded, undone>>

(* Published or not, the record goes; so do the device id and the job.     *)
ClearFailed ==
  /\ pc = "clear_failed"
  /\ pending' = NoRecord
  /\ g_device_id' = FALSE /\ g_current_job_id' = NoJob
  /\ pc' = "online"
  /\ UNCHANGED <<slots, installed, g_target_version, g_fota_active, busy,
                 bypassed, loader, counts, reports, history>>

CheckSucceeded ==
  /\ CheckDue /\ ~ RolledBack
  /\ succeeded' = succeeded \cup {pending.job}
  /\ pc' = "clear"
  /\ CheckMeetsOthers
  /\ UNCHANGED <<slots, nvs, ram, busy, bypassed, loader, counts, failed,
                 undone>>

(* The publish to the jobs topic fails; the one to the diagnostics topic   *)
(* may have gone out.  The record stays for the next connection.           *)
CheckUnsent ==
  /\ CheckDue /\ ~ RolledBack
  /\ Fault
  /\ succeeded' \in {succeeded, succeeded \cup {pending.job}}
  /\ pc' = "online"
  /\ CheckMeetsOthers
  /\ UNCHANGED <<slots, nvs, ram, busy, bypassed, loader, sends, resets,
                 failed, undone>>

ClearSucceeded ==
  /\ pc = "clear"
  /\ pending' = NoRecord
  /\ pc' = "online"
  /\ UNCHANGED <<slots, installed, ram, busy, bypassed, loader, counts,
                 reports, history>>

-----------------------------------------------------------------------------
(* builtin_on_firmware_update and execute_job, on the thread that polls    *)

(* The cloud thread polls after the check only, a thread of the            *)
(* application as soon as there is a session.                              *)
Polls(t) ==
  /\ at[t] = "idle"
  /\ IF t = CloudThread THEN pc = "online"
     ELSE pc \in {"check", "clear", "clear_failed", "online"}

Receive(t) ==
  /\ Polls(t)
  /\ sends < MaxSends
  /\ sends' = sends + 1

(* A download is active, or the document cannot be read.  No report. *)
Ignore(t) ==
  /\ Receive(t)
  /\ UNCHANGED <<slots, nvs, ram, busy, bypassed, loader, pc, resets, faults,
                 reports, history>>

(* The command comes between two steps of another handler, of the check or *)
(* of the report of a failed download, or before the check of a record.    *)
CommandMeetsOthers ==
  crossed' = (\/ crossed
              \/ \E u \in Threads : at[u] = "let_in"
              \/ dl = "failing" \/ pc \in {"clear", "clear_failed"}
              \/ pending # NoRecord /\ (pc = "check" \/ bypassed))

(* Mutant of LetIn: the guard of the command handler is gone. *)
LetInUnguarded(t, j) ==
  /\ Receive(t)
  /\ at' = [at EXCEPT ![t] = "let_in"] /\ doc' = [doc EXCEPT ![t] = j]
  /\ CommandMeetsOthers
  /\ UNCHANGED <<slots, nvs, ram, url, bypassed, loader, pc, resets, faults,
                 reports, undone>>

(* fota_is_active is read here and not again. *)
LetIn(t, j) ==
  /\ Receive(t)
  /\ ~ g_fota_active
  /\ at' = [at EXCEPT ![t] = "let_in"] /\ doc' = [doc EXCEPT ![t] = j]
  /\ CommandMeetsOthers
  /\ UNCHANGED <<slots, nvs, ram, url, bypassed, loader, pc, resets, faults,
                 reports, undone>>

AlreadyThere(j) == Named(j) # NoVersion /\ Named(j) = installed

(* The version is installed, or the job is for another type: SUCCEEDED.    *)
Skip(t) ==
  /\ at[t] = "let_in"
  /\ AlreadyThere(doc[t]) \/ doc[t] \in Foreign
  /\ g_current_job_id' = doc[t]
  /\ Report(doc[t], TRUE)
  /\ at' = [at EXCEPT ![t] = "idle"] /\ doc' = [doc EXCEPT ![t] = NoJob]
  /\ UNCHANGED <<slots, nvs, g_device_id, g_target_version, g_fota_active, url,
                 bypassed, loader, pc, sends, resets, history>>

(* The thread then polls the can_start callback before the download.       *)
Start(t) ==
  /\ at[t] = "let_in"
  /\ ~ AlreadyThere(doc[t]) /\ doc[t] \notin Foreign
  /\ g_current_job_id' = doc[t] /\ g_target_version' = Named(doc[t])
  /\ g_fota_active' = TRUE
  /\ url' = doc[t]
  /\ at' = [at EXCEPT ![t] = "starting"] /\ doc' = [doc EXCEPT ![t] = NoJob]
  /\ UNCHANGED <<slots, nvs, g_device_id, bypassed, loader, pc, counts,
                 reports, history>>

(* fota_download_start, with what the two buffers hold. *)
Download(t) ==
  /\ at[t] = "starting" /\ dl = "idle"
  /\ dl' = "downloading" /\ image' = Version[url]
  /\ at' = [at EXCEPT ![t] = "idle"]
  /\ UNCHANGED <<slots, nvs, ram, doc, url, bypassed, pc, counts, reports,
                 history>>

(* The URL is unusable or fota_download_start fails.  No report. *)
StartFails(t) ==
  /\ at[t] = "starting"
  /\ g_fota_active' = FALSE
  /\ at' = [at EXCEPT ![t] = "idle"]
  /\ UNCHANGED <<slots, nvs, g_device_id, g_current_job_id, g_target_version,
                 doc, url, bypassed, loader, pc, counts, reports, history>>

Command(t) ==
  \/ Ignore(t) \/ Skip(t) \/ Start(t) \/ Download(t) \/ StartFails(t)
  \/ \E j \in Jobs : LetIn(t, j)

-----------------------------------------------------------------------------
(* fota_download_handler, on the downloader thread *)

(* The library marks the image before it calls the handler. *)
Mark ==
  /\ dl = "downloading"
  /\ slot' = image /\ marked' = TRUE
  /\ dl' = "marked"
  /\ UNCHANGED <<running, confirmed, nvs, ram, busy, bypassed, image, pc,
                 counts, reports, history>>

(* Mutant of SaveRecord: the version that is running is saved.             *)
SaveRunning ==
  /\ dl = "marked"
  /\ pending' = IF g_device_id /\ g_current_job_id # NoJob
                THEN [job |-> g_current_job_id, version |-> running]
                ELSE pending
  /\ dl' = "saved"
  /\ UNCHANGED <<slots, installed, ram, busy, bypassed, image, pc, counts,
                 reports, history>>

SaveRecord ==
  /\ dl = "marked"
  /\ pending' = IF g_device_id /\ g_current_job_id # NoJob
                THEN [job |-> g_current_job_id, version |-> g_target_version]
                ELSE pending
  /\ dl' = "saved"
  /\ UNCHANGED <<slots, installed, ram, busy, bypassed, image, pc, counts,
                 reports, history>>

(* After two seconds. *)
Reboot ==
  /\ dl = "saved"
  /\ PowerDown
  /\ UNCHANGED <<slots, nvs, counts, reports, history>>

(* An error: from here on a command can be let in. *)
DownloadFails ==
  /\ dl = "downloading"
  /\ g_fota_active' = FALSE
  /\ dl' = "failing" /\ image' = NoVersion
  /\ UNCHANGED <<slots, nvs, g_device_id, g_current_job_id, g_target_version,
                 busy, bypassed, pc, counts, reports, history>>

(* The report is for the job that g_current_job_id names by now. *)
ReportFailure ==
  /\ dl = "failing"
  /\ Report(g_current_job_id, FALSE)
  /\ dl' = "idle"
  /\ UNCHANGED <<slots, nvs, ram, busy, bypassed, image, pc, sends, resets,
                 history>>

(* Cancelled: no report. *)
DownloadCancelled ==
  /\ dl = "downloading"
  /\ g_fota_active' = FALSE
  /\ dl' = "idle" /\ image' = NoVersion
  /\ UNCHANGED <<slots, nvs, g_device_id, g_current_job_id, g_target_version,
                 busy, bypassed, pc, counts, reports, history>>

McuBoot    == BootPlain \/ BootSwap \/ BootRefuse \/ BootRevert
EndInit    == Confirm \/ ConfirmFails \/ RecordVersion
Check      == CheckNothing \/ CheckRollback \/ ClearFailed
                \/ CheckSucceeded \/ CheckUnsent \/ ClearSucceeded
Handler    == SaveRecord \/ Reboot \/ ReportFailure
Downloader == Mark \/ Handler \/ DownloadFails \/ DownloadCancelled

FotaNext ==
  \/ Reset \/ McuBoot \/ EndInit
  \/ Connect \/ AppConnect \/ Disconnect \/ Check
  \/ \E t \in Threads : Command(t)
  \/ Downloader

FotaSpec == FotaInit /\ [][FotaNext]_fota_vars

(* The device boots, init gets through, the check and the handler go on,   *)
(* and the cloud thread connects if it finds no session again and again:   *)
(* the application may be faster every other time.                         *)
FairFotaSpec ==
  /\ FotaSpec
  /\ WF_fota_vars(McuBoot) /\ WF_fota_vars(EndInit)
  /\ SF_fota_vars(Connect) /\ WF_fota_vars(Check)
  /\ WF_fota_vars(Handler)

-----------------------------------------------------------------------------
(* Invariants *)

Versions == {Version[j] : j \in Jobs} \cup {Factory}

FotaTypeOK ==
  /\ running \in Versions /\ confirmed \in BOOLEAN
  /\ slot \in Versions \cup {NoVersion} /\ marked \in BOOLEAN
  /\ pending \in [job : Jobs \cup {NoJob}, version : Versions \cup {NoVersion}]
  /\ installed \in Versions \cup {NoVersion}
  /\ g_device_id \in BOOLEAN
  /\ g_current_job_id \in Jobs \cup {NoJob}
  /\ g_target_version \in Versions \cup {NoVersion}
  /\ g_fota_active \in BOOLEAN
  /\ pc \in {"off", "init", "record", "offline", "check", "clear",
             "clear_failed", "online"}
  /\ at \in [Threads -> {"idle", "let_in", "starting"}]
  /\ doc \in [Threads -> Jobs \cup {NoJob}] /\ url \in Jobs \cup {NoJob}
  /\ bypassed \in BOOLEAN
  /\ dl \in {"idle", "downloading", "marked", "saved", "failing"}
  /\ image \in Versions \cup {NoVersion}
  /\ sends \in 0 .. MaxSends /\ resets \in 0 .. MaxResets
  /\ faults \in 0 .. MaxFaults
  /\ succeeded \subseteq Jobs /\ failed \subseteq Jobs
  /\ undone \subseteq Versions /\ crossed \in BOOLEAN

(* "The static FOTA buffers (g_host_buf, g_file_buf) are not re-entrant    *)
(* and would be corrupted by a concurrent start" (conexio_cloud.c): as     *)
(* long as no two steps have crossed, one update is under way at most, the *)
(* buffers are those of its job, and the flag that keeps a second one away *)
(* is set from before its download until its end.                          *)
OneUpdate ==
  ~ crossed =>
    /\ \A t, u \in Threads : at[t] # "idle" /\ at[u] # "idle" => t = u
    /\ (\E t \in Threads : at[t] = "starting")
         => g_fota_active /\ dl = "idle"
    /\ dl \in {"downloading", "marked", "saved"}
         => g_fota_active /\ \A t \in Threads : at[t] = "idle"
    /\ g_fota_active => url = g_current_job_id

(* When the check reads a record, the update it is about is over: its      *)
(* image is running and confirmed, or MCUboot has refused it or swapped it *)
(* back.  Resets at any step do no harm, not even between the image being  *)
(* marked and the record being written; a report that could not be sent,   *)
(* a failed confirmation or a crossing may.                                *)
RecordIsSettled ==
  CheckDue /\ faults = 0 /\ ~ crossed =>
    \/ running = Version[pending.job] /\ confirmed
    \/ Version[pending.job] \in undone

(* "The SUCCEEDED publish is saved to NVS before the reboot so it survives"*)
(* (FOTA_BUILD_REFERENCE.md): when the handler is about to reset the       *)
(* device, the record is that of the job.                                  *)
RecordKept == dl = "saved" /\ ~ crossed => pending.job = g_current_job_id

(* It is, unless the device id is gone: as long as flash works and nothing *)
(* crosses, nothing else loses a record.                                   *)
RecordKeptWithId == g_device_id => RecordKept

(* One update at a time, and its record settled and kept. *)
FotaConsistent ==
  FotaTypeOK /\ OneUpdate /\ RecordIsSettled /\ RecordKeptWithId

-----------------------------------------------------------------------------
(* Step properties and liveness *)

(* No job is reported as SUCCEEDED by confirmed firmware other than the    *)
(* one the job asks for, whatever is reset, repeated or fails on the way,  *)
(* as long as no two steps have crossed.  A job for another type, and one  *)
(* that does not name its version, are reported as SUCCEEDED unseen.       *)
SuccessIsInstalled ==
  [][~ crossed' =>
       \A j \in succeeded' \ (succeeded \cup Foreign \cup Unnamed) :
         confirmed => running = Version[j]]_fota_vars

(* "publishing FAILED" for a rollback (fota.c), and for a download that    *)
(* fails: no job is reported as FAILED while its image is the running,     *)
(* confirmed firmware, as long as no two steps have crossed.               *)
FailureIsReal ==
  [][~ crossed' =>
       \A j \in failed' \ (failed \cup Unnamed) :
         confirmed => running # Version[j]]_fota_vars

(* "Erase the pending record after successful publish" (fota.c): as long   *)
(* as no publish fails and no command comes before the check of a record,  *)
(* or across another step, a record leaves NVS, to be erased or for that   *)
(* of another job, only when its own job has been reported.                *)
ReportedBeforeErased ==
  [][faults' = 0 /\ ~ crossed' =>
       \A j \in Jobs : pending.job = j /\ pending'.job # j
                         => j \in succeeded' \cup failed']_fota_vars

(* What the cloud is told of a job is what became of it, and it is told. *)
ReportsAreTrue == SuccessIsInstalled /\ FailureIsReal /\ ReportedBeforeErased

(* "published here on the first MQTT CONNACK of the new firmware" and      *)
(* "Publish FAILED so the cloud marks the job failed" (fota.c): a job      *)
(* whose record was written gets its final report, through the resets on   *)
(* the way, unless the application holds sessions of its own for ever, a   *)
(* publish fails, or two steps cross.                                      *)
RecordIsReported ==
  []<>(~ bypassed) =>
    \A j \in Jobs :
      pending.job = j ~> j \in succeeded \cup failed \/ faults > 0 \/ crossed

=============================================================================
