--------------------------- MODULE OfflineBuffer ---------------------------
(***************************************************************************)
(* The flash-backed ring of telemetry payloads (src/offline_buffer.c) and  *)
(* the loop that replays it when the cloud comes back (the                 *)
(* CONEXIO_CLOUD_EVT_CONNECTED case of sdk_internal_event_handler in       *)
(* src/conexio_cloud.c).                                                   *)
(*                                                                         *)
(* The ring keeps g_write_idx, g_read_idx and g_count in RAM and mirrors   *)
(* each of them in an NVS record of its own.  One NVS write is atomic, a   *)
(* buffer operation is several of them: every write is a step here, power  *)
(* can fail between any two, and a write can return an error.  Payloads    *)
(* are numbered in the order in which they are pushed.                     *)
(***************************************************************************)
EXTENDS Naturals, FiniteSets

CONSTANTS
  N,              \* CONFIG_CONEXIO_CLOUD_OFFLINE_BUFFER_SIZE
  Batch,          \* CONFIG_CONEXIO_CLOUD_OFFLINE_REPLAY_BATCH
  MaxPush,        \* bound: payloads pushed in a behaviour
  MaxFaults,      \* bound: failed writes, and power cuts inside an operation
  FailingWrites,  \* which NVS writes can fail: "entry", "meta" or both
  UseClear        \* is offline_buffer_clear called?

ASSUME SizeAssumption == N \in Nat \ {0}
ASSUME BoundAssumption == Batch \in Nat /\ MaxPush \in Nat /\ MaxFaults \in Nat
ASSUME FlagAssumption ==
  FailingWrites \subseteq {"entry", "meta"} /\ UseClear \in BOOLEAN

VARIABLES
  g_write_idx, g_read_idx, g_count,  \* RAM
  nvs,         \* the three index records in flash
  entries,     \* the entry records in flash, NoEntry when absent
  pc,          \* where the cloud thread is in a buffer operation
  next,        \* number of the next payload to push
  replayed,    \* payloads sent by the current replay
  faults,      \* faults so far
  lastSent,    \* history: the payload published last
  live,        \* history: pushed with result 0, neither popped nor evicted
  torn         \* history: how many of the faults hit a clear

ram  == <<g_write_idx, g_read_idx, g_count>>
hist == <<lastSent, live, torn>>
vars == <<ram, nvs, entries, pc, next, replayed, faults, hist>>

NoEntry == 0
Slots   == 0 .. N - 1

Succ(i) == (i + 1) % N

Keys    == {"write_idx", "read_idx", "count"}

Running == pc \notin {"off", "dead"}

(* Control points at which no operation of the buffer is half done. *)
Quiet == {"off", "dead", "idle", "replay", "sent"}

Init ==
  /\ g_write_idx = 0 /\ g_read_idx = 0 /\ g_count = 0
  /\ nvs = [k \in Keys |-> 0]
  /\ entries = [i \in Slots |-> NoEntry]
  /\ pc = "off"
  /\ next = 1
  /\ replayed = 0
  /\ faults = 0
  /\ lastSent = NoEntry
  /\ live = {}
  /\ torn = 0

Fault == faults < MaxFaults /\ faults' = faults + 1

InClear == pc \in {"clear_read", "clear_count"}

(* nvs_write_u16(key, val): its result is not looked at by any caller. *)
WriteMeta(key, val) ==
  \/ nvs' = [nvs EXCEPT ![key] = val] /\ UNCHANGED faults
  \/ "meta" \in FailingWrites /\ Fault /\ UNCHANGED nvs

-----------------------------------------------------------------------------
(* offline_buffer_init and power *)

(* Mutant of Boot: the range check of the count is off by one. *)
BootDropsFull ==
  /\ pc = "off"
  /\ g_write_idx' = nvs["write_idx"] /\ g_read_idx' = nvs["read_idx"]
  /\ g_count' = IF nvs["count"] >= N THEN 0 ELSE nvs["count"]
  /\ pc' = "idle"
  /\ UNCHANGED <<nvs, entries, next, replayed, faults, hist>>

(* The three indices are read back and range-checked one by one. *)
Boot ==
  /\ pc = "off"
  /\ g_write_idx' = IF nvs["write_idx"] >= N THEN 0 ELSE nvs["write_idx"]
  /\ g_read_idx'  = IF nvs["read_idx"]  >= N THEN 0 ELSE nvs["read_idx"]
  /\ g_count'     = IF nvs["count"]     >  N THEN 0 ELSE nvs["count"]
  /\ pc' = "idle"
  /\ UNCHANGED <<nvs, entries, next, replayed, faults, hist>>

(* The flash device or the mount fails: initialised stays false and every  *)
(* operation returns -EINVAL until the next reset.                         *)
BootFails ==
  /\ pc = "off"
  /\ pc' = "dead"
  /\ UNCHANGED <<ram, nvs, entries, next, replayed, faults, hist>>

(* Power is lost; RAM is gone.  Only a cut inside an operation is a fault. *)
Crash ==
  /\ pc # "off"
  /\ IF pc \in Quiet THEN UNCHANGED faults ELSE Fault
  /\ pc' = "off"
  /\ g_write_idx' = 0 /\ g_read_idx' = 0 /\ g_count' = 0
  /\ replayed' = 0
  /\ torn' = IF InClear THEN torn + 1 ELSE torn
  /\ UNCHANGED <<nvs, entries, next, lastSent, live>>

-----------------------------------------------------------------------------
(* offline_buffer_push *)

(* Mutant of PushEvict: the oldest entry is overwritten, not dropped. *)
PushOverwrite ==
  /\ pc = "idle" /\ next <= MaxPush
  /\ g_count = N
  /\ next' = next + 1
  /\ pc' = "entry"
  /\ UNCHANGED <<ram, nvs, entries, replayed, faults, hist>>

(* The ring is full: drop the oldest entry. *)
PushEvict ==
  /\ pc = "idle" /\ next <= MaxPush
  /\ g_count = N
  /\ g_read_idx' = Succ(g_read_idx)
  /\ WriteMeta("read_idx", Succ(g_read_idx))
  /\ live' = live \ {entries[g_read_idx]}
  /\ next' = next + 1
  /\ pc' = "entry"
  /\ UNCHANGED <<g_write_idx, g_count, entries, replayed, lastSent, torn>>

(* There is room: count the entry before it is written. *)
PushGrow ==
  /\ pc = "idle" /\ next <= MaxPush
  /\ g_count < N
  /\ g_count' = g_count + 1
  /\ WriteMeta("count", g_count + 1)
  /\ next' = next + 1
  /\ pc' = "entry"
  /\ UNCHANGED <<g_write_idx, g_read_idx, entries, replayed, hist>>

(* The payload reaches flash ... *)
StoreEntry ==
  /\ pc = "entry"
  /\ entries' = [entries EXCEPT ![g_write_idx] = next - 1]
  /\ pc' = "advance"
  /\ UNCHANGED <<ram, nvs, next, replayed, faults, hist>>

(* ... or the write fails and push returns the error, the count (or the    *)
(* eviction) left as it is.                                                *)
StoreFails ==
  /\ pc = "entry"
  /\ "entry" \in FailingWrites /\ Fault
  /\ pc' = "idle"
  /\ UNCHANGED <<ram, nvs, entries, next, replayed, hist>>

AdvanceWrite ==
  /\ pc = "advance"
  /\ g_write_idx' = Succ(g_write_idx)
  /\ WriteMeta("write_idx", Succ(g_write_idx))
  /\ live' = live \cup {next - 1}
  /\ pc' = "idle"
  /\ UNCHANGED <<g_read_idx, g_count, entries, next, replayed, lastSent,
                 torn>>

-----------------------------------------------------------------------------
(* The replay loop, and offline_buffer_pop *)

(* Mutant of ReplayBegin: the batch counter is not reset. *)
ReplayBeginNoReset ==
  /\ pc = "idle"
  /\ g_count > 0
  /\ pc' = "replay"
  /\ UNCHANGED <<ram, nvs, entries, next, replayed, faults, hist>>

ReplayBegin ==
  /\ pc = "idle"
  /\ g_count > 0
  /\ replayed' = 0
  /\ pc' = "replay"
  /\ UNCHANGED <<ram, nvs, entries, next, faults, hist>>

(* Peek and publish the oldest entry. *)
ReplayPublish ==
  /\ pc = "replay"
  /\ g_count > 0 /\ replayed < Batch
  /\ entries[g_read_idx] # NoEntry
  /\ lastSent' = entries[g_read_idx]
  /\ replayed' = replayed + 1
  /\ pc' = "sent"
  /\ UNCHANGED <<ram, nvs, entries, next, faults, live, torn>>

(* Peek finds an entry older than the TTL: popped unsent, not counted. *)
ReplayDiscard ==
  /\ pc = "replay"
  /\ g_count > 0 /\ replayed < Batch
  /\ entries[g_read_idx] # NoEntry
  /\ pc' = "sent"
  /\ UNCHANGED <<ram, nvs, entries, next, replayed, faults, hist>>

(* Buffer empty, batch complete, entry unreadable, or the publish failed. *)
ReplayEnd ==
  /\ pc = "replay"
  /\ pc' = "idle"
  /\ UNCHANGED <<ram, nvs, entries, next, replayed, faults, hist>>

(* Mutant of PopRead: the count is not taken down. *)
PopReadKeepsCount ==
  /\ pc = "sent"
  /\ g_count > 0
  /\ g_read_idx' = Succ(g_read_idx)
  /\ WriteMeta("read_idx", Succ(g_read_idx))
  /\ live' = live \ {entries[g_read_idx]}
  /\ pc' = "popcount"
  /\ UNCHANGED <<g_write_idx, g_count, entries, next, replayed, lastSent,
                 torn>>

PopRead ==
  /\ pc = "sent"
  /\ g_count > 0
  /\ g_read_idx' = Succ(g_read_idx)
  /\ g_count' = g_count - 1
  /\ WriteMeta("read_idx", Succ(g_read_idx))
  /\ live' = live \ {entries[g_read_idx]}
  /\ pc' = "popcount"
  /\ UNCHANGED <<g_write_idx, entries, next, replayed, lastSent, torn>>

(* Mutant of PopCount: the count is not flushed. *)
PopCountInRam ==
  /\ pc = "popcount"
  /\ pc' = "replay"
  /\ UNCHANGED <<ram, nvs, entries, next, replayed, faults, hist>>

PopCount ==
  /\ pc = "popcount"
  /\ WriteMeta("count", g_count)
  /\ pc' = "replay"
  /\ UNCHANGED <<ram, entries, next, replayed, hist>>

-----------------------------------------------------------------------------
(* offline_buffer_clear *)

(* nvs_write_u16 in a clear: torn counts the faults. *)
ClearMeta(key) ==
  /\ WriteMeta(key, 0)
  /\ torn' = torn + (faults' - faults)

ClearWrite ==
  /\ UseClear /\ pc = "idle"
  /\ g_write_idx' = 0 /\ g_read_idx' = 0 /\ g_count' = 0
  /\ ClearMeta("write_idx")
  /\ live' = {}
  /\ pc' = "clear_read"
  /\ UNCHANGED <<entries, next, replayed, lastSent>>

ClearRead ==
  /\ pc = "clear_read"
  /\ ClearMeta("read_idx")
  /\ pc' = "clear_count"
  /\ UNCHANGED <<ram, entries, next, replayed, lastSent, live>>

ClearCount ==
  /\ pc = "clear_count"
  /\ ClearMeta("count")
  /\ pc' = "idle"
  /\ UNCHANGED <<ram, entries, next, replayed, lastSent, live>>

Next ==
  \/ Boot \/ BootFails \/ Crash
  \/ PushEvict \/ PushGrow \/ StoreEntry \/ StoreFails \/ AdvanceWrite
  \/ ReplayBegin \/ ReplayPublish \/ ReplayDiscard \/ ReplayEnd
  \/ PopRead \/ PopCount
  \/ ClearWrite \/ ClearRead \/ ClearCount

Spec == Init /\ [][Next]_vars

(* The straight-line code of an operation, once begun, goes on. *)
ThreadStep ==
  \/ StoreEntry \/ StoreFails \/ AdvanceWrite
  \/ ReplayPublish \/ ReplayDiscard \/ ReplayEnd
  \/ PopRead \/ PopCount \/ ClearRead \/ ClearCount

FairSpec == Spec /\ WF_vars(ThreadStep)

(* Besides, the device does not stay off, the cloud is reached again and   *)
(* again, and not every replay fails at its first payload or loses power   *)
(* after it.  Whether payloads are published or too old is left open.      *)
DrainSpec ==
  /\ FairSpec
  /\ SF_vars(Boot) /\ SF_vars(ReplayBegin)
  /\ SF_vars(ReplayPublish \/ ReplayDiscard) /\ SF_vars(PopRead)

-----------------------------------------------------------------------------
(* Invariants *)

PCs == Quiet \cup {"entry", "advance", "popcount",
                   "clear_read", "clear_count"}

(* Types: the indices, in RAM and in flash, are what they are range-checked *)
(* for at boot (offline_buffer_init), so the checks never have to act.      *)
TypeOK ==
  /\ g_write_idx \in Slots /\ g_read_idx \in Slots /\ g_count \in 0 .. N
  /\ nvs \in [Keys -> 0 .. N]
  /\ nvs["write_idx"] \in Slots /\ nvs["read_idx"] \in Slots
  /\ entries \in [Slots -> Nat]
  /\ pc \in PCs
  /\ next \in Nat \ {0}
  /\ replayed \in Nat
  /\ faults \in 0 .. MaxFaults
  /\ lastSent \in Nat
  /\ live \subseteq Nat
  /\ torn \in 0 .. faults

(* What the buffer holds, seen in RAM while it runs and in flash when not. *)
(* Between a stored entry and the move of the write index, the index is    *)
(* taken as moved.                                                         *)
Read  == IF Running THEN g_read_idx ELSE nvs["read_idx"]
Count == IF Running THEN g_count ELSE nvs["count"]
Write ==
  IF ~ Running THEN nvs["write_idx"]
  ELSE IF pc = "advance" THEN Succ(g_write_idx) ELSE g_write_idx

(* Entries the window really has: push counts its entry before writing it. *)
Held   == IF pc = "entry" THEN Count - 1 ELSE Count
Newest == IF pc = "entry" THEN next - 2 ELSE next - 1

(* RAM and flash agree, except for the record the current operation has    *)
(* still to write.                                                         *)
Mirrored ==
  Running => /\ nvs["write_idx"] = g_write_idx
             /\ pc # "clear_read" => nvs["read_idx"] = g_read_idx
             /\ pc \notin {"popcount", "clear_read", "clear_count"}
                  => nvs["count"] = g_count

(* A window of h entries from slot i: slot w is the one after its last,    *)
(* and it holds the newest payloads up to m, consecutive, oldest first.    *)
Ring(e, i, w, h, m) ==
  /\ h \in 0 .. N
  /\ w = (i + h) % N
  /\ \A k \in 0 .. N - 1 : k < h => e[(i + k) % N] = m - h + 1 + k

(* What was sent last is no newer than the oldest payload held.            *)
SentBehind ==
  /\ lastSent <= Newest
  /\ Held > 0 => lastSent <= Newest - Held + 1

(* Without write errors and without power cuts inside an operation - power *)
(* cuts between operations are allowed, and mount failures - the ring is   *)
(* consistent: indices, count and contents agree, in RAM and in flash      *)
(* (every operation of offline_buffer.c).                                  *)
RingConsistent ==
  faults = 0 =>
    Ring(entries, Read, Write, Held, Newest) /\ Mirrored /\ SentBehind

(* The indices are in range always, and right before the first fault. *)
Consistent == TypeOK /\ RingConsistent

(* Each fault puts the count at most one out of step with the two indices, *)
(* however often the device restarts from the records in flash and however *)
(* stale they are; only one that hits a clear can do more.                 *)
Drift == (Read + Count + N - Write) % N
DriftBounded ==
  torn = 0 /\ pc \in Quiet => Drift <= faults \/ N - Drift <= faults

-----------------------------------------------------------------------------
(* Step properties, liveness and refinement *)

(* "buffered payloads are replayed to the cloud in chronological order"    *)
(* (offline_buffer.h): across replays, batches and restarts, no payload is *)
(* published after a newer one.                                            *)
ReplayInOrder == [][faults = 0 => lastSent' >= lastSent]_vars

(* The replay loop ends whatever the flash holds, although the payloads it *)
(* discards for their age do not count against the batch.                  *)
ReplayEnds == pc = "replay" ~> pc \in {"idle", "off"}

(* Batch by batch, an accepted payload is replayed, discarded for its age  *)
(* or evicted; none is stuck behind another for ever, as long as no fault  *)
(* has put the ring out of step.                                           *)
EventuallyLeaves ==
  \A p \in 1 .. MaxPush :
    p \in live ~> p \notin live \/ pc = "dead" \/ faults > 0

(* Flash implements the FIFO of BoundedFifo.  A push takes effect when the *)
(* entry is stored, an eviction and a pop when the read index is written,  *)
(* a clear when its first record is written.                               *)
FifoLen ==
  IF InClear THEN 0
  ELSE IF pc \in {"entry", "popcount"} THEN nvs["count"] - 1
  ELSE nvs["count"]
FifoQueue == [k \in 1 .. FifoLen |-> entries[(nvs["read_idx"] + k - 1) % N]]
Fifo == INSTANCE BoundedFifo WITH queue <- FifoQueue, newest <- Newest

(* Only offline_buffer_clear empties the FIFO at once. *)
FifoStep ==
  \/ Fifo!Push \/ Fifo!Evict \/ Fifo!Deliver \/ Fifo!Remove
  \/ pc' = "clear_read" /\ Fifo!Clear

(* Up to the first fault the buffer, restarts included, is a bounded FIFO: *)
(* every step is one of the FIFO or leaves it as it is.  (With MaxFaults = *)
(* 0 this implies Fifo!Spec.)                                              *)
ImplementsFifo ==
  Fifo!Init /\ [][faults' = 0 => [FifoStep]_(Fifo!fifoVars)]_vars

=============================================================================
