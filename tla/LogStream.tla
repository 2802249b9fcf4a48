----------------------------- MODULE LogStream -----------------------------
(***************************************************************************)
(* The ring of log entries that wait for a publish (src/log_stream.c).     *)
(* Any thread logs: backend_process puts an entry into the ring under a    *)
(* spinlock, over the oldest one when the ring is full.  A thread that     *)
(* builds the payload of the logs topic takes the entries out one by one,  *)
(* each under the lock, which it lets go in between; two threads may do so *)
(* at once.  Entries are numbered in the order in which they are logged;   *)
(* those below the configured level, or logged in a panic, do not get to   *)
(* the ring.                                                               *)
(***************************************************************************)
EXTENDS Integers, Sequences

CONSTANTS
  Publishers,  \* threads that build payloads
  LogSize,     \* CONFIG_CONEXIO_CLOUD_LOG_QUEUE_SIZE
  MaxLogs      \* bound: entries that are logged

ASSUME LogAssumption == LogSize \in Nat \ {0} /\ MaxLogs \in Nat

VARIABLES
  g_ring, g_head, g_tail, g_count,
  arr,     \* per thread: the entries of its payload, the JSON array
  logged   \* number of entries logged so far

ring    == <<g_ring, g_head, g_tail, g_count>>
logVars == <<ring, arr, logged>>

LogInit ==
  /\ g_ring = [i \in 0 .. LogSize - 1 |-> 0]
  /\ g_head = 0 /\ g_tail = 0 /\ g_count = 0
  /\ arr = [t \in Publishers |-> << >>]
  /\ logged = 0

Succ(i) == (i + 1) % LogSize

(* ring_push: a full ring drops its oldest entry. *)
RingPush ==
  /\ logged < MaxLogs
  /\ logged' = logged + 1
  /\ g_ring' = [g_ring EXCEPT ![g_head] = logged + 1]
  /\ g_head' = Succ(g_head)
  /\ IF g_count < LogSize
     THEN g_count' = g_count + 1 /\ UNCHANGED g_tail
     ELSE g_tail' = Succ(g_tail) /\ UNCHANGED g_count
  /\ UNCHANGED arr

LogPending == g_count > 0

(* The next entry of log_stream_drain. *)
TakeEntry(t) ==
  /\ g_count > 0
  /\ arr' = [arr EXCEPT ![t] = Append(@, g_ring[g_tail])]
  /\ g_tail' = Succ(g_tail)
  /\ g_count' = g_count - 1
  /\ UNCHANGED <<g_ring, g_head, logged>>

(* The ring is empty, or there is no memory for the array. *)
DrainEnds(t) ==
  /\ g_count = 0 \/ arr[t] = << >>
  /\ UNCHANGED logVars

(* No memory for the entry, which has left the ring. *)
EntryLost ==
  /\ g_count > 0
  /\ g_tail' = Succ(g_tail)
  /\ g_count' = g_count - 1
  /\ UNCHANGED <<g_ring, g_head, arr, logged>>

(* The payload is sent or given up. *)
FreeArray(t) ==
  /\ arr' = [arr EXCEPT ![t] = << >>]
  /\ UNCHANGED <<ring, logged>>

-----------------------------------------------------------------------------

LogTypeOK ==
  /\ g_ring \in [0 .. LogSize - 1 -> 0 .. MaxLogs]
  /\ g_head \in 0 .. LogSize - 1 /\ g_tail \in 0 .. LogSize - 1
  /\ g_count \in 0 .. LogSize
  /\ arr \in [Publishers -> Seq(1 .. MaxLogs)]
  /\ logged \in 0 .. MaxLogs

(* "When the ring buffer is full the oldest entry is silently dropped"     *)
(* (log_stream.c), and only then and only that one: the ring holds the     *)
(* newest entries, oldest first, however many threads drain it meanwhile.  *)
RingIsNewest ==
  /\ g_head = (g_tail + g_count) % LogSize
  /\ \A i \in 1 .. g_count :
       g_ring[(g_tail + i - 1) % LogSize] = logged - g_count + i

(* No entry is in two payloads, or twice in one, or still in the ring; and *)
(* a payload lists its entries in the order in which they were logged.     *)
EntriesOnce ==
  \A t \in Publishers :
    /\ \A i \in DOMAIN arr[t] :
         /\ arr[t][i] <= logged - g_count
         /\ \A j \in 1 .. i - 1 : arr[t][j] < arr[t][i]
    /\ \A u \in Publishers \ {t} :
         \A i \in DOMAIN arr[t], j \in DOMAIN arr[u] : arr[t][i] # arr[u][j]
=============================================================================
