------------------------ MODULE OfflineBufferProofs ------------------------
(***************************************************************************)
(* Proofs about OfflineBuffer for every buffer size, batch size, number of *)
(* faults and choice of the writes that fail.                              *)
(***************************************************************************)
EXTENDS OfflineBuffer, Integers, SequenceTheorems, TLAPS

-----------------------------------------------------------------------------
(* Ring arithmetic *)

(* The successor of a slot, without the modulus.                           *)
LEMMA SuccSlot ==
  ASSUME NEW i \in Slots
  PROVE  Succ(i) \in Slots /\ Succ(i) = IF i + 1 = N THEN 0 ELSE i + 1
BY SizeAssumption DEF Slots, Succ

(* A slot some places on, without the modulus.                             *)
LEMMA SlotValue ==
  ASSUME NEW i \in Slots, NEW k \in 0 .. N
  PROVE  /\ (i + k) % N \in Slots
         /\ (i + k) % N = IF i + k < N THEN i + k ELSE i + k - N
BY SizeAssumption DEF Slots

(* The slot before a slot.                                                 *)
LEMMA PredSlot ==
  ASSUME NEW i \in Slots
  PROVE  (i + N - 1) % N \in Slots
BY SizeAssumption DEF Slots

-----------------------------------------------------------------------------
(* Type correctness *)

(* A meta write leaves the keys their types and adds at most a fault.      *)
LEMMA WriteMetaType ==
  ASSUME TypeOK, NEW key \in Keys, NEW val \in 0 .. N,
         key # "count" => val \in Slots,
         WriteMeta(key, val)
  PROVE  /\ nvs' \in [Keys -> 0 .. N]
         /\ nvs'["write_idx"] \in Slots /\ nvs'["read_idx"] \in Slots
         /\ faults' \in faults .. MaxFaults
BY BoundAssumption DEF TypeOK, WriteMeta, Fault, Keys

(* Types hold in every reachable state: the three indices never leave the  *)
(* range that offline_buffer_init checks, in RAM or in flash, whatever     *)
(* writes fail and wherever power is cut.                                  *)
THEOREM TypeCorrect == Spec => []TypeOK
<1>1. Init => TypeOK
  BY SizeAssumption, BoundAssumption DEF Init, TypeOK, Slots, Keys, NoEntry,
     PCs, Quiet
<1>2. TypeOK /\ [Next]_vars => TypeOK'
  <2> SUFFICES ASSUME TypeOK, [Next]_vars
               PROVE  TypeOK'
    OBVIOUS
  <2> USE SizeAssumption, BoundAssumption DEF ram, hist, PCs, Quiet
  <2>0. /\ Succ(g_read_idx) \in Slots /\ Succ(g_write_idx) \in Slots
        /\ (g_read_idx + N - 1) % N \in Slots
        /\ Slots \subseteq 0 .. N /\ 0 \in Slots
        /\ Keys = {"write_idx", "read_idx", "count"}
    <3>1. g_read_idx \in Slots /\ g_write_idx \in Slots
      BY DEF TypeOK
    <3>2. Slots \subseteq 0 .. N /\ 0 \in Slots
      BY DEF Slots
    <3>3. QED
      BY <3>1, <3>2, SuccSlot, PredSlot, Zenon DEF Keys
  <2>1. CASE Boot
    BY <2>1 DEF Boot, TypeOK, Slots, Keys
  <2>2. CASE BootFails
    BY <2>2 DEF BootFails, TypeOK
  <2>3. CASE Crash
    BY <2>3 DEF Crash, Fault, InClear, TypeOK, Slots
  <2>4. CASE PushEvict
    <3>1. /\ nvs' \in [Keys -> 0 .. N]
          /\ nvs'["write_idx"] \in Slots /\ nvs'["read_idx"] \in Slots
          /\ faults' \in faults .. MaxFaults
      BY <2>4, <2>0, WriteMetaType DEF PushEvict
    <3>2. live' \subseteq Nat
      BY <2>4 DEF PushEvict, TypeOK
    <3>3. /\ g_write_idx' \in Slots /\ g_read_idx' \in Slots
          /\ g_count' \in 0 .. N
      BY <2>4, <2>0 DEF PushEvict, TypeOK
    <3>4. next' \in Nat \ {0} /\ pc' \in PCs
      BY <2>4 DEF PushEvict, TypeOK
    <3>5. QED
      BY <2>4, <3>1, <3>2, <3>3, <3>4 DEF PushEvict, TypeOK
  <2>5. CASE PushGrow
    <3>1. g_count + 1 \in 0 .. N
      BY <2>5 DEF PushGrow, TypeOK
    <3>2. QED
      BY <2>5, <2>0, <3>1, WriteMetaType DEF PushGrow, TypeOK
  <2>6. CASE StoreEntry
    BY <2>6 DEF StoreEntry, TypeOK
  <2>7. CASE StoreFails
    BY <2>7 DEF StoreFails, Fault, TypeOK
  <2>8. CASE AdvanceWrite
    <3>1. /\ nvs' \in [Keys -> 0 .. N]
          /\ nvs'["write_idx"] \in Slots /\ nvs'["read_idx"] \in Slots
          /\ faults' \in faults .. MaxFaults
      BY <2>8, <2>0, WriteMetaType DEF AdvanceWrite
    <3>2. QED
      BY <2>8, <2>0, <3>1 DEF AdvanceWrite, TypeOK
  <2>9. CASE ReplayBegin
    BY <2>9 DEF ReplayBegin, TypeOK
  <2>10. CASE ReplayPublish
    BY <2>10 DEF ReplayPublish, TypeOK
  <2>11. CASE ReplayDiscard
    BY <2>11 DEF ReplayDiscard, TypeOK
  <2>12. CASE ReplayEnd
    BY <2>12 DEF ReplayEnd, TypeOK
  <2>13. CASE PopRead
    <3>1. g_count - 1 \in 0 .. N
      BY <2>13 DEF PopRead, TypeOK
    <3>2. /\ nvs' \in [Keys -> 0 .. N]
          /\ nvs'["write_idx"] \in Slots /\ nvs'["read_idx"] \in Slots
          /\ faults' \in faults .. MaxFaults
      BY <2>13, <2>0, WriteMetaType DEF PopRead
    <3>3. live' \subseteq Nat
      BY <2>13 DEF PopRead, TypeOK
    <3>4. torn' \in 0 .. faults'
      BY <2>13, <3>2 DEF PopRead, TypeOK
    <3>5. QED
      BY <2>13, <2>0, <3>1, <3>2, <3>3, <3>4 DEF PopRead, TypeOK
  <2>14. CASE PopCount
    BY <2>14, <2>0, WriteMetaType DEF PopCount, TypeOK
  <2>15. CASE ClearWrite
    BY <2>15, <2>0, WriteMetaType DEF ClearWrite, ClearMeta, TypeOK
  <2>16. CASE ClearRead
    BY <2>16, <2>0, WriteMetaType DEF ClearRead, ClearMeta, TypeOK
  <2>17. CASE ClearCount
    BY <2>17, <2>0, WriteMetaType DEF ClearCount, ClearMeta, TypeOK
  <2>18. CASE UNCHANGED vars
    BY <2>18 DEF vars, TypeOK
  <2>19. QED
    BY <2>1, <2>2, <2>3, <2>4, <2>5, <2>6, <2>7, <2>8, <2>9, <2>10, <2>11,
       <2>12, <2>13, <2>14, <2>15, <2>16, <2>17, <2>18 DEF Next
<1>3. QED
  BY <1>1, <1>2, PTL DEF Spec

-----------------------------------------------------------------------------
(* Windows of the ring *)

(* Dropping the oldest entry of a window. *)
LEMMA RingDrop ==
  ASSUME NEW e, NEW i \in Slots, NEW w, NEW h \in 1 .. N, NEW m \in Int,
         Ring(e, i, w, h, m)
  PROVE  Ring(e, Succ(i), w, h - 1, m)
<1> USE SizeAssumption
<1>1. /\ Succ(i) \in Slots
      /\ \A k \in 0 .. N - 1 : (Succ(i) + k) % N = (i + (k + 1)) % N
  <2>1. Succ(i) \in Slots /\ Succ(i) = IF i + 1 = N THEN 0 ELSE i + 1
    BY SuccSlot
  <2>2. SUFFICES ASSUME NEW k \in 0 .. N - 1
                 PROVE  (Succ(i) + k) % N = (i + (k + 1)) % N
    BY <2>1
  <2>3. (Succ(i) + k) % N
          = IF Succ(i) + k < N THEN Succ(i) + k ELSE Succ(i) + k - N
    BY <2>1, SlotValue
  <2>4. (i + (k + 1)) % N
          = IF i + (k + 1) < N THEN i + (k + 1) ELSE i + (k + 1) - N
    BY SlotValue
  <2>5. QED
    BY <2>1, <2>3, <2>4 DEF Slots
<1>2. w = (Succ(i) + (h - 1)) % N
  <2>1. (Succ(i) + (h - 1)) % N = (i + ((h - 1) + 1)) % N
    BY <1>1
  <2>2. QED
    BY <2>1 DEF Ring
<1>3. ASSUME NEW k \in 0 .. N - 1, k < h - 1
      PROVE  e[(Succ(i) + k) % N] = m - (h - 1) + 1 + k
  <2>1. e[(i + (k + 1)) % N] = m - h + 1 + (k + 1)
    BY <1>3 DEF Ring
  <2>2. QED
    BY <1>1, <2>1
<1>4. QED
  BY <1>2, <1>3 DEF Ring

(* Writing the next payload at the slot after a window that is not full. *)
LEMMA RingStore ==
  ASSUME NEW e \in [Slots -> Nat], NEW i \in Slots, NEW w \in Slots,
         NEW h \in 0 .. N - 1, NEW m \in Int,
         Ring(e, i, w, h, m)
  PROVE  Ring([e EXCEPT ![w] = m + 1], i, Succ(w), h + 1, m + 1)
<1> USE SizeAssumption
<1> DEFINE f == [e EXCEPT ![w] = m + 1]
<1>1. \A k \in 0 .. N : /\ (i + k) % N \in Slots
                        /\ (i + k) % N = IF i + k < N THEN i + k ELSE i + k - N
  BY SlotValue
<1>2. w = (i + h) % N
  BY DEF Ring
<1>3. Succ(w) = (i + (h + 1)) % N
  <2>1. Succ(w) = IF w + 1 = N THEN 0 ELSE w + 1
    BY SuccSlot
  <2>2. w = IF i + h < N THEN i + h ELSE i + h - N
    BY <1>1, <1>2
  <2>3. (i + (h + 1)) % N
          = IF i + (h + 1) < N THEN i + (h + 1) ELSE i + (h + 1) - N
    BY SlotValue
  <2>4. QED
    BY <2>1, <2>2, <2>3 DEF Slots
<1>4. ASSUME NEW k \in 0 .. N - 1, k < h + 1
      PROVE  f[(i + k) % N] = (m + 1) - (h + 1) + 1 + k
  <2>1. CASE k = h
    BY <1>1, <1>2, <2>1
  <2>2. CASE k < h
    <3>1. (i + k) % N # w
      <4> DEFINE x == (i + k) % N
      <4>1. w = IF i + h < N THEN i + h ELSE i + h - N
        BY <1>1, <1>2
      <4>2. x = IF i + k < N THEN i + k ELSE i + k - N
        BY <1>1
      <4> HIDE DEF x
      <4>3. x # w
        BY <4>1, <4>2, <2>2 DEF Slots
      <4>4. QED
        BY <4>3 DEF x
    <3>2. e[(i + k) % N] = m - h + 1 + k
      BY <2>2 DEF Ring
    <3>3. QED
      BY <1>1, <3>1, <3>2
  <2>3. QED
    BY <1>4, <2>1, <2>2
<1>5. QED
  BY <1>3, <1>4 DEF Ring

(* The first slot of a window holds its oldest entry. *)
LEMMA RingHead ==
  ASSUME NEW e, NEW i \in Slots, NEW w, NEW h \in 1 .. N, NEW m \in Int,
         Ring(e, i, w, h, m)
  PROVE  e[i] = m - h + 1
<1> USE SizeAssumption
<1>1. (i + 0) % N = IF i + 0 < N THEN i + 0 ELSE i + 0 - N
  <2>1. 0 \in 0 .. N
    OBVIOUS
  <2>2. QED
    BY <2>1, SlotValue
<1>2. (i + 0) % N = i
  BY <1>1 DEF Slots
<1>3. e[(i + 0) % N] = m - h + 1 + 0
  BY DEF Ring
<1>4. QED
  BY <1>2, <1>3

(* The empty window. *)
LEMMA RingEmpty ==
  ASSUME NEW e, NEW m
  PROVE  Ring(e, 0, 0, 0, m)
BY SizeAssumption DEF Ring

-----------------------------------------------------------------------------
(* Consistency of the ring *)

(* While clear runs, RAM is already reset. *)
ClearState ==
  pc \in {"clear_read", "clear_count"} =>
    g_write_idx = 0 /\ g_read_idx = 0 /\ g_count = 0

RingInv == RingConsistent /\ ClearState

(* Without a fault the value has been written.                             *)
LEMMA WriteMetaOK ==
  ASSUME TypeOK, NEW key \in Keys, NEW val, WriteMeta(key, val), faults' = 0
  PROVE  faults = 0 /\ nvs' = [nvs EXCEPT ![key] = val]
BY BoundAssumption DEF TypeOK, WriteMeta, Fault

(* Without faults the ring is consistent in every reachable state, for     *)
(* every size: RAM, flash, indices, count and contents agree.              *)
THEOREM RingCorrect == Spec => []RingConsistent
<1>1. Init => RingInv
  <2> SUFFICES ASSUME Init PROVE RingInv
    OBVIOUS
  <2>1. Read = 0 /\ Write = 0 /\ Held = 0 /\ Newest = 0
    BY DEF Init, Read, Write, Held, Count, Newest, Keys
  <2>2. Ring(entries, Read, Write, Held, Newest)
    BY <2>1, RingEmpty
  <2>3. Mirrored /\ SentBehind /\ ClearState
    BY <2>1 DEF Init, Mirrored, SentBehind, ClearState, Running, NoEntry
  <2>4. QED
    BY <2>2, <2>3 DEF RingInv, RingConsistent
<1>2. TypeOK /\ TypeOK' /\ RingInv /\ [Next]_vars => RingInv'
  <2> SUFFICES ASSUME TypeOK, TypeOK', RingInv, [Next]_vars
               PROVE  RingInv'
    OBVIOUS
  <2> USE SizeAssumption DEF ram, hist, Quiet
  <2>1. CASE Boot
    BY <2>1, SMTT(30) DEF Boot, RingInv, ClearState, TypeOK, Mirrored,
       SentBehind, Held, Newest, Read, Write, Count, Slots, Keys, RingConsistent
  <2>2. CASE BootFails
    BY <2>2 DEF BootFails, RingInv, ClearState, Mirrored, SentBehind,
       Held, Newest, Read, Write, Count, Running, RingConsistent
  <2>3. CASE Crash
    BY <2>3, BoundAssumption DEF Crash, Fault, RingInv, ClearState,
       TypeOK, Mirrored, SentBehind, Held, Newest, Read, Write, Count,
       Running, RingConsistent
  <2>18. CASE UNCHANGED vars
    BY <2>18 DEF vars, RingInv, ClearState, Mirrored, SentBehind, Held,
       Newest, Read, Write, Count, Running, RingConsistent
  <2>4. CASE PushEvict
    <3> SUFFICES ASSUME faults' = 0 PROVE RingInv'
      BY <2>4 DEF PushEvict, RingInv, ClearState, RingConsistent
    <3>1. faults = 0 /\ nvs' = [nvs EXCEPT !["read_idx"] = Succ(g_read_idx)]
      BY <2>4, WriteMetaOK DEF PushEvict, Keys
    <3>2. Ring(entries, g_read_idx, g_write_idx, N, next - 1)
      BY <2>4, <3>1 DEF PushEvict, RingInv, Read, Write, Held, Count,
         Newest, Running, RingConsistent
    <3>3. Ring(entries, Succ(g_read_idx), g_write_idx, N - 1, next - 1)
      BY <3>2, RingDrop DEF TypeOK
    <3>4. Ring(entries, Read, Write, Held, Newest)'
      BY <2>4, <3>3 DEF PushEvict, TypeOK, Read, Write, Held, Count,
         Newest, Running
    <3>5. Mirrored'
      BY <2>4, <3>1 DEF PushEvict, TypeOK, RingInv, Mirrored, Running,
         RingConsistent
    <3>6. SentBehind'
      BY <2>4, <3>1 DEF PushEvict, TypeOK, RingInv, SentBehind, Held,
         Newest, Count, Running, RingConsistent
    <3>7. QED
      BY <2>4, <3>4, <3>5, <3>6 DEF PushEvict, RingInv, ClearState,
         RingConsistent
  <2>5. CASE PushGrow
    <3> SUFFICES ASSUME faults' = 0 PROVE RingInv'
      BY <2>5 DEF PushGrow, RingInv, ClearState, RingConsistent
    <3>1. faults = 0 /\ nvs' = [nvs EXCEPT !["count"] = g_count + 1]
      BY <2>5, WriteMetaOK DEF PushGrow, Keys
    <3>2. Ring(entries, g_read_idx, g_write_idx, g_count, next - 1)
      BY <2>5, <3>1 DEF PushGrow, RingInv, Read, Write, Held, Count,
         Newest, Running, RingConsistent
    <3>3. (g_count + 1) - 1 = g_count /\ (next + 1) - 2 = next - 1
      BY DEF TypeOK
    <3>4. Ring(entries, Read, Write, Held, Newest)'
      BY <2>5, <3>2, <3>3 DEF PushGrow, Read, Write, Held, Count,
         Newest, Running
    <3>5. Mirrored'
      BY <2>5, <3>1 DEF PushGrow, TypeOK, RingInv, Mirrored, Running,
         RingConsistent
    <3>6. SentBehind'
      BY <2>5, <3>1 DEF PushGrow, TypeOK, RingInv, SentBehind, Held,
         Newest, Count, Running, RingConsistent
    <3>7. QED
      BY <2>5, <3>4, <3>5, <3>6 DEF PushGrow, RingInv, ClearState,
         RingConsistent
  <2>6. CASE StoreEntry
    <3> SUFFICES ASSUME faults' = 0 PROVE RingInv'
      BY <2>6 DEF StoreEntry, RingInv, ClearState, RingConsistent
    <3>1. Ring(entries, g_read_idx, g_write_idx, g_count - 1, next - 2)
      BY <2>6 DEF StoreEntry, RingInv, Read, Write, Held, Count, Newest,
         Running, RingConsistent
    <3>2. g_count - 1 \in 0 .. N - 1
      BY <3>1 DEF Ring, TypeOK
    <3>3. Ring(entries', g_read_idx, Succ(g_write_idx), g_count, next - 1)
      <4>1. (g_count - 1) + 1 = g_count /\ (next - 2) + 1 = next - 1
        BY DEF TypeOK
      <4>2. next - 2 \in Int
        BY DEF TypeOK
      <4>3. entries' = [entries EXCEPT ![g_write_idx] = (next - 2) + 1]
        BY <2>6, <4>1 DEF StoreEntry
      <4>4. Ring(entries', g_read_idx, Succ(g_write_idx),
                 (g_count - 1) + 1, (next - 2) + 1)
        BY <3>1, <3>2, <4>2, <4>3, RingStore DEF TypeOK
      <4>5. QED
        BY <4>1, <4>4
    <3>4. Ring(entries, Read, Write, Held, Newest)'
      BY <2>6, <3>3 DEF StoreEntry, Read, Write, Held, Count, Newest,
         Running
    <3>5. Mirrored' /\ SentBehind'
      BY <2>6 DEF StoreEntry, TypeOK, RingInv, Mirrored, SentBehind,
         Held, Newest, Count, Running, RingConsistent
    <3>6. QED
      BY <2>6, <3>4, <3>5 DEF StoreEntry, RingInv, ClearState,
         RingConsistent
  <2>7. CASE StoreFails
    BY <2>7, BoundAssumption DEF StoreFails, Fault, TypeOK, RingInv,
       ClearState, RingConsistent
  <2>8. CASE AdvanceWrite
    <3> SUFFICES ASSUME faults' = 0 PROVE RingInv'
      BY <2>8 DEF AdvanceWrite, RingInv, ClearState, RingConsistent
    <3>1. faults = 0 /\ nvs' = [nvs EXCEPT !["write_idx"] = Succ(g_write_idx)]
      BY <2>8, WriteMetaOK DEF AdvanceWrite, Keys
    <3>2. Ring(entries, g_read_idx, Succ(g_write_idx), g_count, next - 1)
      BY <2>8, <3>1 DEF AdvanceWrite, RingInv, Read, Write, Held, Count,
         Newest, Running, RingConsistent
    <3>3. Ring(entries, Read, Write, Held, Newest)'
      BY <2>8, <3>2 DEF AdvanceWrite, Read, Write, Held, Count, Newest,
         Running
    <3>4. Mirrored' /\ SentBehind'
      BY <2>8, <3>1 DEF AdvanceWrite, TypeOK, RingInv, Mirrored,
         SentBehind, Held, Newest, Count, Running, RingConsistent
    <3>5. QED
      BY <2>8, <3>3, <3>4 DEF AdvanceWrite, RingInv, ClearState,
         RingConsistent
  <2>9. CASE ReplayBegin \/ ReplayDiscard \/ ReplayEnd
    BY <2>9 DEF ReplayBegin, ReplayDiscard, ReplayEnd, RingInv,
       ClearState, Mirrored, SentBehind, Held, Newest, Read, Write, Count,
       Running, RingConsistent
  <2>10. CASE ReplayPublish
    <3> SUFFICES ASSUME faults = 0 PROVE RingInv'
      BY <2>10 DEF ReplayPublish, RingInv, ClearState, RingConsistent
    <3>1. Ring(entries, g_read_idx, g_write_idx, g_count, next - 1)
      BY <2>10 DEF ReplayPublish, RingInv, Read, Write, Held, Count,
         Newest, Running, RingConsistent
    <3>2. entries[g_read_idx] = (next - 1) - g_count + 1
      BY <2>10, <3>1, RingHead DEF ReplayPublish, TypeOK
    <3>3. SentBehind'
      BY <2>10, <3>2 DEF ReplayPublish, TypeOK, SentBehind, Held,
         Newest, Count, Running
    <3>4. Ring(entries, Read, Write, Held, Newest)' /\ Mirrored'
      BY <2>10, <3>1 DEF ReplayPublish, RingInv, Mirrored, Read, Write,
         Held, Count, Newest, Running, RingConsistent
    <3>5. QED
      BY <2>10, <3>3, <3>4 DEF ReplayPublish, RingInv, ClearState,
         RingConsistent
  <2>13. CASE PopRead
    <3> SUFFICES ASSUME faults' = 0 PROVE RingInv'
      BY <2>13 DEF PopRead, RingInv, ClearState, RingConsistent
    <3>1. faults = 0 /\ nvs' = [nvs EXCEPT !["read_idx"] = Succ(g_read_idx)]
      BY <2>13, WriteMetaOK DEF PopRead, Keys
    <3>2. Ring(entries, g_read_idx, g_write_idx, g_count, next - 1)
      BY <2>13, <3>1 DEF PopRead, RingInv, Read, Write, Held, Count,
         Newest, Running, RingConsistent
    <3>3. Ring(entries, Succ(g_read_idx), g_write_idx, g_count - 1, next - 1)
      <4>1. g_count \in 1 .. N /\ next - 1 \in Int
        BY <2>13 DEF PopRead, TypeOK
      <4>2. QED
        BY <3>2, <4>1, RingDrop DEF TypeOK
    <3>4. Ring(entries, Read, Write, Held, Newest)'
      BY <2>13, <3>3 DEF PopRead, Read, Write, Held, Count, Newest,
         Running
    <3>5. Mirrored'
      BY <2>13, <3>1 DEF PopRead, TypeOK, RingInv, Mirrored, Running,
         RingConsistent
    <3>6. SentBehind'
      BY <2>13, <3>1 DEF PopRead, TypeOK, RingInv, SentBehind, Held,
         Newest, Count, Running, RingConsistent
    <3>7. QED
      BY <2>13, <3>4, <3>5, <3>6 DEF PopRead, RingInv, ClearState,
         RingConsistent
  <2>14. CASE PopCount
    <3> SUFFICES ASSUME faults' = 0 PROVE RingInv'
      BY <2>14 DEF PopCount, RingInv, ClearState, RingConsistent
    <3>1. faults = 0 /\ nvs' = [nvs EXCEPT !["count"] = g_count]
      BY <2>14, WriteMetaOK DEF PopCount, Keys
    <3>2. QED
      BY <2>14, <3>1 DEF PopCount, TypeOK, RingInv, ClearState,
         Mirrored, SentBehind, Held, Newest, Read, Write, Count,
         Running, RingConsistent
  <2>15. CASE ClearWrite
    <3> SUFFICES ASSUME faults' = 0 PROVE RingInv'
      BY <2>15 DEF ClearWrite, RingInv, ClearState, RingConsistent
    <3>1. faults = 0 /\ nvs' = [nvs EXCEPT !["write_idx"] = 0]
      BY <2>15, WriteMetaOK DEF ClearWrite, ClearMeta, Keys
    <3>2. Ring(entries, Read, Write, Held, Newest)'
      BY <2>15, RingEmpty DEF ClearWrite, Read, Write, Held, Count,
         Running
    <3>3. QED
      BY <2>15, <3>1, <3>2 DEF ClearWrite, TypeOK, RingInv, ClearState,
         Mirrored, SentBehind, Held, Newest, Count, RingConsistent
  <2>16. CASE ClearRead
    <3> SUFFICES ASSUME faults' = 0 PROVE RingInv'
      BY <2>16 DEF ClearRead, RingInv, ClearState, RingConsistent
    <3>1. faults = 0 /\ nvs' = [nvs EXCEPT !["read_idx"] = 0]
      BY <2>16, WriteMetaOK DEF ClearRead, ClearMeta, Keys
    <3>2. QED
      BY <2>16, <3>1 DEF ClearRead, TypeOK, RingInv, ClearState,
         Mirrored, SentBehind, Held, Newest, Read, Write, Count,
         Running, RingConsistent
  <2>17. CASE ClearCount
    <3> SUFFICES ASSUME faults' = 0 PROVE RingInv'
      BY <2>17 DEF ClearCount, RingInv, ClearState, RingConsistent
    <3>1. faults = 0 /\ nvs' = [nvs EXCEPT !["count"] = 0]
      BY <2>17, WriteMetaOK DEF ClearCount, ClearMeta, Keys
    <3>2. QED
      BY <2>17, <3>1 DEF ClearCount, TypeOK, RingInv, ClearState,
         Mirrored, SentBehind, Held, Newest, Read, Write, Count,
         Running, RingConsistent
  <2>19. QED
    BY <2>1, <2>2, <2>3, <2>4, <2>5, <2>6, <2>7, <2>8, <2>9, <2>10, <2>13,
       <2>14, <2>15, <2>16, <2>17, <2>18 DEF Next
<1>3. QED
  BY <1>1, <1>2, TypeCorrect, PTL DEF Spec, RingInv

(* The indices stay in range always, and until the first fault they, the   *)
(* count and the contents agree, for a ring of any size.                   *)
THEOREM SoundRing == Spec => []Consistent
BY TypeCorrect, RingCorrect, PTL DEF Consistent

-----------------------------------------------------------------------------
(* Order of the replay *)

(* Without faults no payload is ever published after a newer one, across   *)
(* replays, evictions and restarts.                                        *)
THEOREM ReplayOrder == Spec => ReplayInOrder
<1>1. TypeOK /\ RingConsistent /\ [Next]_vars
        => [faults = 0 => lastSent' >= lastSent]_vars
  <2> SUFFICES ASSUME TypeOK, RingConsistent, Next, faults = 0
               PROVE  lastSent' >= lastSent
    BY DEF vars
  <2>1. CASE ReplayPublish
    <3>1. Ring(entries, g_read_idx, g_write_idx, g_count, next - 1)
      BY <2>1 DEF ReplayPublish, Read, Write, Held, Count, Newest,
         Running, RingConsistent
    <3>2. entries[g_read_idx] = (next - 1) - g_count + 1
      BY <2>1, <3>1, RingHead DEF ReplayPublish, TypeOK
    <3>3. lastSent <= (next - 1) - g_count + 1
      BY <2>1 DEF ReplayPublish, SentBehind, Held, Count, Newest,
         Running, RingConsistent
    <3>4. QED
      BY <2>1, <3>2, <3>3 DEF ReplayPublish
  <2>2. CASE ~ ReplayPublish
    <3>1. lastSent' = lastSent
      BY <2>2 DEF Next, Boot, BootFails, Crash, PushEvict, PushGrow,
         StoreEntry, StoreFails, AdvanceWrite, ReplayBegin,
         ReplayDiscard, ReplayEnd, PopRead, PopCount, ClearWrite,
         ClearRead, ClearCount, hist
    <3>2. QED
      BY <3>1 DEF TypeOK
  <2>3. QED
    BY <2>1, <2>2
<1>2. QED
  BY <1>1, TypeCorrect, RingCorrect, PTL DEF Spec, ReplayInOrder


-----------------------------------------------------------------------------
(* Drift of the indices *)

Multiple(a) == a % N = 0

Size(d) == IF d < 0 THEN - d ELSE d

(* A push has moved one end of the window and not yet the other.           *)
Pushing == IF pc \in {"entry", "advance"} THEN 1 ELSE 0

(* A pop has counted in RAM and not yet in flash.                          *)
Popping == IF pc = "popcount" THEN 1 ELSE 0

(* RAM is d out of step, and the three records of flash are x, y and z     *)
(* behind RAM, so that power cut off here leaves flash out of step by the  *)
(* sum of them.  With the device off there is flash only.                  *)
OutOfStep(d, x, y, z) ==
  /\ Size(d) + Size(x) + Size(y) + Size(z) <= faults
  /\ ~ Running => Multiple(nvs["read_idx"] + nvs["count"] - nvs["write_idx"] - d)
  /\ Running =>
       /\ Multiple(g_read_idx + g_count - g_write_idx - Pushing - d)
       /\ pc # "clear_read" => Multiple(g_read_idx - nvs["read_idx"] - x)
       /\ ~ InClear => Multiple(g_count + Popping - nvs["count"] - y)
       /\ Multiple(g_write_idx - nvs["write_idx"] - z)

DriftInv ==
  /\ ClearState
  /\ torn = 0 => \E d, x, y, z \in - faults .. faults : OutOfStep(d, x, y, z)

(* A multiple of N is some number times N.                                 *)
LEMMA MultipleIs ==
  ASSUME NEW a \in Int
  PROVE  Multiple(a) <=> \E q \in Int : a = q * N
<1>1. ASSUME Multiple(a) PROVE \E q \in Int : a = q * N
  <2>1. a = N * (a \div N) + (a % N) /\ a \div N \in Int
    BY SizeAssumption
  <2>2. a = (a \div N) * N
    BY <1>1, <2>1, SizeAssumption DEF Multiple
  <2>3. QED
    BY <2>1, <2>2
<1>2. ASSUME NEW q \in Int, a = q * N PROVE Multiple(a)
  <2>1. a = q * N + 0
    BY <1>2, SizeAssumption
  <2>2. QED
    BY <2>1, SizeAssumption DEF Multiple
<1>3. QED
  BY <1>1, <1>2

(* Sums and differences of multiples are multiples.                        *)
LEMMA MultipleSum ==
  ASSUME NEW a \in Int, NEW b \in Int, Multiple(a), Multiple(b)
  PROVE  Multiple(a + b) /\ Multiple(a - b)
<1>1. PICK q \in Int : a = q * N
  BY MultipleIs
<1>2. PICK r \in Int : b = r * N
  BY MultipleIs
<1>3. /\ q + r \in Int /\ a + b = (q + r) * N
      /\ q - r \in Int /\ a - b = (q - r) * N
  BY <1>1, <1>2, SizeAssumption
<1>4. QED
  BY <1>3, MultipleIs

(* The same, to be cited for a term equal to one of them.                  *)
LEMMA MultipleOf ==
  ASSUME NEW a \in Int, NEW b \in Int, NEW c \in Int,
         Multiple(a), Multiple(b), c = a + b \/ c = a - b
  PROVE  Multiple(c)
BY MultipleSum

(* Zero, and what a wrapping index jumps over.                             *)
LEMMA MultipleSucc ==
  /\ Multiple(0)
  /\ \A i \in Slots : Succ(i) \in Slots /\ Multiple(i + 1 - Succ(i))
<1>1. Multiple(0)
  BY SizeAssumption DEF Multiple
<1>2. ASSUME NEW i \in Slots
      PROVE  Succ(i) \in Slots /\ Multiple(i + 1 - Succ(i))
  <2>1. Succ(i) \in Slots /\ Succ(i) = IF i + 1 = N THEN 0 ELSE i + 1
    BY SuccSlot
  <2>2. i + 1 - Succ(i) = 0 * N \/ i + 1 - Succ(i) = 1 * N
    BY <2>1, SizeAssumption DEF Slots
  <2>3. i + 1 - Succ(i) \in Int
    BY <2>1 DEF Slots
  <2>4. QED
    BY <2>1, <2>2, <2>3, MultipleIs
<1>3. QED
  BY <1>1, <1>2

(* The indices of an empty, never written flash are in step.               *)
LEMMA DriftInit == Init => DriftInv
<1> SUFFICES ASSUME Init PROVE DriftInv
  OBVIOUS
<1>1. OutOfStep(0, 0, 0, 0)
  BY MultipleSucc DEF Init, OutOfStep, Size, Running, Keys
<1>2. 0 \in - faults .. faults
  BY DEF Init
<1>3. QED
  BY <1>1, <1>2 DEF Init, DriftInv, ClearState

(* The size of a number bounds it on either side.                          *)
LEMMA SizeIs ==
  ASSUME NEW d \in Int
  PROVE  Size(d) \in Nat /\ - Size(d) <= d /\ d <= Size(d)
BY DEF Size

(* A step by one adds at most one to the size.                             *)
LEMMA SizeGrows ==
  \A d \in Int :
    /\ Size(d) \in Nat
    /\ Size(d + 1) <= Size(d) + 1 /\ Size(d - 1) <= Size(d) + 1
BY DEF Size

(* Nought is a multiple and has no size.                                   *)
LEMMA Zeros == Size(0) = 0 /\ Multiple(0) /\ \A a \in Int : Multiple(a - a - 0)
<1>1. \A a \in Int : a - a - 0 = 0
  OBVIOUS
<1>2. QED
  BY <1>1, MultipleSucc DEF Size

(* A meta write goes through, or it is a fault and flash stays as it was.  *)
LEMMA WriteMetaCases ==
  ASSUME TypeOK, NEW key \in Keys, NEW val, WriteMeta(key, val)
  PROVE  \/ /\ faults' = faults /\ nvs'[key] = val
            /\ \A k \in Keys \ {key} : nvs'[k] = nvs[k]
         \/ faults' = faults + 1 /\ nvs' = nvs
BY DEF TypeOK, WriteMeta, Fault, Keys

(* Bounds on the parts of a drift follow from the bound on their sum.      *)
LEMMA OutOfStepBound ==
  ASSUME TypeOK', NEW d \in Int, NEW x \in Int, NEW y \in Int, NEW z \in Int,
         OutOfStep(d, x, y, z)'
  PROVE  \E d1, x1, y1, z1 \in - faults' .. faults' :
           OutOfStep(d1, x1, y1, z1)'
<1>1. /\ d \in - faults' .. faults' /\ x \in - faults' .. faults'
      /\ y \in - faults' .. faults' /\ z \in - faults' .. faults'
  <2>1. Size(d) + Size(x) + Size(y) + Size(z) <= faults' /\ faults' \in Nat
    BY DEF OutOfStep, TypeOK
  <2>2. /\ Size(d) \in Nat /\ - Size(d) <= d /\ d <= Size(d)
        /\ Size(x) \in Nat /\ - Size(x) <= x /\ x <= Size(x)
        /\ Size(y) \in Nat /\ - Size(y) <= y /\ y <= Size(y)
        /\ Size(z) \in Nat /\ - Size(z) <= z /\ z <= Size(z)
    BY SizeIs
  <2>3. PICK f \in Nat : f = faults'
    BY <2>1
  <2>4. /\ d \in - f .. f /\ x \in - f .. f
        /\ y \in - f .. f /\ z \in - f .. f
    <3>1. Size(d) + Size(x) + Size(y) + Size(z) <= f
      BY <2>1, <2>3
    <3>2. QED
      BY <2>2, <3>1
  <2>5. QED
    BY <2>3, <2>4
<1>2. QED
  BY <1>1

(* Every step keeps the drift of flash from RAM within the faults.         *)
LEMMA DriftStep == TypeOK /\ TypeOK' /\ DriftInv /\ [Next]_vars => DriftInv'
<1> SUFFICES ASSUME TypeOK, TypeOK', DriftInv, [Next]_vars PROVE DriftInv'
  OBVIOUS
<1>1. ClearState'
  BY DEF Next, Boot, BootFails, Crash, PushEvict, PushGrow, StoreEntry,
     StoreFails, AdvanceWrite, ReplayBegin, ReplayPublish, ReplayDiscard,
     ReplayEnd, PopRead, PopCount, ClearWrite, ClearRead, ClearCount, vars,
     ram, DriftInv, ClearState
<1>2. SUFFICES ASSUME torn' = 0
               PROVE  \E d, x, y, z \in Int : OutOfStep(d, x, y, z)'
  BY <1>1, OutOfStepBound DEF DriftInv
<1>3. torn = 0 /\ faults' \in {faults, faults + 1}
  <2>1. faults \in Nat /\ torn \in Nat
    BY DEF TypeOK
  <2>2. CASE ClearWrite \/ ClearRead \/ ClearCount
    BY <1>2, <2>1, <2>2 DEF ClearWrite, ClearRead, ClearCount, ClearMeta,
       WriteMeta, Fault
  <2>3. CASE Crash
    BY <1>2, <2>1, <2>3 DEF Crash, Fault
  <2>4. CASE PushEvict \/ PushGrow \/ AdvanceWrite \/ PopRead \/ PopCount
    BY <1>2, <2>1, <2>4 DEF PushEvict, PushGrow, AdvanceWrite, PopRead,
       PopCount, WriteMeta, Fault, hist
  <2>5. CASE Boot \/ BootFails \/ StoreEntry \/ StoreFails \/ ReplayBegin
             \/ ReplayPublish \/ ReplayDiscard \/ ReplayEnd \/ UNCHANGED vars
    BY <1>2, <2>1, <2>5 DEF Boot, BootFails, StoreEntry, StoreFails, Fault,
       ReplayBegin, ReplayPublish, ReplayDiscard, ReplayEnd, hist, vars
  <2>6. QED
    BY <2>2, <2>3, <2>4, <2>5 DEF Next
<1>a. ClearWrite \/ ClearRead \/ ClearCount => faults' = faults
  <2>1. faults \in Nat /\ torn \in Nat
    BY DEF TypeOK
  <2>2. QED
    BY <1>2, <2>1 DEF ClearWrite, ClearRead, ClearCount, ClearMeta, WriteMeta,
       Fault
<1>4. PICK d, x, y, z \in Int : OutOfStep(d, x, y, z)
  <2>1. - faults .. faults \subseteq Int
    BY DEF TypeOK
  <2>2. QED
    BY <1>3, <2>1 DEF DriftInv
<1>5. /\ g_write_idx \in Int /\ g_read_idx \in Int /\ g_count \in Int
      /\ nvs["write_idx"] \in Int /\ nvs["read_idx"] \in Int
      /\ nvs["count"] \in Int /\ faults \in Nat
  BY SizeAssumption DEF TypeOK, Slots, Keys
<1>6. /\ Succ(g_read_idx) \in Int /\ Multiple(g_read_idx + 1 - Succ(g_read_idx))
      /\ Succ(g_write_idx) \in Int /\ Multiple(g_write_idx + 1 - Succ(g_write_idx))
  BY MultipleSucc DEF TypeOK, Slots
<1> USE DEF Quiet, InClear
<1>7. CASE Boot
  <2>1. /\ g_read_idx' = nvs["read_idx"] /\ g_write_idx' = nvs["write_idx"]
        /\ g_count' = nvs["count"] /\ nvs' = nvs
        /\ pc = "off" /\ pc' = "idle" /\ faults' = faults
    <3>1. /\ nvs["write_idx"] \in 0 .. N - 1 /\ nvs["read_idx"] \in 0 .. N - 1
          /\ nvs["count"] \in 0 .. N
      BY DEF TypeOK, Slots, Keys
    <3>2. QED
      BY <1>7, <3>1, SizeAssumption DEF Boot
  <2>2. Size(d) + 0 + 0 + 0 <= faults /\ Size(0) = 0
    BY <1>4, <1>5 DEF OutOfStep, Size
  <2>3. Multiple(nvs["read_idx"] + nvs["count"] - nvs["write_idx"] - 0 - d)
    BY <1>4, <1>5, <2>1 DEF OutOfStep, Running
  <2>4. /\ nvs["read_idx"] - nvs["read_idx"] - 0 = 0
        /\ nvs["count"] + 0 - nvs["count"] - 0 = 0
        /\ nvs["write_idx"] - nvs["write_idx"] - 0 = 0
    BY <1>5
  <2>5. OutOfStep(d, 0, 0, 0)'
    BY <2>1, <2>2, <2>3, <2>4, MultipleSucc
       DEF OutOfStep, Running, Pushing, Popping
  <2>6. QED
    BY <2>5
<1>8. CASE BootFails \/ ReplayBegin \/ ReplayPublish \/ ReplayDiscard
           \/ ReplayEnd \/ StoreEntry \/ UNCHANGED vars
  <2>1. OutOfStep(d, x, y, z)'
    BY <1>4, <1>8 DEF BootFails, ReplayBegin, ReplayPublish, ReplayDiscard,
       ReplayEnd, StoreEntry, vars, ram, hist, OutOfStep, Running, Pushing,
       Popping
  <2>2. QED
    BY <2>1
<1>9. CASE PushEvict
  <2>1. /\ pc = "idle" /\ pc' = "entry" /\ g_read_idx' = Succ(g_read_idx)
        /\ g_write_idx' = g_write_idx /\ g_count' = g_count
        /\ WriteMeta("read_idx", Succ(g_read_idx))
    BY <1>9, <1>5 DEF PushEvict
  <2>2. /\ Multiple(g_read_idx + g_count - g_write_idx - 0 - d)
        /\ Multiple(g_read_idx - nvs["read_idx"] - x)
        /\ Multiple(g_count + 0 - nvs["count"] - y)
        /\ Multiple(g_write_idx - nvs["write_idx"] - z)
    BY <1>4, <2>1 DEF OutOfStep, Running, Pushing, Popping
  <2>3. \/ /\ faults' = faults /\ nvs'["read_idx"] = Succ(g_read_idx)
           /\ nvs'["write_idx"] = nvs["write_idx"]
           /\ nvs'["count"] = nvs["count"]
        \/ faults' = faults + 1 /\ nvs' = nvs
    <3>1. "read_idx" \in Keys /\ {"write_idx", "count"} = Keys \ {"read_idx"}
      BY DEF Keys
    <3>2. QED
      BY <2>1, <3>1, WriteMetaCases
  <2>4. /\ Multiple(Succ(g_read_idx) + g_count - g_write_idx - 1 - d)
        /\ Multiple(Succ(g_read_idx) - nvs["read_idx"] - (x + 1))
        /\ Multiple(Succ(g_read_idx) - Succ(g_read_idx) - 0)
    <3>1. Succ(g_read_idx) + g_count - g_write_idx - 1 - d
            = (g_read_idx + g_count - g_write_idx - 0 - d) - (g_read_idx + 1 - Succ(g_read_idx))
      BY <1>5, <1>6
    <3>2. Succ(g_read_idx) - nvs["read_idx"] - (x + 1)
            = (g_read_idx - nvs["read_idx"] - x) - (g_read_idx + 1 - Succ(g_read_idx))
      BY <1>5, <1>6
    <3>3. Succ(g_read_idx) - Succ(g_read_idx) - 0
            = 0
      BY <1>5, <1>6
    <3>4. QED
      BY <1>5, <1>6, <2>2, <3>1, <3>2, <3>3, MultipleOf, Zeros
  <2>5. CASE faults' = faults
    <3>1. OutOfStep(d, 0, y, z)'
      BY SMTT(30), <1>4, <1>5, <2>1, <2>2, <2>3, <2>4, <2>5, Zeros, SizeGrows
         DEF OutOfStep, Running, Pushing, Popping
    <3>2. QED
      BY <3>1
  <2>6. CASE faults' = faults + 1
    <3>1. OutOfStep(d, x + 1, y, z)'
      BY SMTT(30), <1>4, <1>5, <2>1, <2>2, <2>3, <2>4, <2>6, Zeros, SizeGrows
         DEF OutOfStep, Running, Pushing, Popping
    <3>2. QED
      BY <3>1
  <2>7. QED
    BY <2>3, <2>5, <2>6
<1>10. CASE PushGrow
  <2>1. /\ pc = "idle" /\ pc' = "entry" /\ g_count' = g_count + 1
        /\ g_write_idx' = g_write_idx /\ g_read_idx' = g_read_idx
        /\ WriteMeta("count", g_count + 1)
    BY <1>10, <1>5 DEF PushGrow
  <2>2. /\ Multiple(g_read_idx + g_count - g_write_idx - 0 - d)
        /\ Multiple(g_read_idx - nvs["read_idx"] - x)
        /\ Multiple(g_count + 0 - nvs["count"] - y)
        /\ Multiple(g_write_idx - nvs["write_idx"] - z)
    BY <1>4, <2>1 DEF OutOfStep, Running, Pushing, Popping
  <2>3. \/ /\ faults' = faults /\ nvs'["count"] = g_count + 1
           /\ nvs'["read_idx"] = nvs["read_idx"]
           /\ nvs'["write_idx"] = nvs["write_idx"]
        \/ faults' = faults + 1 /\ nvs' = nvs
    <3>1. "count" \in Keys /\ {"read_idx", "write_idx"} = Keys \ {"count"}
      BY DEF Keys
    <3>2. QED
      BY <2>1, <3>1, WriteMetaCases
  <2>4. /\ Multiple(g_read_idx + (g_count + 1) - g_write_idx - 1 - d)
        /\ Multiple((g_count + 1) + 0 - nvs["count"] - (y + 1))
    <3>1. g_read_idx + (g_count + 1) - g_write_idx - 1 - d
            = g_read_idx + g_count - g_write_idx - 0 - d
      BY <1>5, <1>6
    <3>2. (g_count + 1) + 0 - nvs["count"] - (y + 1)
            = g_count + 0 - nvs["count"] - y
      BY <1>5, <1>6
    <3>3. QED
      BY <1>5, <1>6, <2>2, <3>1, <3>2, MultipleOf, Zeros
  <2>5. CASE faults' = faults
    <3>1. OutOfStep(d, x, 0, z)'
      BY SMTT(30), <1>4, <1>5, <2>1, <2>2, <2>3, <2>4, <2>5, Zeros, SizeGrows
         DEF OutOfStep, Running, Pushing, Popping
    <3>2. QED
      BY <3>1
  <2>6. CASE faults' = faults + 1
    <3>1. OutOfStep(d, x, y + 1, z)'
      BY SMTT(30), <1>4, <1>5, <2>1, <2>2, <2>3, <2>4, <2>6, Zeros, SizeGrows
         DEF OutOfStep, Running, Pushing, Popping
    <3>2. QED
      BY <3>1
  <2>7. QED
    BY <2>3, <2>5, <2>6
<1>11. CASE AdvanceWrite
  <2>1. /\ pc = "advance" /\ pc' = "idle" /\ g_write_idx' = Succ(g_write_idx)
        /\ g_read_idx' = g_read_idx /\ g_count' = g_count
        /\ WriteMeta("write_idx", Succ(g_write_idx))
    BY <1>11, <1>5 DEF AdvanceWrite
  <2>2. /\ Multiple(g_read_idx + g_count - g_write_idx - 1 - d)
        /\ Multiple(g_read_idx - nvs["read_idx"] - x)
        /\ Multiple(g_count + 0 - nvs["count"] - y)
        /\ Multiple(g_write_idx - nvs["write_idx"] - z)
    BY <1>4, <2>1 DEF OutOfStep, Running, Pushing, Popping
  <2>3. \/ /\ faults' = faults /\ nvs'["write_idx"] = Succ(g_write_idx)
           /\ nvs'["read_idx"] = nvs["read_idx"]
           /\ nvs'["count"] = nvs["count"]
        \/ faults' = faults + 1 /\ nvs' = nvs
    <3>1. "write_idx" \in Keys /\ {"read_idx", "count"} = Keys \ {"write_idx"}
      BY DEF Keys
    <3>2. QED
      BY <2>1, <3>1, WriteMetaCases
  <2>4. /\ Multiple(g_read_idx + g_count - Succ(g_write_idx) - 0 - d)
        /\ Multiple(Succ(g_write_idx) - nvs["write_idx"] - (z + 1))
        /\ Multiple(Succ(g_write_idx) - Succ(g_write_idx) - 0)
    <3>1. g_read_idx + g_count - Succ(g_write_idx) - 0 - d
            = (g_read_idx + g_count - g_write_idx - 1 - d) + (g_write_idx + 1 - Succ(g_write_idx))
      BY <1>5, <1>6
    <3>2. Succ(g_write_idx) - nvs["write_idx"] - (z + 1)
            = (g_write_idx - nvs["write_idx"] - z) - (g_write_idx + 1 - Succ(g_write_idx))
      BY <1>5, <1>6
    <3>3. Succ(g_write_idx) - Succ(g_write_idx) - 0
            = 0
      BY <1>5, <1>6
    <3>4. QED
      BY <1>5, <1>6, <2>2, <3>1, <3>2, <3>3, MultipleOf, Zeros
  <2>5. CASE faults' = faults
    <3>1. OutOfStep(d, x, y, 0)'
      BY <1>4, <1>5, <2>1, <2>2, <2>3, <2>4, <2>5, Zeros, SizeGrows
         DEF OutOfStep, Running, Pushing, Popping
    <3>2. QED
      BY <3>1
  <2>6. CASE faults' = faults + 1
    <3>1. OutOfStep(d, x, y, z + 1)'
      BY SMTT(30), <1>4, <1>5, <2>1, <2>2, <2>3, <2>4, <2>6, Zeros,
         SizeGrows DEF OutOfStep, Running, Pushing, Popping
    <3>2. QED
      BY <3>1
  <2>7. QED
    BY <2>3, <2>5, <2>6
<1>12. CASE PopRead
  <2>1. /\ pc = "sent" /\ pc' = "popcount" /\ g_read_idx' = Succ(g_read_idx)
        /\ g_write_idx' = g_write_idx /\ g_count' = g_count - 1
        /\ WriteMeta("read_idx", Succ(g_read_idx))
    BY <1>12, <1>5 DEF PopRead
  <2>2. /\ Multiple(g_read_idx + g_count - g_write_idx - 0 - d)
        /\ Multiple(g_read_idx - nvs["read_idx"] - x)
        /\ Multiple(g_count + 0 - nvs["count"] - y)
        /\ Multiple(g_write_idx - nvs["write_idx"] - z)
    BY <1>4, <2>1 DEF OutOfStep, Running, Pushing, Popping
  <2>3. \/ /\ faults' = faults /\ nvs'["read_idx"] = Succ(g_read_idx)
           /\ nvs'["write_idx"] = nvs["write_idx"]
           /\ nvs'["count"] = nvs["count"]
        \/ faults' = faults + 1 /\ nvs' = nvs
    <3>1. "read_idx" \in Keys /\ {"write_idx", "count"} = Keys \ {"read_idx"}
      BY DEF Keys
    <3>2. QED
      BY <2>1, <3>1, WriteMetaCases
  <2>4. /\ Multiple(Succ(g_read_idx) + (g_count - 1) - g_write_idx - 0 - d)
        /\ Multiple(Succ(g_read_idx) - nvs["read_idx"] - (x + 1))
        /\ Multiple(Succ(g_read_idx) - Succ(g_read_idx) - 0)
        /\ Multiple((g_count - 1) + 1 - nvs["count"] - y)
    <3>1. Succ(g_read_idx) + (g_count - 1) - g_write_idx - 0 - d
            = (g_read_idx + g_count - g_write_idx - 0 - d) - (g_read_idx + 1 - Succ(g_read_idx))
      BY <1>5, <1>6
    <3>2. Succ(g_read_idx) - nvs["read_idx"] - (x + 1)
            = (g_read_idx - nvs["read_idx"] - x) - (g_read_idx + 1 - Succ(g_read_idx))
      BY <1>5, <1>6
    <3>3. Succ(g_read_idx) - Succ(g_read_idx) - 0
            = 0
      BY <1>5, <1>6
    <3>4. (g_count - 1) + 1 - nvs["count"] - y
            = g_count + 0 - nvs["count"] - y
      BY <1>5, <1>6
    <3>5. QED
      BY SMTT(30), <1>5, <1>6, <2>2, <3>1, <3>2, <3>3, <3>4, MultipleOf, Zeros
  <2>5. CASE faults' = faults
    <3>1. OutOfStep(d, 0, y, z)'
      BY SMTT(30), <1>4, <1>5, <2>1, <2>2, <2>3, <2>4, <2>5, Zeros, SizeGrows
         DEF OutOfStep, Running, Pushing, Popping
    <3>2. QED
      BY <3>1
  <2>6. CASE faults' = faults + 1
    <3>1. OutOfStep(d, x + 1, y, z)'
      BY SMTT(30), <1>4, <1>5, <2>1, <2>2, <2>3, <2>4, <2>6, Zeros, SizeGrows
         DEF OutOfStep, Running, Pushing, Popping
    <3>2. QED
      BY <3>1
  <2>7. QED
    BY <2>3, <2>5, <2>6
<1>13. CASE PopCount
  <2>1. /\ pc = "popcount" /\ pc' = "replay" /\ g_read_idx' = g_read_idx
        /\ g_write_idx' = g_write_idx /\ g_count' = g_count
        /\ WriteMeta("count", g_count)
    BY <1>13, <1>5 DEF PopCount, ram
  <2>2. /\ Multiple(g_read_idx + g_count - g_write_idx - 0 - d)
        /\ Multiple(g_read_idx - nvs["read_idx"] - x)
        /\ Multiple(g_count + 1 - nvs["count"] - y)
        /\ Multiple(g_write_idx - nvs["write_idx"] - z)
    BY <1>4, <2>1 DEF OutOfStep, Running, Pushing, Popping
  <2>3. \/ /\ faults' = faults /\ nvs'["count"] = g_count
           /\ nvs'["read_idx"] = nvs["read_idx"]
           /\ nvs'["write_idx"] = nvs["write_idx"]
        \/ faults' = faults + 1 /\ nvs' = nvs
    <3>1. "count" \in Keys /\ {"read_idx", "write_idx"} = Keys \ {"count"}
      BY DEF Keys
    <3>2. QED
      BY <2>1, <3>1, WriteMetaCases
  <2>4. /\ Multiple(g_count + 0 - nvs["count"] - (y - 1))
    <3>1. g_count + 0 - nvs["count"] - (y - 1)
            = g_count + 1 - nvs["count"] - y
      BY <1>5, <1>6
    <3>2. QED
      BY <1>5, <1>6, <2>2, <3>1, MultipleOf, Zeros
  <2>5. CASE faults' = faults
    <3>1. OutOfStep(d, x, 0, z)'
      BY SMTT(30), <1>4, <1>5, <2>1, <2>2, <2>3, <2>4, <2>5, Zeros, SizeGrows
         DEF OutOfStep, Running, Pushing, Popping
    <3>2. QED
      BY <3>1
  <2>6. CASE faults' = faults + 1
    <3>1. OutOfStep(d, x, y - 1, z)'
      BY SMTT(30), <1>4, <1>5, <2>1, <2>2, <2>3, <2>4, <2>6, Zeros, SizeGrows
         DEF OutOfStep, Running, Pushing, Popping
    <3>2. QED
      BY <3>1
  <2>7. QED
    BY <2>3, <2>5, <2>6
<1>14. CASE StoreFails
  <2>1. /\ pc = "entry" /\ pc' = "idle" /\ faults' = faults + 1
        /\ UNCHANGED <<g_read_idx, g_write_idx, g_count, nvs>>
    BY <1>14 DEF StoreFails, Fault, ram
  <2>2. /\ Multiple(g_read_idx + g_count - g_write_idx - 1 - d)
        /\ Multiple(g_read_idx - nvs["read_idx"] - x)
        /\ Multiple(g_count + 0 - nvs["count"] - y)
        /\ Multiple(g_write_idx - nvs["write_idx"] - z)
    BY <1>4, <2>1 DEF OutOfStep, Running, Pushing, Popping
  <2>3. Multiple(g_read_idx + g_count - g_write_idx - 0 - (d + 1))
    <3>1. g_read_idx + g_count - g_write_idx - 0 - (d + 1)
            = g_read_idx + g_count - g_write_idx - 1 - d
      BY <1>5
    <3>2. QED
      BY <2>2, <3>1
  <2>4. OutOfStep(d + 1, x, y, z)'
    BY <1>4, <1>5, <2>1, <2>2, <2>3, SizeGrows
       DEF OutOfStep, Running, Pushing, Popping
  <2>5. QED
    BY <2>4
<1>15. CASE Crash
  <2>1. ~ InClear
    BY <1>2, <1>3, <1>15 DEF Crash, TypeOK
  <2>2. CASE ~ Running
    <3>1. OutOfStep(d, x, y, z)'
      BY <1>4, <1>15, <2>2 DEF Crash, OutOfStep, Running
    <3>2. QED
      BY <3>1
  <2>3. CASE Running
    <3>1. /\ Multiple(g_read_idx + g_count - g_write_idx - Pushing - d)
          /\ Multiple(g_read_idx - nvs["read_idx"] - x)
          /\ Multiple(g_count + Popping - nvs["count"] - y)
          /\ Multiple(g_write_idx - nvs["write_idx"] - z)
          /\ Size(d) + Size(x) + Size(y) + Size(z) <= faults
          /\ Pushing \in Int /\ Popping \in Int
      BY <1>4, <2>1, <2>3 DEF OutOfStep, Pushing, Popping
    <3>5. PICK e \in Int : e = d + Pushing + Popping - x - y + z
      BY <3>1
    <3>8. Size(e) <= faults + Pushing + Popping
      BY <1>5, <3>1, <3>5, SizeIs DEF Size, Pushing, Popping
    <3>2. nvs["read_idx"] + nvs["count"] - nvs["write_idx"] - e
            = (((g_read_idx + g_count - g_write_idx - Pushing - d)
                 - (g_read_idx - nvs["read_idx"] - x)) - (g_count + Popping - nvs["count"] - y))
                 + (g_write_idx - nvs["write_idx"] - z)
      BY <1>5, <3>1, <3>5
    <3>3. Multiple(nvs["read_idx"] + nvs["count"] - nvs["write_idx"] - e)
      <4>1. Multiple((g_read_idx + g_count - g_write_idx - Pushing - d)
                       - (g_read_idx - nvs["read_idx"] - x))
        BY <1>5, <3>1, MultipleOf
      <4>2. Multiple(((g_read_idx + g_count - g_write_idx - Pushing - d)
                       - (g_read_idx - nvs["read_idx"] - x)) - (g_count + Popping - nvs["count"] - y))
        BY <1>5, <3>1, <4>1, MultipleOf
      <4>3. QED
        BY <1>5, <3>1, <3>2, <3>5, <4>2, MultipleOf
    <3>4. faults + Pushing + Popping <= faults'
      BY <1>5, <1>15 DEF Crash, Fault, Pushing, Popping
    <3>6. OutOfStep(e, 0, 0, 0)'
      <4>1. Size(e) + Size(0) + Size(0) + Size(0) <= faults'
        BY <1>3, <1>5, <3>1, <3>4, <3>8, SizeGrows, Zeros
      <4>2. pc' = "off" /\ nvs' = nvs
        BY <1>15 DEF Crash
      <4>3. QED
        BY <3>3, <4>1, <4>2 DEF OutOfStep, Running
    <3>7. QED
      BY <3>5, <3>6
  <2>4. QED
    BY <2>2, <2>3
<1>16. CASE ClearWrite
  <2>1. /\ pc' = "clear_read" /\ faults' = faults
        /\ g_read_idx' = 0 /\ g_write_idx' = 0 /\ g_count' = 0
    BY <1>a, <1>16 DEF ClearWrite
  <2>2. nvs'["write_idx"] = 0
    BY <1>5, <1>16, <2>1 DEF ClearWrite, ClearMeta, WriteMeta, Fault, TypeOK,
       Keys
  <2>3. OutOfStep(0, 0, 0, 0)'
    BY <1>5, <2>1, <2>2, Zeros DEF OutOfStep, Running, Pushing
  <2>4. QED
    BY <2>3
<1>17. CASE ClearRead
  <2>1. /\ pc = "clear_read" /\ pc' = "clear_count" /\ faults' = faults
        /\ g_read_idx = 0
        /\ UNCHANGED <<g_read_idx, g_write_idx, g_count>>
    BY <1>a, <1>17 DEF ClearRead, ram, DriftInv, ClearState
  <2>2. nvs'["read_idx"] = 0 /\ nvs'["write_idx"] = nvs["write_idx"]
    BY <1>5, <1>17, <2>1 DEF ClearRead, ClearMeta, WriteMeta, Fault, TypeOK,
       Keys
  <2>3. OutOfStep(d, 0, y, z)'
    BY <1>4, <1>5, <2>1, <2>2, Zeros, SizeGrows
       DEF OutOfStep, Running, Pushing
  <2>4. QED
    BY <2>3
<1>18. CASE ClearCount
  <2>1. /\ pc = "clear_count" /\ pc' = "idle" /\ faults' = faults
        /\ g_count = 0
        /\ UNCHANGED <<g_read_idx, g_write_idx, g_count>>
    BY <1>a, <1>18 DEF ClearCount, ram, DriftInv, ClearState
  <2>2. /\ nvs'["count"] = 0 /\ nvs'["write_idx"] = nvs["write_idx"]
        /\ nvs'["read_idx"] = nvs["read_idx"]
    BY <1>5, <1>18, <2>1 DEF ClearCount, ClearMeta, WriteMeta, Fault, TypeOK,
       Keys
  <2>3. OutOfStep(d, x, 0, z)'
    BY <1>4, <1>5, <2>1, <2>2, Zeros, SizeGrows
       DEF OutOfStep, Running, Pushing, Popping
  <2>4. QED
    BY <2>3
<1>19. QED
  BY <1>7, <1>8, <1>9, <1>10, <1>11, <1>12, <1>13, <1>14, <1>15, <1>16, <1>17,
     <1>18 DEF Next

(* The remainder is the only one there is.                                 *)
LEMMA Remainder ==
  ASSUME NEW a \in Int, NEW q \in Int, NEW r \in Int,
         a = q * N + r, 0 <= r, r < N
  PROVE  a % N = r
BY SizeAssumption

(* Between operations the invariant bounds the drift by the faults.        *)
LEMMA DriftInvImplies == TypeOK /\ DriftInv => DriftBounded
<1> SUFFICES ASSUME TypeOK, DriftInv, torn = 0, pc \in Quiet
             PROVE  Drift <= faults \/ N - Drift <= faults
  BY DEF DriftBounded
<1>1. Read \in Int /\ Count \in Int /\ Write \in Int /\ faults \in Nat
  BY SizeAssumption
     DEF TypeOK, Slots, Keys, Quiet, Read, Count, Write
<1>2. PICK d, x, y, z \in Int : OutOfStep(d, x, y, z)
  <2>1. - faults .. faults \subseteq Int
    BY <1>1
  <2>2. QED
    BY <2>1 DEF DriftInv
<1>3. Multiple(Read + Count - Write - d) /\ Size(d) <= faults
  <2>1. Size(d) <= faults
    BY <1>1, <1>2, SizeIs DEF OutOfStep
  <2>2. CASE Running
    <3>1. Read + Count - Write - d = g_read_idx + g_count - g_write_idx - 0 - d
      BY <1>1, <2>2 DEF Read, Count, Write, Quiet
    <3>2. Multiple(g_read_idx + g_count - g_write_idx - 0 - d)
      BY <1>2, <2>2 DEF OutOfStep, Pushing, Quiet
    <3>3. QED
      BY <2>1, <3>1, <3>2
  <2>3. CASE ~ Running
    BY <1>2, <2>1, <2>3 DEF OutOfStep, Read, Count, Write
  <2>4. QED
    BY <2>2, <2>3
<1>4. PICK q \in Int : Read + Count - Write - d = q * N
  BY <1>1, <1>3, MultipleIs
<1>5. Drift \in 0 .. N - 1
  BY <1>1, SizeAssumption DEF Drift
<1>6. CASE faults >= N
  BY <1>1, <1>5, <1>6, SizeAssumption
<1>7. CASE faults < N /\ d >= 0
  <2>1. d < N /\ d <= faults
    BY <1>1, <1>3, <1>7, SizeAssumption DEF Size
  <2>2. Read + Count + N - Write = (q + 1) * N + d
    BY <1>1, <1>4, SizeAssumption
  <2>3. Drift = d
    <3>1. q + 1 \in Int /\ Read + Count + N - Write \in Int /\ d \in Int
      BY <1>1, SizeAssumption
    <3>2. (Read + Count + N - Write) % N = d
      BY <1>7, <2>1, <2>2, <3>1, Remainder
    <3>3. QED
      BY <3>2 DEF Drift
  <2>4. QED
    BY <2>1, <2>3
<1>8. CASE faults < N /\ d < 0
  <2>1. 0 <= N + d /\ N + d < N /\ - d <= faults
    BY <1>1, <1>3, <1>8, SizeAssumption DEF Size
  <2>2. Read + Count + N - Write = q * N + (N + d)
    BY <1>1, <1>4, SizeAssumption
  <2>3. Drift = N + d
    <3>1. N + d \in Int /\ Read + Count + N - Write \in Int
      BY <1>1, SizeAssumption
    <3>2. (Read + Count + N - Write) % N = N + d
      BY <2>1, <2>2, <3>1, Remainder
    <3>3. QED
      BY <3>2 DEF Drift
  <2>4. QED
    BY <2>1, <2>3, SizeAssumption
<1>9. QED
  BY <1>1, <1>6, <1>7, <1>8, SizeAssumption

(* As long as no fault hits a clear, each fault puts count and indices at  *)
(* most one further out of step, whatever writes fail, wherever power is   *)
(* cut and however often the device starts from records that are stale,    *)
(* for a ring of any size.                                                 *)
THEOREM DriftStaysBounded == Spec => []DriftBounded
BY DriftInit, DriftStep, DriftInvImplies, TypeCorrect, PTL DEF Spec

-----------------------------------------------------------------------------
(* The FIFO that flash implements *)

Window(e, i, h) == [k \in 1 .. h |-> e[(i + k - 1) % N]]

(* The window is the sequence of the entries from slot i on.               *)
LEMMA WindowSeq ==
  ASSUME NEW e \in [Slots -> Nat], NEW i \in Slots, NEW h \in 0 .. N
  PROVE  /\ Window(e, i, h) \in Seq(Nat) /\ Len(Window(e, i, h)) = h
         /\ \A k \in 1 .. h : Window(e, i, h)[k] = e[(i + k - 1) % N]
<1>1. ASSUME NEW k \in 1 .. h
      PROVE  (i + k - 1) % N \in Slots
  <2>1. k - 1 \in 0 .. N /\ i + (k - 1) = i + k - 1
    BY SizeAssumption DEF Slots
  <2>2. QED
    BY <2>1, SlotValue
<1>2. Window(e, i, h) \in [1 .. h -> Nat]
  BY <1>1 DEF Window
<1>3. h \in Nat
  BY SizeAssumption
<1>4. QED
  BY <1>2, <1>3 DEF Window

(* Dropping the head of a window moves its first slot.                     *)
LEMMA WindowTail ==
  ASSUME NEW e \in [Slots -> Nat], NEW i \in Slots, NEW h \in 1 .. N
  PROVE  /\ Head(Window(e, i, h)) = e[i]
         /\ Tail(Window(e, i, h)) = Window(e, Succ(i), h - 1)
<1> DEFINE s == Window(e, i, h)
           t == Window(e, Succ(i), h - 1)
<1>1. /\ s \in Seq(Nat) /\ Len(s) = h
      /\ \A k \in 1 .. h : s[k] = e[(i + k - 1) % N]
  <2>1. h \in 0 .. N
    BY SizeAssumption
  <2>2. QED
    BY <2>1, WindowSeq
<1>2. Succ(i) \in Slots /\ h - 1 \in 0 .. N
  BY SuccSlot, SizeAssumption
<1>3. /\ t \in Seq(Nat) /\ Len(t) = h - 1
      /\ \A k \in 1 .. h - 1 : t[k] = e[(Succ(i) + k - 1) % N]
  BY <1>2, WindowSeq
<1>4. ASSUME NEW k \in 1 .. h - 1
      PROVE  (Succ(i) + k - 1) % N = (i + (k + 1) - 1) % N
  <2>1. /\ Succ(i) = IF i + 1 = N THEN 0 ELSE i + 1
        /\ k - 1 \in 0 .. N /\ k \in 0 .. N
    BY SuccSlot, SizeAssumption
  <2>2. (Succ(i) + (k - 1)) % N = IF Succ(i) + (k - 1) < N
          THEN Succ(i) + (k - 1) ELSE Succ(i) + (k - 1) - N
    BY <1>2, <2>1, SlotValue
  <2>3. (i + k) % N = IF i + k < N THEN i + k ELSE i + k - N
    BY <2>1, SlotValue
  <2>4. (Succ(i) + (k - 1)) % N = (i + k) % N
    BY <2>1, <2>2, <2>3, SizeAssumption DEF Slots
  <2>5. Succ(i) + (k - 1) = Succ(i) + k - 1 /\ i + k = i + (k + 1) - 1
    BY <1>2 DEF Slots
  <2>6. QED
    BY <2>4, <2>5
<1>5. s[1] = e[i]
  <2>1. (i + 0) % N = IF i + 0 < N THEN i + 0 ELSE i + 0 - N
    BY SlotValue, SizeAssumption
  <2>2. i + 1 - 1 = i + 0 /\ (i + 0) % N = i
    BY <2>1, SizeAssumption DEF Slots
  <2>3. 1 \in 1 .. h
    OBVIOUS
  <2>4. QED
    BY <1>1, <2>2, <2>3
<1> HIDE DEF s, t
<1>6. Tail(s) = t
  <2>1. /\ Tail(s) \in Seq(Nat) /\ Len(Tail(s)) = h - 1
        /\ \A k \in 1 .. h - 1 : Tail(s)[k] = s[k + 1]
    BY <1>1
  <2>2. ASSUME NEW k \in 1 .. h - 1 PROVE Tail(s)[k] = t[k]
    <3>1. k + 1 \in 1 .. h
      BY SizeAssumption
    <3>2. s[k + 1] = e[(i + (k + 1) - 1) % N]
      BY <1>1, <3>1
    <3>3. QED
      BY <1>3, <1>4, <2>1, <3>2
  <2>3. QED
    BY <1>3, <2>1, <2>2, SeqEqual
<1>7. Head(s) = s[1]
  BY <1>1
<1>8. QED
  BY <1>5, <1>6, <1>7 DEF s, t

(* Writing the slot after a window that is not full appends to it.         *)
LEMMA WindowAppend ==
  ASSUME NEW e \in [Slots -> Nat], NEW f \in [Slots -> Nat],
         NEW i \in Slots, NEW h \in 0 .. N - 1, NEW g \in 0 .. N, g = h + 1,
         f[(i + h) % N] \in Nat,
         \A j \in Slots : j # (i + h) % N => f[j] = e[j]
  PROVE  Window(f, i, g) = Append(Window(e, i, h), f[(i + h) % N])
<1> DEFINE w == (i + h) % N
           p == f[(i + h) % N]
           s == Window(e, i, h)
           t == Window(f, i, h + 1)
<1>1. \A k \in 0 .. N : /\ (i + k) % N \in Slots
                        /\ (i + k) % N = IF i + k < N THEN i + k ELSE i + k - N
  BY SlotValue
<1>2. w \in Slots /\ f \in [Slots -> Nat] /\ h \in 0 .. N /\ h + 1 \in 0 .. N
  BY <1>1, SizeAssumption
<1>3. /\ s \in Seq(Nat) /\ Len(s) = h
      /\ \A k \in 1 .. h : s[k] = e[(i + k - 1) % N]
  BY <1>2, WindowSeq
<1>4. /\ t \in Seq(Nat) /\ Len(t) = h + 1
      /\ \A k \in 1 .. h + 1 : t[k] = f[(i + k - 1) % N]
  BY <1>2, WindowSeq
<1>5. ASSUME NEW k \in 1 .. h + 1
      PROVE  t[k] = Append(s, p)[k]
  <2>1. k - 1 \in 0 .. N /\ i + (k - 1) = i + k - 1
    BY SizeAssumption DEF Slots
  <2>2. CASE k = h + 1
    <3>1. i + k - 1 = i + h
      BY <2>2, SizeAssumption DEF Slots
    <3>3. t[k] = f[w]
      BY <1>4, <3>1
    <3>4. t[k] = p
      BY <1>2, <3>3
    <3>2. Append(s, p)[k] = p
      BY <1>3, <2>2
    <3>5. QED
      BY <3>2, <3>4
  <2>3. CASE k <= h
    <3>1. (i + (k - 1)) % N # w
      <4>1. PICK y \in Slots :
              y = w /\ y = (IF i + h < N THEN i + h ELSE i + h - N)
        BY <1>1, <1>2
      <4>2. PICK x \in Slots :
              /\ x = (i + (k - 1)) % N
              /\ x = IF i + (k - 1) < N THEN i + (k - 1) ELSE i + (k - 1) - N
        BY <1>1, <2>1
      <4> HIDE DEF w
      <4>3. x # y
        BY <4>1, <4>2, <2>3, SizeAssumption DEF Slots
      <4>4. QED
        BY <4>1, <4>2, <4>3
    <3>2. t[k] = e[(i + (k - 1)) % N]
      BY <1>1, <1>2, <1>4, <2>1, <3>1
    <3>3. s[k] = e[(i + (k - 1)) % N]
      BY <1>3, <2>1, <2>3
    <3>4. Append(s, p)[k] = s[k]
      BY <1>3, <2>3
    <3>5. QED
      BY <3>2, <3>3, <3>4
  <2>4. k = h + 1 \/ k <= h
    BY SizeAssumption
  <2>5. QED
    BY <2>2, <2>3, <2>4
<1> HIDE DEF s, t
<1>6. Append(s, p) \in Seq(Nat) /\ Len(Append(s, p)) = h + 1
  BY <1>3
<1>7. t = Append(s, p)
  BY <1>4, <1>5, <1>6, SeqEqual
<1>8. QED
  BY <1>7 DEF s, t

(* A window of no entries is empty.                                        *)
LEMMA WindowEmpty ==
  ASSUME NEW e \in [Slots -> Nat], NEW i \in Slots
  PROVE  Window(e, i, 0) = <<>>
<1>1. Window(e, i, 0) \in Seq(Nat) /\ Len(Window(e, i, 0)) = 0
  BY WindowSeq, SizeAssumption
<1>2. QED
  BY <1>1, EmptySeq

(* In the middle of a pop flash still counts the entry.                    *)
PopInv == faults = 0 /\ pc = "popcount" => nvs["count"] = g_count + 1

(* Between the two writes of a pop, flash counts one entry too many.       *)
LEMMA PopInvStep ==
  TypeOK /\ TypeOK' /\ RingConsistent /\ PopInv /\ [Next]_vars => PopInv'
<1> SUFFICES ASSUME TypeOK, TypeOK', RingConsistent, PopInv, [Next]_vars,
                    faults' = 0, pc' = "popcount"
             PROVE  nvs'["count"] = g_count' + 1
  BY DEF PopInv
<1>1. CASE PopRead
  <2>1. faults = 0 /\ nvs' = [nvs EXCEPT !["read_idx"] = Succ(g_read_idx)]
    BY <1>1, WriteMetaOK DEF PopRead, Keys
  <2>2. nvs["count"] = g_count
    BY <1>1, <2>1 DEF PopRead, RingConsistent, Mirrored, Running
  <2>3. QED
    BY <1>1, <2>1, <2>2 DEF PopRead, TypeOK, Keys
<1>2. CASE UNCHANGED vars
  BY <1>2 DEF vars, ram, PopInv
<1>3. QED
  BY <1>1, <1>2 DEF Next, Boot, BootFails, Crash, PushEvict, PushGrow,
     StoreEntry, StoreFails, AdvanceWrite, ReplayBegin, ReplayPublish,
     ReplayDiscard, ReplayEnd, PopCount, ClearWrite, ClearRead, ClearCount

(* The queue of the refinement is a window.                                *)
LEMMA FifoQueueIs == FifoQueue = Window(entries, nvs["read_idx"], FifoLen)
BY DEF FifoQueue, Window

(* The boot is an initial state of the queue.                              *)
LEMMA FifoInit == Init => Fifo!Init
<1> SUFFICES ASSUME Init PROVE Fifo!Init
  OBVIOUS
<1>1. FifoLen = 0 /\ nvs["read_idx"] \in Slots /\ entries \in [Slots -> Nat]
  BY SizeAssumption DEF Init, FifoLen, InClear, Keys, Slots, NoEntry
<1>2. FifoQueue = <<>>
  BY <1>1, FifoQueueIs, WindowEmpty
<1>3. QED
  BY <1>2 DEF Fifo!Init, Init, Newest, NoEntry

(* Without a fault, every step is a step of the queue or none.             *)
LEMMA FifoSteps ==
  TypeOK /\ TypeOK' /\ RingConsistent /\ PopInv /\ [Next]_vars
    => (faults' = 0 => [FifoStep]_(Fifo!fifoVars))
<1> SUFFICES ASSUME TypeOK, TypeOK', RingConsistent, PopInv, [Next]_vars,
                    faults' = 0
             PROVE  FifoStep \/ UNCHANGED Fifo!fifoVars
  OBVIOUS
<1> USE DEF Quiet, InClear
<1>1. /\ nvs["read_idx"] \in Slots /\ nvs'["read_idx"] \in Slots
      /\ nvs["count"] \in 0 .. N /\ nvs'["count"] \in 0 .. N
      /\ entries \in [Slots -> Nat] /\ entries' \in [Slots -> Nat]
      /\ next \in Nat \ {0} /\ g_count \in 0 .. N
  BY DEF TypeOK, Keys
<1>a. FifoQueue' = Window(entries', nvs'["read_idx"], FifoLen')
  BY DEF FifoQueue, Window
<1>2. ASSUME entries' = entries, nvs'["read_idx"] = nvs["read_idx"],
             FifoLen' = FifoLen, Newest' = Newest, lastSent' = lastSent
      PROVE  UNCHANGED Fifo!fifoVars
  BY <1>2 DEF FifoQueue, Fifo!fifoVars
<1>3. CASE Boot \/ BootFails \/ ReplayBegin \/ ReplayDiscard \/ ReplayEnd
           \/ UNCHANGED vars
  BY <1>2, <1>3 DEF Boot, BootFails, ReplayBegin, ReplayDiscard, ReplayEnd,
     vars, hist, FifoLen, Newest
<1>4. CASE Crash
  <2>1. pc \in Quiet
    BY <1>4, BoundAssumption DEF Crash, Fault, TypeOK
  <2>2. QED
    BY <1>2, <1>4, <2>1 DEF Crash, FifoLen, Newest
<1>5. CASE StoreFails
  BY <1>5 DEF StoreFails, Fault, TypeOK
<1>6. CASE PushEvict
  <2>1. faults = 0 /\ nvs' = [nvs EXCEPT !["read_idx"] = Succ(g_read_idx)]
    BY <1>6, WriteMetaOK DEF PushEvict, Keys
  <2>2. nvs["count"] = N /\ nvs["read_idx"] = g_read_idx
    BY <1>6, <2>1 DEF PushEvict, RingConsistent, Mirrored, Running
  <2>3. /\ nvs'["count"] = N /\ nvs'["read_idx"] = Succ(nvs["read_idx"])
    BY <2>1, <2>2 DEF TypeOK, Keys
  <2>4. FifoLen = N /\ FifoLen' = N - 1
    BY <1>6, <2>2, <2>3 DEF PushEvict, FifoLen
  <2>5. Len(FifoQueue) = N
    BY <1>1, <2>2, <2>4, FifoQueueIs, WindowSeq
  <2>6. FifoQueue' = Tail(FifoQueue)
    BY <1>1, <1>6, <2>3, <2>4, <1>a, FifoQueueIs, WindowTail, SizeAssumption
       DEF PushEvict
  <2>7. Newest' = Newest /\ lastSent' = lastSent
    BY <1>1, <1>6 DEF PushEvict, Newest
  <2>8. QED
    BY <2>5, <2>6, <2>7 DEF FifoStep, Fifo!Evict
<1>7. CASE PushGrow
  <2>1. faults = 0 /\ nvs' = [nvs EXCEPT !["count"] = g_count + 1]
    BY <1>7, WriteMetaOK DEF PushGrow, Keys
  <2>2. nvs["count"] = g_count
    BY <1>7, <2>1 DEF PushGrow, RingConsistent, Mirrored, Running
  <2>3. nvs'["count"] = g_count + 1 /\ nvs'["read_idx"] = nvs["read_idx"]
    BY <2>1 DEF TypeOK, Keys
  <2>4. FifoLen' = FifoLen /\ Newest' = Newest
    BY <1>1, <1>7, <2>2, <2>3 DEF PushGrow, FifoLen, Newest
  <2>5. QED
    BY <1>2, <1>7, <2>3, <2>4 DEF PushGrow, hist
<1>8. CASE StoreEntry
  <2>1. faults = 0 /\ nvs["read_idx"] = g_read_idx /\ nvs["count"] = g_count
    BY <1>8 DEF StoreEntry, RingConsistent, Mirrored, Running
  <2>2. /\ g_count - 1 \in 0 .. N /\ g_write_idx \in Slots
        /\ g_write_idx = (g_read_idx + (g_count - 1)) % N
    BY <1>8, <2>1 DEF StoreEntry, RingConsistent, Ring, Read, Write, Held,
       Count, Running, TypeOK
  <2>3. g_count - 1 \in 0 .. N - 1 /\ (g_count - 1) + 1 = g_count
    BY <1>1, <2>2, SizeAssumption
  <2>4. FifoLen = g_count - 1 /\ FifoLen' = g_count
    BY <1>8, <2>1 DEF StoreEntry, FifoLen
  <2>5. /\ entries' = [entries EXCEPT ![g_write_idx] = next - 1]
        /\ nvs' = nvs /\ next - 1 \in Nat
    BY <1>1, <1>8 DEF StoreEntry
  <2>6. FifoQueue' = Append(FifoQueue, next - 1)
    <3>1. Window(entries', g_read_idx, g_count)
            = Append(Window(entries, g_read_idx, g_count - 1), next - 1)
      <4>1. PICK h \in 0 .. N - 1 : h = g_count - 1
        BY <2>3
      <4>2. /\ g_read_idx \in Slots /\ g_count = h + 1
            /\ g_write_idx = (g_read_idx + h) % N
        BY <1>1, <2>1, <2>2, <4>1
      <4>3. Window(entries', g_read_idx, g_count)
              = Append(Window(entries, g_read_idx, h), next - 1)
        <5>1. /\ entries'[(g_read_idx + h) % N] = next - 1
              /\ \A j \in Slots : j # (g_read_idx + h) % N
                   => entries'[j] = entries[j]
          BY <1>1, <2>2, <2>5, <4>2
        <5>2. PICK e \in [Slots -> Nat], f \in [Slots -> Nat] :
                e = entries /\ f = entries'
          BY <1>1
        <5>3. PICK i \in Slots : i = g_read_idx
          BY <4>2
        <5>4. /\ f[(i + h) % N] = next - 1 /\ next - 1 \in Nat
              /\ \A j \in Slots : j # (i + h) % N => f[j] = e[j]
          BY <2>5, <5>1, <5>2, <5>3
        <5>5. PICK g \in 0 .. N : g = g_count /\ g = h + 1
          BY <1>1, <4>2
        <5>6. Window(f, i, g) = Append(Window(e, i, h), f[(i + h) % N])
          <6>1. f[(i + h) % N] \in Nat /\ h \in 0 .. N - 1 /\ g = h + 1
            BY <4>2, <5>4, <5>5
          <6>2. QED
            BY <5>4, <6>1, WindowAppend, SMTT(60)
        <5>7. QED
          BY <5>2, <5>3, <5>4, <5>5, <5>6
      <4>4. QED
        BY <4>1, <4>3
    <3>2. QED
      BY <1>a, <2>1, <2>4, <2>5, <3>1, FifoQueueIs
  <2>7. Len(FifoQueue) < N
    <3>1. Len(FifoQueue) = g_count - 1
      BY <1>1, <2>1, <2>2, <2>4, FifoQueueIs, WindowSeq
    <3>2. QED
      BY <1>1, <3>1, SizeAssumption
  <2>8. Newest = next - 2 /\ Newest' = next - 1 /\ Newest + 1 = next - 1
    BY <1>1, <1>8 DEF StoreEntry, Newest
  <2>9. lastSent' = lastSent
    BY <1>8 DEF StoreEntry, hist
  <2>10. QED
    BY <2>6, <2>7, <2>8, <2>9 DEF FifoStep, Fifo!Push
<1>9. CASE AdvanceWrite
  <2>1. nvs' = [nvs EXCEPT !["write_idx"] = Succ(g_write_idx)]
    BY <1>9, WriteMetaOK DEF AdvanceWrite, Keys
  <2>2. nvs'["read_idx"] = nvs["read_idx"] /\ nvs'["count"] = nvs["count"]
    BY <2>1 DEF TypeOK, Keys
  <2>3. QED
    BY <1>2, <1>9, <2>2 DEF AdvanceWrite, FifoLen, Newest
<1>10. CASE ReplayPublish
  <2>1. faults = 0 /\ nvs["read_idx"] = g_read_idx /\ nvs["count"] = g_count
    BY <1>10 DEF ReplayPublish, RingConsistent, Mirrored, Running
  <2>2. FifoLen = g_count /\ g_count \in 1 .. N
    BY <1>1, <1>10, <2>1 DEF ReplayPublish, FifoLen
  <2>3. /\ Head(FifoQueue) = entries[g_read_idx]
        /\ Len(FifoQueue) = g_count
    <3>1. /\ entries \in [Slots -> Nat] /\ g_read_idx \in Slots
          /\ g_count \in 0 .. N
      BY <1>1, <2>1
    <3>2. FifoQueue = Window(entries, g_read_idx, g_count)
      BY <2>1, <2>2, FifoQueueIs
    <3>3. Head(FifoQueue) = entries[g_read_idx]
      BY <2>2, <3>1, <3>2, WindowTail
    <3>4. Len(FifoQueue) = g_count
      BY <3>1, <3>2, WindowSeq
    <3>5. QED
      BY <3>3, <3>4
  <2>4. FifoQueue # <<>>
    BY <2>2, <2>3
  <2>5. FifoQueue' = FifoQueue /\ Newest' = Newest
    BY <1>10 DEF ReplayPublish, FifoQueue, FifoLen, Newest, ram
  <2>6. QED
    BY <1>10, <2>3, <2>4, <2>5 DEF ReplayPublish, FifoStep, Fifo!Deliver
<1>11. CASE PopRead
  <2>1. faults = 0 /\ nvs' = [nvs EXCEPT !["read_idx"] = Succ(g_read_idx)]
    BY <1>11, WriteMetaOK DEF PopRead, Keys
  <2>2. nvs["read_idx"] = g_read_idx /\ nvs["count"] = g_count
    BY <1>11, <2>1 DEF PopRead, RingConsistent, Mirrored, Running
  <2>3. nvs'["count"] = g_count /\ nvs'["read_idx"] = Succ(nvs["read_idx"])
    BY <2>1, <2>2 DEF TypeOK, Keys
  <2>4. FifoLen = g_count /\ FifoLen' = g_count - 1 /\ g_count \in 1 .. N
    BY <1>1, <1>11, <2>2, <2>3 DEF PopRead, FifoLen
  <2>5. FifoQueue' = Tail(FifoQueue)
    BY <1>1, <1>11, <2>3, <2>4, <1>a, FifoQueueIs, WindowTail DEF PopRead
  <2>6. FifoQueue # <<>>
    <3>1. Len(FifoQueue) = g_count
      BY <1>1, <2>4, FifoQueueIs, WindowSeq
    <3>2. QED
      BY <2>4, <3>1
  <2>7. Newest' = Newest /\ lastSent' = lastSent
    BY <1>11 DEF PopRead, Newest
  <2>8. QED
    BY <2>5, <2>6, <2>7 DEF FifoStep, Fifo!Remove
<1>12. CASE PopCount
  <2>1. faults = 0 /\ nvs' = [nvs EXCEPT !["count"] = g_count]
    BY <1>12, WriteMetaOK DEF PopCount, Keys
  <2>2. nvs["count"] = g_count + 1
    BY <1>12, <2>1 DEF PopCount, PopInv
  <2>3. nvs'["count"] = g_count /\ nvs'["read_idx"] = nvs["read_idx"]
    BY <2>1 DEF TypeOK, Keys
  <2>4. FifoLen' = FifoLen /\ Newest' = Newest
    BY <1>1, <1>12, <2>2, <2>3 DEF PopCount, FifoLen, Newest
  <2>5. QED
    BY <1>2, <1>12, <2>3, <2>4 DEF PopCount, hist
<1>13. CASE ClearWrite
  <2>1. FifoLen' = 0
    BY <1>13 DEF ClearWrite, FifoLen
  <2>2. FifoQueue' = <<>>
    BY <1>1, <1>a, <2>1, WindowEmpty
  <2>3. pc' = "clear_read" /\ Newest' = Newest /\ lastSent' = lastSent
    BY <1>13 DEF ClearWrite, Newest
  <2>4. QED
    BY <2>2, <2>3 DEF FifoStep, Fifo!Clear
<1>14. CASE ClearRead \/ ClearCount
  <2>1. FifoLen = 0
    BY <1>14 DEF ClearRead, ClearCount, FifoLen
  <2>2. FifoLen' = 0
    <3>1. CASE ClearRead
      BY <3>1 DEF ClearRead, FifoLen
    <3>2. CASE ClearCount
      <4>1. nvs' = [nvs EXCEPT !["count"] = 0]
        BY <3>2, WriteMetaOK DEF ClearCount, ClearMeta, Keys
      <4>2. QED
        BY <3>2, <4>1 DEF ClearCount, FifoLen, TypeOK, Keys
    <3>3. QED
      BY <1>14, <3>1, <3>2
  <2>3. FifoQueue = <<>> /\ FifoQueue' = <<>>
    BY <1>1, <1>a, <2>1, <2>2, FifoQueueIs, WindowEmpty
  <2>4. Newest' = Newest /\ lastSent' = lastSent
    BY <1>14 DEF ClearRead, ClearCount, Newest
  <2>5. QED
    BY <2>3, <2>4 DEF Fifo!fifoVars
<1>15. QED
  BY <1>3, <1>4, <1>5, <1>6, <1>7, <1>8, <1>9, <1>10, <1>11, <1>12, <1>13,
     <1>14 DEF Next

(* Up to the first fault the ring in flash is the bounded FIFO of          *)
(* BoundedFifo, for every size: each step of the buffer, restarts and      *)
(* mount failures included, is one of the FIFO or leaves it as it is.      *)
THEOREM ImplementsBoundedFifo == Spec => ImplementsFifo
<1>1. Init => PopInv
  BY DEF Init, PopInv
<1>2. QED
  BY <1>1, FifoInit, PopInvStep, FifoSteps, TypeCorrect, RingCorrect, PTL
     DEF Spec, ImplementsFifo

=============================================================================
