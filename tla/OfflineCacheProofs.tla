------------------------- MODULE OfflineCacheProofs -------------------------
(***************************************************************************)
(* Proofs about OfflineCache for every ring size, batch limit, set of      *)
(* faults and number of entries and power losses.                          *)
(***************************************************************************)
EXTENDS OfflineCache, FiniteSetTheorems, SequenceTheorems, TLAPS

LEMMA Sizes == N \in Nat \ {0} /\ Batch \in Nat \ {0}
  BY CacheAssumption

-----------------------------------------------------------------------------
(* The arithmetic of the ring                                              *)

LEMMA SuccRange ==
  \A i \in Slots : Succ(i) \in Slots /\ Succ(i) = IF i + 1 = N THEN 0 ELSE i + 1
  BY Sizes DEF Slots, Succ

\* A position less than one lap ahead wraps at most once.
LEMMA LiveSlotRange ==
  ASSUME NEW r \in Ring, NEW i \in 0 .. N
  PROVE  /\ LiveSlot(r, i) \in Slots
         /\ LiveSlot(r, i) = IF r.tail + i < N THEN r.tail + i ELSE r.tail + i - N
  BY Sizes DEF Ring, Slots, LiveSlot

LEMMA EmptyClosed == EmptyRing \in Ring /\ Closed(EmptyRing)
  BY Sizes DEF EmptyRing, Ring, Slots, Closed, LiveSlot

LEMMA PushClosed ==
  ASSUME NEW r \in Ring, Closed(r)
  PROVE  Push(r) \in Ring /\ Closed(Push(r))
  BY Sizes, LiveSlotRange, SuccRange DEF Ring, Slots, Closed, Push

LEMMA CommitClosed ==
  ASSUME NEW r \in Ring, Closed(r)
  PROVE  Commit(r) \in Ring /\ Closed(Commit(r))
<1>1. CASE r.count = 0
  BY <1>1 DEF Commit
<1>2. CASE r.count # 0
  <2>1. /\ Commit(r) \in Ring /\ Commit(r).head = r.head
        /\ Commit(r).tail = Succ(r.tail) /\ Commit(r).count = r.count - 1
    BY <1>2, Sizes, SuccRange DEF Ring, Slots, Commit
  <2>2. LiveSlot(Commit(r), r.count - 1) = LiveSlot(r, r.count)
    <3>1. r.tail \in 0 .. N - 1 /\ r.count \in 1 .. N
      BY <1>2 DEF Ring, Slots
    <3>2. Succ(r.tail) = IF r.tail + 1 = N THEN 0 ELSE r.tail + 1
      BY <3>1, SuccRange DEF Slots
    <3>3. LiveSlot(r, r.count) =
            IF r.tail + r.count < N THEN r.tail + r.count ELSE r.tail + r.count - N
      BY <3>1, Sizes DEF LiveSlot
    <3>4. LiveSlot(Commit(r), r.count - 1) =
            IF Succ(r.tail) + (r.count - 1) < N THEN Succ(r.tail) + (r.count - 1)
            ELSE Succ(r.tail) + (r.count - 1) - N
      <4>1. r.count - 1 \in 0 .. N
        BY <3>1, Sizes
      <4>2. QED
        BY <2>1, <4>1, LiveSlotRange
    <3>5. QED
      BY <3>1, <3>2, <3>3, <3>4, Sizes
  <2>3. QED
    BY <2>1, <2>2 DEF Closed
<1>3. QED
  BY <1>1, <1>2

\* A state record of this build is loaded as it was saved.
LEMMA LoadSaved ==
  /\ NoState \notin Ring
  /\ \A r \in Ring : LoadState(r) = r
  /\ LoadState(NoState) = EmptyRing
  BY CacheAssumption DEF Ring, Slots, LoadState

-----------------------------------------------------------------------------
(* Type correctness                                                        *)


\* What a step of each thread may do to the data.
LEMMA DataStep ==
  ASSUME DataOK, ControlOK, [Next]_vars
  PROVE  DataOK'
<1>0. Push(ring) \in Ring /\ Commit(ring) \in Ring /\ LoadState(saved) \in Ring
  <2>1. ring \in Ring /\ saved \in Ring \cup {NoState}
    BY DEF DataOK
  <2>2. QED
    BY <2>1, Sizes, SuccRange, LoadSaved, EmptyClosed DEF Ring, Slots, Push, Commit
<1>1. CASE Dispatcher
  <2>1. CASE UploadWrite
    <3>1. ring.head \in Slots /\ nextId + 1 \in Ids /\ nextId \in Ids
      BY DEF DataOK, Ring, Ids
    <3>2. slot' \in [Slots -> Ids \cup {Empty, Corrupt}]
      BY <2>1, <3>1 DEF UploadWrite, DataOK
    <3>3. forgone' \subseteq Nat
      BY <2>1 DEF UploadWrite, DataOK, Ids
    <3>4. QED
      BY <2>1, <1>0, <3>1, <3>2, <3>3 DEF UploadWrite, DataOK
  <2>2. CASE UploadSave
    BY <2>2 DEF UploadSave, SaveState, history, DataOK
  <2>3. CASE UploadEvent \/ UploadLock \/ UploadWriteFails \/ Connected \/ Disconnected
    BY <2>3 DEF UploadEvent, UploadLock, UploadWriteFails, Connected, Disconnected,
                flash, history, DataOK
  <2>4. QED
    BY <1>1, <2>1, <2>2, <2>3 DEF Dispatcher
<1>2. CASE WorkQueue
  <2>1. CASE WorkReplay \/ WorkDrop
    BY <2>1, <1>0 DEF WorkReplay, WorkDrop, flash, history, DataOK
  <2>2. CASE WorkSave
    BY <2>2 DEF WorkSave, SaveState, history, DataOK
  <2>3. CASE WorkStart \/ WorkLock \/ WorkBreak \/ WorkBatchDone \/ WorkTail
    BY <2>3 DEF WorkStart, WorkLock, WorkBreak, WorkBatchDone, WorkTail,
                flash, history, DataOK
  <2>4. QED
    BY <1>2, <2>1, <2>2, <2>3 DEF WorkQueue
<1>3. CASE Lifecycle
  <2>1. CASE StopSave
    BY <2>1 DEF StopSave, SaveState, history, DataOK
  <2>2. CASE Lifecycle /\ ~StopSave
    BY <2>2 DEF Lifecycle, Start, StartNet, StopCancel, StopCancelled, StopLock,
                StopDone, Shutdown, flash, history, DataOK
  <2>3. QED
    BY <1>3, <2>1, <2>2
<1>4. CASE ClearLock
  <2>1. Live(ring) \subseteq Nat
    BY DEF Live, Ids
  <2>2. QED
    BY <1>4, <2>1, EmptyClosed DEF ClearLock, flash, DataOK
<1>5. CASE ClearSave
  BY <1>5 DEF ClearSave, SaveState, history, DataOK
<1>6. CASE PowerLoss
  <2>1. nextId - 1 \in Nat
    BY DEF DataOK, Ids
  <2>2. ring' \in Ring
    BY <1>6, <1>0, EmptyClosed DEF PowerLoss
  <2>3. forgone' \subseteq Nat
    BY <1>6, <2>1 DEF PowerLoss, DataOK
  <2>4. crashes' \in Nat /\ UNCHANGED <<slot, saved, nextId, published>>
    BY <1>6 DEF PowerLoss, flash, DataOK
  <2>5. QED
    BY <2>2, <2>3, <2>4 DEF DataOK
<1>7. CASE \E s \in Slots : SlotCorrupts(s)
  <2>1. PICK s \in Slots : SlotCorrupts(s)
    BY <1>7
  <2>2. slot' \in [Slots -> Ids \cup {Empty, Corrupt}]
    BY <2>1 DEF SlotCorrupts, DataOK
  <2>3. forgone' \subseteq Nat
    BY <2>1 DEF SlotCorrupts, DataOK, Ids
  <2>4. QED
    BY <2>1, <2>2, <2>3 DEF SlotCorrupts, DataOK
<1>8. CASE UNCHANGED vars
  BY <1>8 DEF vars, DataOK
<1>9. QED
  BY <1>1, <1>2, <1>3, <1>4, <1>5, <1>6, <1>7, <1>8 DEF Next, Clear, Environment

\* What a step of each thread may do to the threads, the flags and the mutex.
LEMMA ControlStep ==
  ASSUME ControlOK, [Next]_vars
  PROVE  ControlOK'
<1>1. CASE Dispatcher
  BY <1>1 DEF Dispatcher, UploadEvent, UploadLock, UploadWrite, UploadWriteFails,
              UploadSave, Connected, Disconnected, Cancelling, pcs, ControlOK
<1>2. CASE WorkQueue
  <2>1. CASE WorkReplay \/ WorkDrop
    <3>1. iter + 1 \in 0 .. Batch
      BY <2>1, Sizes DEF WorkReplay, WorkDrop, InBatch, ControlOK
    <3>2. QED
      BY <2>1, <3>1 DEF WorkReplay, WorkDrop, ControlOK
  <2>2. CASE WorkStart
    BY <2>2 DEF WorkStart, ControlOK
  <2>3. CASE WorkLock
    BY <2>3, Sizes DEF WorkLock, ControlOK
  <2>4. CASE WorkBreak \/ WorkBatchDone \/ WorkSave \/ WorkTail
    BY <2>4 DEF WorkBreak, WorkBatchDone, WorkSave, WorkTail, ControlOK
  <2>5. QED
    BY <1>2, <2>1, <2>2, <2>3, <2>4 DEF WorkQueue
<1>3. CASE Lifecycle
  BY <1>3 DEF Lifecycle, Start, StartNet, StopCancel, StopCancelled, StopLock,
              StopSave, StopDone, Shutdown, pcs, ControlOK
<1>4. CASE Clear
  BY <1>4 DEF Clear, ClearLock, ClearSave, ControlOK
<1>5. CASE Environment
  <2>1. CASE PowerLoss
    <3>1. 0 \in 0 .. Batch
      BY Sizes
    <3>2. QED
      BY <2>1, <3>1 DEF PowerLoss, ControlOK
  <2>2. CASE \E s \in Slots : SlotCorrupts(s)
    BY <2>2 DEF SlotCorrupts, pcs, ControlOK
  <2>3. QED
    BY <1>5, <2>1, <2>2 DEF Environment
<1>6. CASE UNCHANGED vars
  BY <1>6 DEF vars, ControlOK
<1>7. QED
  BY <1>1, <1>2, <1>3, <1>4, <1>5, <1>6 DEF Next

\* Every variable keeps its type through every fault and interleaving.
THEOREM TypeCorrect == Spec => []TypeOK
<1>1. Init => TypeOK
  <2>1. Init => DataOK
    BY EmptyClosed DEF Init, DataOK, Ids
  <2>2. Init => ControlOK
    <3>1. 0 \in 0 .. Batch
      BY Sizes
    <3>2. QED
      BY <3>1 DEF Init, ControlOK
  <2>3. QED
    BY <2>1, <2>2 DEF TypeOK
<1>2. TypeOK /\ [Next]_vars => TypeOK'
  BY DataStep, ControlStep DEF TypeOK
<1>3. QED
  BY <1>1, <1>2, PTL DEF Spec

-----------------------------------------------------------------------------
(* The mutex                                                               *)

LEMMA LockStep ==
  ASSUME ControlOK, LockHeld, [Next]_vars
  PROVE  LockHeld'
<1>1. CASE Dispatcher
  BY <1>1 DEF Dispatcher, UploadEvent, UploadLock, UploadWrite, UploadWriteFails,
              UploadSave, Connected, Disconnected, pcs, ControlOK, LockHeld
<1>2. CASE WorkQueue
  BY <1>2 DEF WorkQueue, WorkStart, WorkLock, WorkReplay, WorkDrop, WorkBreak,
              WorkBatchDone, WorkSave, WorkTail, InBatch, ControlOK, LockHeld
<1>3. CASE Lifecycle
  BY <1>3 DEF Lifecycle, Start, StartNet, StopCancel, StopCancelled, StopLock,
              StopSave, StopDone, Shutdown, pcs, ControlOK, LockHeld
<1>4. CASE Clear
  BY <1>4 DEF Clear, ClearLock, ClearSave, ControlOK, LockHeld
<1>5. CASE Environment
  BY <1>5 DEF Environment, PowerLoss, SlotCorrupts, pcs, LockHeld
<1>6. CASE UNCHANGED vars
  BY <1>6 DEF vars, LockHeld
<1>7. QED
  BY <1>1, <1>2, <1>3, <1>4, <1>5, <1>6 DEF Next

\* At most one thread is between k_mutex_lock and k_mutex_unlock.
THEOREM MutexHeld == Spec => []LockHeld
<1>1. Init => LockHeld
  BY DEF Init, LockHeld
<1>2. ControlOK /\ LockHeld /\ [Next]_vars => LockHeld'
  BY LockStep
<1>3. TypeOK => ControlOK
  BY DEF TypeOK
<1>4. QED
  BY <1>1, <1>2, <1>3, TypeCorrect, PTL DEF Spec

-----------------------------------------------------------------------------
(* The ring in RAM and in flash                                            *)

\* RingClosed follows the ring through every step: only Push, Commit, a clear
\* and a boot change it, and only the ring itself is ever saved.
LEMMA RingStep ==
  ASSUME TypeOK, RingClosed, [Next]_vars
  PROVE  RingClosed'
<1> DEFINE SavedClosed == saved # NoState => Closed(saved)
<1>0. /\ ring \in Ring /\ Closed(ring) /\ SavedClosed
      /\ saved \in Ring \cup {NoState}
  BY DEF TypeOK, DataOK, RingClosed
<1>1. /\ Closed(Push(ring)) /\ Closed(Commit(ring)) /\ Closed(EmptyRing)
      /\ Closed(LoadState(saved))
  BY <1>0, PushClosed, CommitClosed, EmptyClosed, LoadSaved
<1>2. \A r : Closed(r)' <=> Closed(r)
  BY DEF Closed, LiveSlot
<1>3. ring' \in {ring, Push(ring), Commit(ring), EmptyRing, LoadState(saved)}
  <2>1. CASE Dispatcher
    BY <2>1 DEF Dispatcher, UploadEvent, UploadLock, UploadWrite, UploadWriteFails,
                UploadSave, Connected, Disconnected
  <2>2. CASE WorkQueue
    BY <2>2 DEF WorkQueue, WorkStart, WorkLock, WorkReplay, WorkDrop, WorkBreak,
                WorkBatchDone, WorkSave, WorkTail
  <2>3. CASE Lifecycle
    BY <2>3 DEF Lifecycle, Start, StartNet, StopCancel, StopCancelled, StopLock,
                StopSave, StopDone, Shutdown
  <2>4. CASE Clear
    BY <2>4 DEF Clear, ClearLock, ClearSave
  <2>5. CASE Environment
    BY <2>5 DEF Environment, PowerLoss, SlotCorrupts
  <2>6. CASE UNCHANGED vars
    BY <2>6 DEF vars
  <2>7. QED
    BY <2>1, <2>2, <2>3, <2>4, <2>5, <2>6 DEF Next
<1>4. saved' \in {saved, ring}
  <2>1. CASE Dispatcher
    BY <2>1 DEF Dispatcher, UploadEvent, UploadLock, UploadWrite, UploadWriteFails,
                UploadSave, Connected, Disconnected, SaveState, flash
  <2>2. CASE WorkQueue
    BY <2>2 DEF WorkQueue, WorkStart, WorkLock, WorkReplay, WorkDrop, WorkBreak,
                WorkBatchDone, WorkSave, WorkTail, SaveState, flash
  <2>3. CASE Lifecycle
    BY <2>3 DEF Lifecycle, Start, StartNet, StopCancel, StopCancelled, StopLock,
                StopSave, StopDone, Shutdown, SaveState, flash
  <2>4. CASE Clear
    BY <2>4 DEF Clear, ClearLock, ClearSave, SaveState, flash
  <2>5. CASE Environment
    BY <2>5 DEF Environment, PowerLoss, SlotCorrupts, flash
  <2>6. CASE UNCHANGED vars
    BY <2>6 DEF vars
  <2>7. QED
    BY <2>1, <2>2, <2>3, <2>4, <2>5, <2>6 DEF Next
<1>5. QED
  BY <1>0, <1>1, <1>3, <1>4 DEF RingClosed, Closed, LiveSlot

\* The write position is count slots past the read position, in RAM and in the
\* record a boot will load, whatever fails and whenever power is lost.
THEOREM RingAlwaysClosed == Spec => []RingClosed
<1>1. Init => RingClosed
  BY EmptyClosed DEF Init, RingClosed
<1>2. TypeOK /\ RingClosed /\ [Next]_vars => RingClosed'
  BY RingStep
<1>3. QED
  BY <1>1, <1>2, TypeCorrect, PTL DEF Spec

-----------------------------------------------------------------------------
(* The state record                                                        *)

\* StateDurable, strengthened: a dispatcher that holds the mutex but has written
\* nothing yet may still give it back without saving.
Durable ==
  ReliableState /\ (lock = "free" \/ disp = "write") => LoadState(saved) = ring

LEMMA DurableStep ==
  ASSUME TypeOK, LockHeld, Durable, [Next]_vars
  PROVE  Durable'
<1> SUFFICES ASSUME ReliableState, (lock = "free" \/ disp = "write")'
             PROVE  (LoadState(saved) = ring)'
  BY DEF Durable, ReliableState
<1>0. LoadState(ring) = ring
  BY LoadSaved DEF TypeOK, DataOK
<1>1. SaveState => saved' = ring
  BY DEF SaveState, ReliableState
<1>2. ASSUME saved' = ring, ring' = ring PROVE (LoadState(saved) = ring)'
  BY <1>0, <1>2 DEF LoadState
<1>3. ASSUME UNCHANGED <<saved, ring>>, lock = "free" \/ disp = "write"
      PROVE  (LoadState(saved) = ring)'
  BY <1>3 DEF Durable, LoadState
<1>4. CASE Dispatcher
  <2>1. CASE UploadSave
    BY <2>1, <1>1, <1>2 DEF UploadSave
  <2>2. CASE UploadWrite
    BY <2>2 DEF UploadWrite, LockHeld
  <2>3. CASE UploadEvent \/ UploadLock \/ UploadWriteFails \/ Connected \/ Disconnected
    BY <2>3, <1>3 DEF UploadEvent, UploadLock, UploadWriteFails, Connected,
                      Disconnected, flash, pcs
  <2>4. QED
    BY <1>4, <2>1, <2>2, <2>3 DEF Dispatcher
<1>5. CASE WorkQueue
  <2>1. CASE WorkSave
    BY <2>1, <1>1, <1>2 DEF WorkSave
  <2>2. CASE WorkReplay \/ WorkDrop
    BY <2>2 DEF WorkReplay, WorkDrop, InBatch, LockHeld
  <2>3. CASE WorkStart \/ WorkLock \/ WorkBreak \/ WorkBatchDone \/ WorkTail
    BY <2>3, <1>3 DEF WorkStart, WorkLock, WorkBreak, WorkBatchDone, WorkTail, flash
  <2>4. QED
    BY <1>5, <2>1, <2>2, <2>3 DEF WorkQueue
<1>6. CASE Lifecycle
  <2>1. CASE StopSave
    BY <2>1, <1>1, <1>2 DEF StopSave
  <2>2. CASE Lifecycle /\ ~StopSave
    BY <2>2, <1>3 DEF Lifecycle, Start, StartNet, StopCancel, StopCancelled, StopLock,
                      StopDone, Shutdown, flash, pcs
  <2>3. QED
    BY <1>6, <2>1, <2>2
<1>7. CASE Clear
  <2>1. CASE ClearSave
    BY <2>1, <1>1, <1>2 DEF ClearSave
  <2>2. CASE ClearLock
    BY <2>2 DEF ClearLock, LockHeld
  <2>3. QED
    BY <1>7, <2>1, <2>2 DEF Clear
<1>8. CASE PowerLoss
  <2>1. ring' = LoadState(saved) /\ saved' = saved
    BY <1>8 DEF PowerLoss, flash, ReliableState
  <2>2. QED
    BY <2>1 DEF LoadState
<1>9. CASE (\E s \in Slots : SlotCorrupts(s)) \/ UNCHANGED vars
  BY <1>9, <1>3 DEF SlotCorrupts, pcs, vars
<1>10. QED
  BY <1>4, <1>5, <1>6, <1>7, <1>8, <1>9 DEF Next, Environment

\* With state writes succeeding, a power loss at any moment the mutex is free
\* brings back exactly the ring the threads see.
THEOREM StateAlwaysDurable == Spec => []StateDurable
<1>1. Init => Durable
  BY LoadSaved DEF Init, Durable
<1>2. TypeOK /\ LockHeld /\ Durable /\ [Next]_vars => Durable'
  BY DurableStep
<1>3. Durable => StateDurable
  BY DEF Durable, StateDurable
<1>4. QED
  BY <1>1, <1>2, <1>3, TypeCorrect, MutexHeld, PTL DEF Spec
-----------------------------------------------------------------------------
(* The entries in the ring                                                 *)

\* How far slot p is ahead of the read position of ring r.
Ahead(r, p) == IF p >= r.tail THEN p - r.tail ELSE p + N - r.tail

\* Slot p is one of the live slots of ring r.
LiveAt(r, p) == Ahead(r, p) < r.count

LEMMA AheadOfLiveSlot ==
  ASSUME NEW r \in Ring, NEW i \in 0 .. N - 1
  PROVE  Ahead(r, LiveSlot(r, i)) = i
<1>1. i \in 0 .. N /\ r.tail \in 0 .. N - 1
  BY Sizes DEF Ring, Slots
<1>2. LiveSlot(r, i) = IF r.tail + i < N THEN r.tail + i ELSE r.tail + i - N
  BY <1>1, LiveSlotRange
<1>3. CASE r.tail + i < N
  BY <1>1, <1>2, <1>3, Sizes DEF Ahead
<1>4. CASE ~(r.tail + i < N)
  BY <1>1, <1>2, <1>4, Sizes DEF Ahead
<1>5. QED
  BY <1>3, <1>4

LEMMA LiveSlotOfAhead ==
  ASSUME NEW r \in Ring, NEW p \in Slots
  PROVE  Ahead(r, p) \in 0 .. N - 1 /\ LiveSlot(r, Ahead(r, p)) = p
<1>1. p \in 0 .. N - 1 /\ r.tail \in 0 .. N - 1
  BY DEF Ring, Slots
<1>2. Ahead(r, p) \in 0 .. N - 1 /\ Ahead(r, p) \in 0 .. N
  BY <1>1, Sizes DEF Ahead
<1>3. LiveSlot(r, Ahead(r, p)) =
        IF r.tail + Ahead(r, p) < N THEN r.tail + Ahead(r, p) ELSE r.tail + Ahead(r, p) - N
  BY <1>2, LiveSlotRange
<1>4. CASE p >= r.tail
  BY <1>1, <1>2, <1>3, <1>4, Sizes DEF Ahead
<1>5. CASE ~(p >= r.tail)
  BY <1>1, <1>2, <1>3, <1>5, Sizes DEF Ahead
<1>6. QED
  BY <1>2, <1>4, <1>5

\* The entries a ring calls live, when the slots hold s.
Entries(s, r) == {e \in Ids : \E p \in Slots : LiveAt(r, p) /\ s[p] = e}

LEMMA LiveEntries ==
  ASSUME NEW s, NEW r \in Ring
  PROVE  {s[LiveSlot(r, i)] : i \in 0 .. r.count - 1} \cap Ids = Entries(s, r)
<1>1. r.count \in 0 .. N
  BY DEF Ring
<1>2. ASSUME NEW i \in 0 .. r.count - 1
      PROVE  \E p \in Slots : LiveAt(r, p) /\ s[p] = s[LiveSlot(r, i)]
  <2>1. i \in 0 .. N - 1 /\ i \in 0 .. N /\ i < r.count
    BY <1>1, Sizes
  <2>2. LiveSlot(r, i) \in Slots /\ Ahead(r, LiveSlot(r, i)) = i
    BY <2>1, LiveSlotRange, AheadOfLiveSlot
  <2>3. QED
    BY <2>1, <2>2 DEF LiveAt
<1>3. ASSUME NEW p \in Slots, LiveAt(r, p)
      PROVE  \E i \in 0 .. r.count - 1 : s[LiveSlot(r, i)] = s[p]
  <2>1. Ahead(r, p) \in 0 .. N - 1 /\ LiveSlot(r, Ahead(r, p)) = p
    BY LiveSlotOfAhead
  <2>2. Ahead(r, p) \in 0 .. r.count - 1
    BY <1>1, <1>3, <2>1, Sizes DEF LiveAt
  <2>3. QED
    BY <2>1, <2>2
<1>4. QED
  BY <1>2, <1>3 DEF Entries

\* Push makes the write position live and takes no other slot out; only a full
\* ring had that slot live already, and then it is the oldest one's.
LEMMA PushLive ==
  ASSUME NEW r \in Ring, Closed(r)
  PROVE  /\ r.head \in Slots /\ LiveAt(Push(r), r.head)
         /\ \A p \in Slots : LiveAt(r, p) /\ p # r.head => LiveAt(Push(r), p)
         /\ LiveAt(r, r.head) => r.count >= N /\ r.head = r.tail
<1>1. /\ r.head \in 0 .. N - 1 /\ r.tail \in 0 .. N - 1 /\ r.count \in 0 .. N
      /\ r.head = IF r.tail + r.count < N THEN r.tail + r.count ELSE r.tail + r.count - N
  <2>1. r.head \in 0 .. N - 1 /\ r.tail \in 0 .. N - 1 /\ r.count \in 0 .. N
    BY DEF Ring, Slots
  <2>2. QED
    BY <2>1, LiveSlotRange DEF Closed
<1>2. CASE r.count < N
  <2>1. Push(r).tail = r.tail /\ Push(r).count = r.count + 1
    BY <1>1, <1>2, Sizes DEF Push
  <2>2. Ahead(r, r.head) = r.count
    BY <1>1, <1>2, Sizes DEF Ahead
  <2>3. ASSUME NEW p \in Slots, LiveAt(r, p) \/ p = r.head
        PROVE  LiveAt(Push(r), p)
    <3>1. Ahead(r, p) \in 0 .. N - 1
      BY LiveSlotOfAhead
    <3>2. Ahead(Push(r), p) = Ahead(r, p)
      BY <2>1 DEF Ahead
    <3>3. Ahead(r, p) < r.count \/ Ahead(r, p) = r.count
      BY <2>2, <2>3 DEF LiveAt
    <3>4. QED
      BY <1>1, <2>1, <3>1, <3>2, <3>3 DEF LiveAt
  <2>4. ~LiveAt(r, r.head)
    BY <1>1, <2>2 DEF LiveAt
  <2>5. r.head \in Slots
    BY <1>1 DEF Slots
  <2>6. QED
    BY <2>3, <2>4, <2>5
<1>3. CASE ~(r.count < N)
  <2>1. Push(r).count = N /\ r.count = N
    BY <1>1, <1>3, Sizes DEF Push
  <2>2. r.head = r.tail
    BY <1>1, <2>1, Sizes
  <2>3. Push(r) \in Ring
    BY PushClosed
  <2>4. \A p \in Slots : Ahead(Push(r), p) \in 0 .. N - 1
    BY <2>3, LiveSlotOfAhead
  <2>5. \A p \in Slots : LiveAt(Push(r), p)
    BY <2>1, <2>4, Sizes DEF LiveAt
  <2>6. r.head \in Slots /\ r.count >= N
    BY <1>1, <2>1, Sizes DEF Slots
  <2>7. QED
    BY <2>2, <2>5, <2>6
<1>4. QED
  BY <1>2, <1>3

\* Commit takes the slot of the oldest entry out, and no other.
LEMMA CommitLive ==
  ASSUME NEW r \in Ring, r.count > 0, NEW p \in Slots, LiveAt(r, p), p # r.tail
  PROVE  LiveAt(Commit(r), p)
<1>1. /\ r.tail \in 0 .. N - 1 /\ r.count \in 1 .. N /\ p \in 0 .. N - 1
  BY DEF Ring, Slots
<1>2. Commit(r).tail = (IF r.tail + 1 = N THEN 0 ELSE r.tail + 1)
  BY <1>1, SuccRange DEF Commit, Slots
<1>3. Commit(r).count = r.count - 1
  BY <1>1 DEF Commit
<1>4. Ahead(Commit(r), p) = Ahead(r, p) - 1
  <2>1. CASE r.tail + 1 = N
    BY <1>1, <1>2, <2>1, Sizes DEF Ahead
  <2>2. CASE r.tail + 1 # N
    BY <1>1, <1>2, <2>2, Sizes DEF Ahead
  <2>3. QED
    BY <2>1, <2>2
<1>5. Ahead(r, p) \in 0 .. N - 1
  BY LiveSlotOfAhead
<1>6. QED
  BY <1>1, <1>3, <1>4, <1>5 DEF LiveAt

\* A write adds its entry and loses at most the oldest one of a full ring, for
\* the ring in RAM and for the record in flash that is still the old one.
LEMMA PushEntries ==
  ASSUME NEW r \in Ring, Closed(r), NEW s, DOMAIN s = Slots, NEW x \in Ids,
         NEW gone, r.count >= N => {s[r.tail]} \cap Ids \subseteq gone
  PROVE  /\ x \in Entries([s EXCEPT ![r.head] = x], Push(r))
         /\ Entries(s, r) \subseteq Entries([s EXCEPT ![r.head] = x], Push(r)) \cup gone
         /\ Entries(s, r) \subseteq Entries([s EXCEPT ![r.head] = x], r) \cup gone
<1> DEFINE t == [s EXCEPT ![r.head] = x]
<1>1. t[r.head] = x /\ \A p \in Slots : p # r.head => t[p] = s[p]
  BY PushLive
<1> HIDE DEF t
<1>2. x \in Entries(t, Push(r))
  BY <1>1, PushLive DEF Entries
<1>3. ASSUME NEW e \in Entries(s, r), e \notin gone
      PROVE  e \in Entries(t, Push(r)) /\ e \in Entries(t, r)
  <2>1. PICK p \in Slots : LiveAt(r, p) /\ s[p] = e
    BY DEF Entries
  <2>2. e \in Ids
    BY DEF Entries
  <2>3. p # r.head
    BY <1>3, <2>1, <2>2, PushLive
  <2>4. t[p] = e /\ LiveAt(Push(r), p)
    BY <1>1, <2>1, <2>3, PushLive
  <2>5. QED
    BY <2>1, <2>2, <2>4 DEF Entries
<1>4. QED
  BY <1>2, <1>3 DEF t

\* A commit loses the oldest entry at most.
LEMMA CommitEntries ==
  ASSUME NEW r \in Ring, r.count > 0, NEW s
  PROVE  Entries(s, r) \subseteq Entries(s, Commit(r)) \cup {s[r.tail]}
<1> SUFFICES ASSUME NEW e \in Entries(s, r), e # s[r.tail]
             PROVE  e \in Entries(s, Commit(r))
  OBVIOUS
<1>1. PICK p \in Slots : LiveAt(r, p) /\ s[p] = e
  BY DEF Entries
<1>2. p # r.tail
  BY <1>1
<1>3. LiveAt(Commit(r), p)
  BY <1>1, <1>2, CommitLive
<1>4. QED
  BY <1>1, <1>3 DEF Entries

\* A spoilt slot loses its own entry at most.
LEMMA SpoilEntries ==
  ASSUME NEW r, NEW s, DOMAIN s = Slots, NEW q \in Slots, NEW c
  PROVE  Entries(s, r) \subseteq Entries([s EXCEPT ![q] = c], r) \cup {s[q]}
<1> SUFFICES ASSUME NEW e \in Entries(s, r), e # s[q]
             PROVE  e \in Entries([s EXCEPT ![q] = c], r)
  OBVIOUS
<1>1. PICK p \in Slots : LiveAt(r, p) /\ s[p] = e
  BY DEF Entries
<1>2. p # q
  BY <1>1
<1>3. [s EXCEPT ![q] = c][p] = e
  BY <1>1, <1>2
<1>4. QED
  BY <1>1, <1>3 DEF Entries

-----------------------------------------------------------------------------
(* No silent loss                                                          *)

Ended == published \cup forgone

\* Every entry written is in the ring the threads see, or has ended.
InRam == \A e \in 1 .. nextId - 1 : e \in Entries(slot, ring) \/ e \in Ended

\* It is also in the ring a boot would load, unless it is the one just written
\* and its state record is not saved yet.
InFlash ==
  \A e \in 1 .. nextId - 1 :
    \/ e \in Entries(slot, LoadState(saved))
    \/ e \in Ended
    \/ disp = "save" /\ e = nextId - 1

Accounted == ReliableState => InRam /\ InFlash

LEMMA RingEntries == TypeOK => Live(ring) = Entries(slot, ring)
  BY LiveEntries DEF TypeOK, DataOK, Live

LEMMA WriteAccounted ==
  ASSUME TypeOK, RingClosed, Durable, ReliableState, Accounted, UploadWrite
  PROVE  InRam' /\ InFlash'
<1>1. /\ ring \in Ring /\ Closed(ring) /\ DOMAIN slot = Slots /\ nextId \in Ids
      /\ nextId \in Nat
  BY DEF TypeOK, DataOK, RingClosed, Ids
<1>2. /\ LoadState(saved) = ring /\ LoadState(saved)' = LoadState(saved)
      /\ disp = "write"
  BY DEF UploadWrite, Durable, LoadState
<1>3. /\ slot' = [slot EXCEPT ![ring.head] = nextId] /\ ring' = Push(ring)
      /\ nextId' = nextId + 1 /\ disp' = "save" /\ Ended \subseteq Ended'
      /\ ring.count >= N => {slot[ring.tail]} \cap Ids \subseteq Ended'
  BY DEF UploadWrite, Ended
<1>4. /\ nextId \in Entries(slot', ring')
      /\ Entries(slot, ring) \subseteq Entries(slot', ring') \cup Ended'
      /\ Entries(slot, ring) \subseteq Entries(slot', ring) \cup Ended'
  BY <1>1, <1>3, PushEntries
<1>5. \A e \in 1 .. nextId' - 1 : e \in 1 .. nextId - 1 \/ e = nextId
  BY <1>1, <1>3
<1>6. nextId' - 1 = nextId
  BY <1>1, <1>3
<1>7. ASSUME NEW e \in 1 .. nextId' - 1
      PROVE  /\ e \in Entries(slot', ring') \/ e \in Ended'
             /\ e \in Entries(slot', ring) \/ e \in Ended' \/ e = nextId
  <2>1. CASE e = nextId
    BY <2>1, <1>4
  <2>2. CASE e \in 1 .. nextId - 1
    <3>1. e \in Entries(slot, ring) \/ e \in Ended
      BY <2>2 DEF Accounted, InRam
    <3>2. QED
      BY <3>1, <1>3, <1>4
  <2>3. QED
    BY <2>1, <2>2, <1>5
<1>8. QED
  BY <1>2, <1>3, <1>6, <1>7 DEF InRam, InFlash

LEMMA BatchAccounted ==
  ASSUME TypeOK, ReliableState, Accounted, WorkReplay \/ WorkDrop
  PROVE  InRam' /\ InFlash'
<1>1. ring \in Ring /\ ring.count > 0 /\ ring' = Commit(ring)
  BY DEF TypeOK, DataOK, WorkReplay, WorkDrop, InBatch
<1>2. Entries(slot, ring) \subseteq Entries(slot, ring') \cup {slot[ring.tail]}
  BY <1>1, CommitEntries
<1>3. /\ UNCHANGED <<slot, saved, nextId, disp>> /\ Ended \subseteq Ended'
      /\ slot[ring.tail] \in Ended' \/ slot[ring.tail] = Corrupt
  BY DEF WorkReplay, WorkDrop, flash, history, Peeked, Ended
<1>4. Corrupt \notin 1 .. nextId - 1
  BY CacheAssumption DEF TypeOK, DataOK, Ids
<1>5. InRam'
  <2> SUFFICES ASSUME NEW e \in 1 .. nextId - 1
               PROVE  e \in Entries(slot, ring') \/ e \in Ended'
    BY <1>3 DEF InRam
  <2>1. e \in Entries(slot, ring) \/ e \in Ended
    BY DEF Accounted, InRam
  <2>2. QED
    BY <2>1, <1>2, <1>3, <1>4
<1>6. InFlash'
  BY <1>3 DEF Accounted, InFlash, LoadState
<1>7. QED
  BY <1>5, <1>6

\* A state write makes the record what the threads see.
LEMMA SavedAccounted ==
  ASSUME TypeOK, Accounted, ReliableState, SaveState,
         UNCHANGED <<slot, ring, nextId, published, forgone>>
  PROVE  InRam' /\ InFlash'
<1>1. saved' = ring
  BY DEF SaveState, ReliableState
<1>2. LoadState(ring) = ring
  BY LoadSaved DEF TypeOK, DataOK
<1>3. \A r : Entries(slot', r) = Entries(slot, r)
  OBVIOUS
<1>4. LoadState(saved)' = ring
  BY <1>1, <1>2 DEF LoadState
<1>5. Ended' = Ended
  BY DEF Ended
<1>6. QED
  BY <1>3, <1>4, <1>5 DEF Accounted, InRam, InFlash

LEMMA ClearAccounted ==
  ASSUME TypeOK, Accounted, ReliableState, ClearLock
  PROVE  InRam' /\ InFlash'
<1>1. UNCHANGED <<slot, saved, nextId, disp>> /\ Ended' = Ended \cup Live(ring)
  BY DEF ClearLock, flash, Ended
<1>2. Live(ring) = Entries(slot, ring)
  BY RingEntries
<1>3. InRam'
  BY <1>1, <1>2 DEF Accounted, InRam
<1>4. InFlash'
  BY <1>1 DEF Accounted, InFlash, LoadState
<1>5. QED
  BY <1>3, <1>4

LEMMA SpoiltAccounted ==
  ASSUME TypeOK, Accounted, ReliableState, NEW s \in Slots, SlotCorrupts(s)
  PROVE  InRam' /\ InFlash'
<1>1. /\ slot' = [slot EXCEPT ![s] = Corrupt] /\ Ended' = Ended \cup {slot[s]}
      /\ UNCHANGED <<saved, ring, nextId, disp>>
  BY DEF SlotCorrupts, pcs, Ended
<1>2. DOMAIN slot = Slots
  BY DEF TypeOK, DataOK
<1>3. \A r : Entries(slot, r) \subseteq Entries(slot', r) \cup {slot[s]}
  BY <1>1, <1>2, SpoilEntries
<1>4. LoadState(saved)' = LoadState(saved)
  BY <1>1 DEF LoadState
<1>5. InRam'
  BY <1>1, <1>3 DEF Accounted, InRam
<1>6. InFlash'
  BY <1>1, <1>3, <1>4 DEF Accounted, InFlash
<1>7. QED
  BY <1>5, <1>6

\* A boot sees what flash holds; the entry still being written is given up.
LEMMA BootAccounted ==
  ASSUME TypeOK, Accounted, ReliableState, PowerLoss
  PROVE  InRam' /\ InFlash'
<1>1. /\ ring' = LoadState(saved) /\ UNCHANGED <<slot, saved, nextId>>
      /\ Ended' = Ended \cup (IF disp = "save" THEN {nextId - 1} ELSE {})
  BY DEF PowerLoss, flash, ReliableState, Ended
<1>2. LoadState(saved)' = LoadState(saved)
  BY <1>1 DEF LoadState
<1>3. \A e \in 1 .. nextId - 1 : e \in Entries(slot, LoadState(saved)) \/ e \in Ended'
  BY <1>1 DEF Accounted, InFlash
<1>4. QED
  BY <1>1, <1>2, <1>3 DEF InRam, InFlash

\* Every other step leaves the entries, the rings and the ends alone.
LEMMA StillAccounted ==
  ASSUME Accounted, ReliableState,
         UNCHANGED <<slot, saved, ring, nextId, published, forgone>>,
         disp = "save" => disp' = "save"
  PROVE  InRam' /\ InFlash'
<1>1. LoadState(saved)' = LoadState(saved) /\ Ended' = Ended
  BY DEF LoadState, Ended
<1>2. QED
  BY <1>1 DEF Accounted, InRam, InFlash, Entries

LEMMA AccountedStep ==
  ASSUME TypeOK, RingClosed, Durable, Accounted, [Next]_vars
  PROVE  Accounted'
<1> SUFFICES ASSUME ReliableState
             PROVE  InRam' /\ InFlash'
  BY DEF Accounted, ReliableState
<1>1. CASE Dispatcher
  <2>1. CASE UploadWrite
    BY <2>1, WriteAccounted
  <2>2. CASE UploadSave
    BY <2>2, SavedAccounted DEF UploadSave, history
  <2>3. CASE UploadEvent \/ UploadLock \/ UploadWriteFails \/ Connected \/ Disconnected
    BY <2>3, StillAccounted DEF UploadEvent, UploadLock, UploadWriteFails, Connected,
                                Disconnected, flash, pcs, history
  <2>4. QED
    BY <1>1, <2>1, <2>2, <2>3 DEF Dispatcher
<1>2. CASE WorkQueue
  <2>1. CASE WorkReplay \/ WorkDrop
    BY <2>1, BatchAccounted
  <2>2. CASE WorkSave
    BY <2>2, SavedAccounted DEF WorkSave, history
  <2>3. CASE WorkStart \/ WorkLock \/ WorkBreak \/ WorkBatchDone \/ WorkTail
    BY <2>3, StillAccounted DEF WorkStart, WorkLock, WorkBreak, WorkBatchDone, WorkTail,
                                flash, history
  <2>4. QED
    BY <1>2, <2>1, <2>2, <2>3 DEF WorkQueue
<1>3. CASE Lifecycle
  <2>1. CASE StopSave
    BY <2>1, SavedAccounted DEF StopSave, history
  <2>2. CASE Lifecycle /\ ~StopSave
    BY <2>2, StillAccounted DEF Lifecycle, Start, StartNet, StopCancel, StopCancelled,
                                StopLock, StopDone, Shutdown, flash, pcs, history
  <2>3. QED
    BY <1>3, <2>1, <2>2
<1>4. CASE Clear
  <2>1. CASE ClearLock
    BY <2>1, ClearAccounted
  <2>2. CASE ClearSave
    BY <2>2, SavedAccounted DEF ClearSave, history
  <2>3. QED
    BY <1>4, <2>1, <2>2 DEF Clear
<1>5. CASE Environment
  BY <1>5, BootAccounted, SpoiltAccounted DEF Environment
<1>6. CASE UNCHANGED vars
  BY <1>6, StillAccounted DEF vars
<1>7. QED
  BY <1>1, <1>2, <1>3, <1>4, <1>5, <1>6 DEF Next

\* With state writes and loads succeeding, no entry that was written is lost
\* without a trace, wherever power is lost and however often.
THEOREM NothingSilentlyLost == Spec => []NoSilentLoss
<1>1. Init => Accounted
  BY DEF Init, Accounted, InRam, InFlash
<1>2. TypeOK /\ RingClosed /\ Durable /\ Accounted /\ [Next]_vars => Accounted'
  BY AccountedStep
<1>3. TypeOK /\ Accounted => NoSilentLoss
  BY RingEntries DEF Accounted, InRam, Ended, NoSilentLoss
<1>4. Init => Durable
  BY LoadSaved DEF Init, Durable
<1>5. TypeOK /\ LockHeld /\ Durable /\ [Next]_vars => Durable'
  BY DurableStep
<1>6. QED
  BY <1>1, <1>2, <1>3, <1>4, <1>5, TypeCorrect, MutexHeld, RingAlwaysClosed, PTL DEF Spec

-----------------------------------------------------------------------------
(* Replay after a power loss                                               *)

\* A live slot after a push or a commit was live before, no nearer to the read
\* position, and is neither the one written nor the one given up.
LEMMA PushBack ==
  ASSUME NEW r \in Ring, Closed(r), NEW p \in Slots, LiveAt(Push(r), p), p # r.head
  PROVE  /\ LiveAt(r, p) /\ Ahead(Push(r), p) <= Ahead(r, p)
         /\ Ahead(Push(r), p) = IF r.count < N THEN Ahead(r, p) ELSE Ahead(r, p) - 1
<1>1. /\ r.head \in 0 .. N - 1 /\ r.tail \in 0 .. N - 1 /\ r.count \in 0 .. N
      /\ r.head = IF r.tail + r.count < N THEN r.tail + r.count ELSE r.tail + r.count - N
      /\ p \in 0 .. N - 1
  <2>1. r.head \in 0 .. N - 1 /\ r.tail \in 0 .. N - 1 /\ r.count \in 0 .. N
    BY DEF Ring, Slots
  <2>2. QED
    BY <2>1, LiveSlotRange DEF Closed, Slots
<1>2. Ahead(r, p) \in 0 .. N - 1
  BY LiveSlotOfAhead
<1>3. CASE r.count < N
  <2>1. Push(r).tail = r.tail /\ Push(r).count = r.count + 1
    BY <1>1, <1>3, Sizes DEF Push
  <2>2. Ahead(Push(r), p) = Ahead(r, p)
    BY <2>1 DEF Ahead
  <2>3. Ahead(r, p) # r.count
    BY <1>1, <1>3, Sizes DEF Ahead
  <2>4. Ahead(r, p) < r.count + 1
    BY <2>1, <2>2 DEF LiveAt
  <2>5. Ahead(r, p) < r.count /\ Ahead(r, p) <= Ahead(r, p)
    BY <1>1, <1>2, <2>3, <2>4
  <2>6. QED
    BY <1>3, <2>2, <2>5 DEF LiveAt
<1>4. CASE ~(r.count < N)
  <2>1. r.count = N /\ Push(r).tail = Succ(r.tail)
    BY <1>1, <1>4, Sizes DEF Push
  <2>2. r.head = r.tail
    BY <1>1, <2>1, Sizes
  <2>3. Push(r).tail = IF r.tail + 1 = N THEN 0 ELSE r.tail + 1
    BY <1>1, <2>1, SuccRange DEF Slots
  <2>4. Ahead(Push(r), p) = Ahead(r, p) - 1
    <3>1. CASE r.tail + 1 = N
      <4>1. r.tail = N - 1 /\ Push(r).tail = 0
        BY <1>1, <2>3, <3>1, Sizes
      <4>2. p < r.tail
        BY <1>1, <2>2, <4>1, Sizes
      <4>3. Ahead(r, p) = p + 1 /\ Ahead(Push(r), p) = p
        BY <1>1, <4>1, <4>2, Sizes DEF Ahead
      <4>4. QED
        BY <1>1, <4>3
    <3>2. CASE r.tail + 1 # N
      BY <1>1, <2>2, <2>3, <3>2, Sizes DEF Ahead
    <3>3. QED
      BY <3>1, <3>2
  <2>5. QED
    BY <1>2, <2>1, <2>4, Sizes DEF LiveAt
<1>5. QED
  BY <1>3, <1>4

LEMMA CommitBack ==
  ASSUME NEW r \in Ring, r.count > 0, NEW p \in Slots, LiveAt(Commit(r), p)
  PROVE  /\ LiveAt(r, p) /\ p # r.tail /\ Ahead(Commit(r), p) <= Ahead(r, p)
         /\ Ahead(Commit(r), p) = Ahead(r, p) - 1
<1>1. /\ r.tail \in 0 .. N - 1 /\ r.count \in 1 .. N /\ p \in 0 .. N - 1
  BY DEF Ring, Slots
<1>2. Commit(r).tail = (IF r.tail + 1 = N THEN 0 ELSE r.tail + 1)
  BY <1>1, SuccRange DEF Commit, Slots
<1>3. Commit(r).count = r.count - 1
  BY <1>1 DEF Commit
<1>4. Ahead(r, p) \in 0 .. N - 1
  BY LiveSlotOfAhead
<1>5. p # r.tail
  <2> SUFFICES ASSUME p = r.tail
               PROVE  Ahead(Commit(r), p) = N - 1
    BY <1>1, <1>3, Sizes DEF LiveAt
  <2>1. CASE r.tail + 1 = N
    BY <1>1, <1>2, <2>1, Sizes DEF Ahead
  <2>2. CASE r.tail + 1 # N
    BY <1>1, <1>2, <2>2, Sizes DEF Ahead
  <2>3. QED
    BY <2>1, <2>2
<1>6. Ahead(Commit(r), p) = Ahead(r, p) - 1
  <2>1. CASE r.tail + 1 = N
    BY <1>1, <1>2, <1>5, <2>1, Sizes DEF Ahead
  <2>2. CASE r.tail + 1 # N
    BY <1>1, <1>2, <1>5, <2>2, Sizes DEF Ahead
  <2>3. QED
    BY <2>1, <2>2
<1>7. Ahead(r, p) - 1 < r.count - 1
  BY <1>3, <1>6 DEF LiveAt
<1>8. Ahead(r, p) < r.count /\ Ahead(r, p) - 1 <= Ahead(r, p)
  BY <1>1, <1>4, <1>7, Sizes
<1>9. QED
  BY <1>5, <1>6, <1>8 DEF LiveAt

\* No entry is in two slots, and only entries that were written are anywhere.
Distinct ==
  /\ \A p, q \in Slots : slot[p] \in Ids /\ slot[p] = slot[q] => p = q
  /\ \A p \in Slots : slot[p] \in Ids => slot[p] < nextId
  /\ \A e \in published : e < nextId

\* The entries of a ring that were handed to the bus are within one batch of
\* its read position.
Near(r) == \A p \in Slots : LiveAt(r, p) /\ slot[p] \in published => Ahead(r, p) < Batch

\* While a batch runs, flash is behind the ring by what the batch has taken out.
Behind ==
  work = "loop" =>
    /\ ring.tail = LiveSlot(LoadState(saved), iter)
    /\ ring.count + iter = LoadState(saved).count

OneBatch == ReliableState => Near(ring) /\ Near(LoadState(saved)) /\ Behind

LEMMA DistinctStep ==
  ASSUME TypeOK, Distinct, [Next]_vars
  PROVE  Distinct'
<1>1. /\ slot \in [Slots -> Ids \cup {Empty, Corrupt}] /\ nextId \in Nat
      /\ Corrupt \notin Ids /\ ring \in Ring
      /\ \A p \in Slots : slot[p] \in Ids => slot[p] \in Nat
      /\ \A e \in published : e \in Nat
  BY CacheAssumption DEF TypeOK, DataOK, Ids
<1>2. CASE UploadWrite
  <2>1. ring.head \in Slots /\ nextId' = nextId + 1
    BY <1>1, <1>2 DEF UploadWrite, Ring
  <2>2. \A p \in Slots : slot'[p] = IF p = ring.head THEN nextId ELSE slot[p]
    BY <1>1, <1>2, <2>1 DEF UploadWrite
  <2>3. published' = published
    BY <1>2 DEF UploadWrite
  <2>4. \A p \in Slots : slot[p] \in Ids => slot[p] # nextId
    BY <1>1 DEF Distinct
  <2>5. \A p, q \in Slots : slot'[p] \in Ids /\ slot'[p] = slot'[q] => p = q
    BY <2>2, <2>4 DEF Distinct
  <2>6. \A p \in Slots : slot'[p] \in Ids => slot'[p] < nextId'
    BY <1>1, <2>1, <2>2 DEF Distinct
  <2>7. \A e \in published' : e < nextId'
    BY <1>1, <2>1, <2>3 DEF Distinct
  <2>8. QED
    BY <2>5, <2>6, <2>7 DEF Distinct
<1>3. CASE WorkReplay
  <2>1. /\ ring.tail \in Slots /\ slot[ring.tail] \in Ids /\ UNCHANGED <<slot, nextId>>
        /\ published' = published \cup {slot[ring.tail]}
    BY <1>1, <1>3 DEF WorkReplay, Peeked, flash, Ring
  <2>2. QED
    BY <2>1 DEF Distinct
<1>4. CASE \E s \in Slots : SlotCorrupts(s)
  <2>1. PICK s \in Slots : SlotCorrupts(s)
    BY <1>4
  <2>2. UNCHANGED <<nextId, published>>
    BY <2>1 DEF SlotCorrupts
  <2>3. \A p \in Slots : slot'[p] \in Ids => slot'[p] = slot[p]
    BY <1>1, <2>1 DEF SlotCorrupts
  <2>4. QED
    BY <2>2, <2>3 DEF Distinct
<1>5. CASE UNCHANGED <<slot, nextId, published>>
  BY <1>5 DEF Distinct
<1>6. Next => \/ UploadWrite \/ WorkReplay \/ \E s \in Slots : SlotCorrupts(s)
              \/ UNCHANGED <<slot, nextId, published>>
  <2>1. Dispatcher => UploadWrite \/ UNCHANGED <<slot, nextId, published>>
    BY DEF Dispatcher, UploadEvent, UploadLock, UploadWriteFails, UploadSave, Connected,
           Disconnected, flash, history
  <2>2. WorkQueue => WorkReplay \/ UNCHANGED <<slot, nextId, published>>
    BY DEF WorkQueue, WorkStart, WorkLock, WorkDrop, WorkBreak, WorkBatchDone, WorkSave,
           WorkTail, flash, history
  <2>3. Lifecycle \/ Clear \/ PowerLoss => UNCHANGED <<slot, nextId, published>>
    BY DEF Lifecycle, Start, StartNet, StopCancel, StopCancelled, StopLock, StopSave,
           StopDone, Shutdown, Clear, ClearLock, ClearSave, PowerLoss, flash, history
  <2>4. QED
    BY <2>1, <2>2, <2>3 DEF Next, Environment
<1>7. QED
  BY <1>2, <1>3, <1>4, <1>5, <1>6 DEF vars

LEMMA NextLiveSlot ==
  ASSUME NEW r \in Ring, NEW i \in 0 .. N - 1
  PROVE  Succ(LiveSlot(r, i)) = LiveSlot(r, i + 1)
<1>1. i \in 0 .. N /\ i + 1 \in 0 .. N /\ r.tail \in 0 .. N - 1
  BY Sizes DEF Ring, Slots
<1>2. /\ LiveSlot(r, i) \in Slots
      /\ LiveSlot(r, i) = IF r.tail + i < N THEN r.tail + i ELSE r.tail + i - N
      /\ LiveSlot(r, i + 1) =
           IF r.tail + (i + 1) < N THEN r.tail + (i + 1) ELSE r.tail + (i + 1) - N
  BY <1>1, LiveSlotRange
<1>3. Succ(LiveSlot(r, i)) = IF LiveSlot(r, i) + 1 = N THEN 0 ELSE LiveSlot(r, i) + 1
  BY <1>2, SuccRange
<1>4. QED
  BY <1>1, <1>2, <1>3, Sizes

LEMMA LoadedRing == TypeOK => LoadState(saved) \in Ring
  BY LoadSaved, EmptyClosed DEF TypeOK, DataOK

LEMMA WriteOneBatch ==
  ASSUME TypeOK, LockHeld, RingClosed, Durable, Distinct, ReliableState, OneBatch, UploadWrite
  PROVE  Near(ring)' /\ Near(LoadState(saved))' /\ Behind'
<1>1. /\ ring \in Ring /\ Closed(ring) /\ slot \in [Slots -> Ids \cup {Empty, Corrupt}]
      /\ ring.head \in Slots /\ nextId \in Nat /\ \A e \in published : e \in Nat
  BY DEF TypeOK, DataOK, RingClosed, Ring, Ids
<1>2. /\ LoadState(saved) = ring /\ LoadState(saved)' = ring
      /\ ring' = Push(ring) /\ published' = published
  BY DEF UploadWrite, Durable, LoadState
<1>3. work' # "loop"
  BY DEF UploadWrite, LockHeld
<1>4. \A p \in Slots : slot'[p] = IF p = ring.head THEN nextId ELSE slot[p]
  BY <1>1 DEF UploadWrite
<1>5. nextId \notin published
  BY <1>1 DEF Distinct
<1>6. ASSUME NEW p \in Slots, LiveAt(ring, p), slot'[p] \in published
      PROVE  Ahead(ring, p) < Batch
  BY <1>4, <1>5, <1>6 DEF OneBatch, Near
<1>7. ASSUME NEW p \in Slots, LiveAt(Push(ring), p), slot'[p] \in published
      PROVE  Ahead(Push(ring), p) < Batch
  <2>1. p # ring.head
    BY <1>4, <1>5, <1>7
  <2>2. LiveAt(ring, p) /\ Ahead(Push(ring), p) <= Ahead(ring, p)
    BY <1>1, <1>7, <2>1, PushBack
  <2>3. Ahead(ring, p) < Batch
    BY <1>6, <1>7, <2>2
  <2>4. Ahead(ring, p) \in 0 .. N - 1 /\ Ahead(Push(ring), p) \in 0 .. N - 1
    BY <1>1, LiveSlotOfAhead, PushClosed
  <2>5. QED
    BY <2>2, <2>3, <2>4, Sizes
<1>8. QED
  BY <1>2, <1>3, <1>6, <1>7 DEF Near, LiveAt, Ahead, Behind

LEMMA BatchOneBatch ==
  ASSUME TypeOK, Distinct, ReliableState, OneBatch, WorkReplay \/ WorkDrop
  PROVE  Near(ring)' /\ Near(LoadState(saved))' /\ Behind'
<1> DEFINE L == LoadState(saved)
<1>1. /\ ring \in Ring /\ L \in Ring /\ ring.count > 0 /\ iter < Batch /\ work = "loop"
      /\ ring.count \in 0 .. N /\ iter \in 0 .. Batch /\ L.count \in 0 .. N
      /\ ring.tail \in Slots
  BY LoadedRing DEF TypeOK, DataOK, ControlOK, WorkReplay, WorkDrop, InBatch, Ring
<1>2. /\ ring.tail = LiveSlot(L, iter) /\ ring.count + iter = L.count
      /\ Near(ring) /\ Near(L)
  BY <1>1 DEF OneBatch, Behind
<1>3. /\ ring' = Commit(ring) /\ iter' = iter + 1 /\ UNCHANGED <<slot, work>> /\ L' = L
      /\ \A e \in published' : e \in published \/ (e \in Ids /\ e = slot[ring.tail])
  BY DEF WorkReplay, WorkDrop, flash, history, Peeked, LoadState
<1> HIDE DEF L
<1>4. iter \in 0 .. N - 1
  BY <1>1, <1>2, Sizes
<1>5. Ahead(L, ring.tail) = iter
  BY <1>1, <1>2, <1>4, AheadOfLiveSlot
<1>6. ASSUME NEW p \in Slots, slot[p] \in published', slot[p] \notin published
      PROVE  p = ring.tail
  BY <1>1, <1>3, <1>6 DEF Distinct
<1>7. ASSUME NEW p \in Slots, LiveAt(L, p), slot[p] \in published'
      PROVE  Ahead(L, p) < Batch
  BY <1>1, <1>2, <1>5, <1>6, <1>7 DEF Near
<1>8. ASSUME NEW p \in Slots, LiveAt(Commit(ring), p), slot[p] \in published'
      PROVE  Ahead(Commit(ring), p) < Batch
  <2>1. LiveAt(ring, p) /\ p # ring.tail /\ Ahead(Commit(ring), p) <= Ahead(ring, p)
    BY <1>1, <1>8, CommitBack
  <2>2. Ahead(ring, p) < Batch
    BY <1>2, <1>6, <1>8, <2>1 DEF Near
  <2>3. Ahead(ring, p) \in 0 .. N - 1 /\ Ahead(Commit(ring), p) \in 0 .. N - 1
    <3>1. Commit(ring) \in Ring
      BY <1>1, Sizes, SuccRange DEF Ring, Slots, Commit
    <3>2. QED
      BY <1>1, <3>1, LiveSlotOfAhead
  <2>4. QED
    BY <2>1, <2>2, <2>3, Sizes
<1>9. /\ Commit(ring).tail = LiveSlot(L, iter + 1)
      /\ Commit(ring).count + (iter + 1) = L.count
  <2>1. Commit(ring).tail = Succ(ring.tail) /\ Commit(ring).count = ring.count - 1
    BY <1>1 DEF Commit
  <2>2. Succ(ring.tail) = LiveSlot(L, iter + 1)
    BY <1>1, <1>2, <1>4, NextLiveSlot
  <2>3. (ring.count - 1) + (iter + 1) = L.count
    BY <1>1, <1>2
  <2>4. QED
    BY <2>1, <2>2, <2>3
<1>10. Near(ring)'
  BY <1>3, <1>8 DEF Near, LiveAt, Ahead
<1>11. Near(LoadState(saved))'
  BY <1>3, <1>7 DEF Near, LiveAt, Ahead, L
<1>12. Behind'
  BY <1>3, <1>9 DEF Behind, LiveSlot, L
<1>13. QED
  BY <1>10, <1>11, <1>12

\* A state write, or a boot, makes one of the two rings the other.
LEMMA SavedOneBatch ==
  ASSUME TypeOK, Distinct, ReliableState, OneBatch, SaveState, work' # "loop",
         UNCHANGED <<slot, ring, published>>
  PROVE  Near(ring)' /\ Near(LoadState(saved))' /\ Behind'
<1>1. LoadState(saved)' = ring
  BY LoadSaved DEF SaveState, ReliableState, TypeOK, DataOK, LoadState
<1>2. QED
  BY <1>1 DEF OneBatch, Near, LiveAt, Ahead, Behind

\* A batch starts, with the mutex, from the ring flash holds.
LEMMA StartOneBatch ==
  ASSUME TypeOK, Durable, ReliableState, OneBatch, WorkLock
  PROVE  Near(ring)' /\ Near(LoadState(saved))' /\ Behind'
<1>1. /\ LoadState(saved) = ring /\ LoadState(saved)' = ring
      /\ UNCHANGED <<slot, ring, published>> /\ iter' = 0
  BY DEF WorkLock, flash, history, Durable, LoadState
<1>2. LiveSlot(ring, 0) = ring.tail /\ ring.count + 0 = ring.count
  <2>1. ring \in Ring /\ 0 \in 0 .. N /\ ring.tail \in 0 .. N - 1 /\ ring.count \in 0 .. N
    BY Sizes DEF TypeOK, DataOK, Ring, Slots
  <2>2. QED
    BY <2>1, LiveSlotRange, Sizes
<1>3. Behind'
  BY <1>1, <1>2 DEF Behind, LiveSlot
<1>4. QED
  BY <1>1, <1>3 DEF OneBatch, Near, LiveAt, Ahead

LEMMA StillOneBatch ==
  ASSUME ReliableState, OneBatch, UNCHANGED <<slot, saved, ring, published>>,
         work' = "loop" => work = "loop" /\ iter' = iter
  PROVE  Near(ring)' /\ Near(LoadState(saved))' /\ Behind'
<1>1. LoadState(saved)' = LoadState(saved)
  BY DEF LoadState
<1>2. QED
  BY <1>1 DEF OneBatch, Near, LiveAt, Ahead, Behind, LiveSlot

\* A boot loads the record in flash; a clear empties the ring; a spoilt slot
\* holds no entry.
LEMMA RestOneBatch ==
  ASSUME TypeOK, LockHeld, ReliableState, OneBatch,
         PowerLoss \/ ClearLock \/ \E s \in Slots : SlotCorrupts(s)
  PROVE  Near(ring)' /\ Near(LoadState(saved))' /\ Behind'
<1>1. CASE PowerLoss
  <2>1. ring' = LoadState(saved) /\ UNCHANGED <<slot, saved, published>> /\ work' = "idle"
    BY <1>1 DEF PowerLoss, flash, ReliableState
  <2>2. LoadState(saved)' = LoadState(saved)
    BY <2>1 DEF LoadState
  <2>3. QED
    BY <2>1, <2>2 DEF OneBatch, Near, LiveAt, Ahead, Behind
<1>2. CASE ClearLock
  <2>1. ring' = EmptyRing /\ UNCHANGED <<slot, saved, published>> /\ work' # "loop"
    BY <1>2 DEF ClearLock, flash, LockHeld
  <2>2. LoadState(saved)' = LoadState(saved)
    BY <2>1 DEF LoadState
  <2>3. \A p \in Slots : ~LiveAt(EmptyRing, p)
    <3>1. \A p \in Slots : Ahead(EmptyRing, p) \in 0 .. N - 1
      BY EmptyClosed, LiveSlotOfAhead
    <3>2. EmptyRing.count = 0
      BY DEF EmptyRing
    <3>3. QED
      BY <3>1, <3>2, Sizes DEF LiveAt
  <2>4. Near(ring)'
    BY <2>1, <2>3 DEF Near, LiveAt, Ahead
  <2>5. QED
    BY <2>1, <2>2, <2>4 DEF OneBatch, Near, LiveAt, Ahead, Behind
<1>3. CASE \E s \in Slots : SlotCorrupts(s)
  <2>1. PICK s \in Slots : SlotCorrupts(s)
    BY <1>3
  <2>2. UNCHANGED <<saved, ring, published, work, iter>> /\ published \subseteq Ids
    BY <2>1 DEF SlotCorrupts, pcs, TypeOK, DataOK
  <2>3. \A p \in Slots : slot'[p] \in published => slot'[p] = slot[p]
    <3>1. Corrupt \notin Ids /\ DOMAIN slot = Slots
      BY CacheAssumption DEF TypeOK, DataOK, Ids
    <3>2. QED
      BY <2>1, <2>2, <3>1 DEF SlotCorrupts
  <2>4. LoadState(saved)' = LoadState(saved)
    BY <2>2 DEF LoadState
  <2>5. QED
    BY <2>2, <2>3, <2>4 DEF OneBatch, Near, LiveAt, Ahead, Behind, LiveSlot
<1>4. QED
  BY <1>1, <1>2, <1>3

LEMMA OneBatchStep ==
  ASSUME TypeOK, LockHeld, RingClosed, Durable, Distinct, OneBatch, [Next]_vars
  PROVE  OneBatch'
<1> SUFFICES ASSUME ReliableState
             PROVE  Near(ring)' /\ Near(LoadState(saved))' /\ Behind'
  BY DEF OneBatch, ReliableState
<1>1. CASE Dispatcher
  <2>1. CASE UploadWrite
    BY <2>1, WriteOneBatch
  <2>2. CASE UploadSave
    BY <2>2, SavedOneBatch DEF UploadSave, history, LockHeld
  <2>3. CASE UploadEvent \/ UploadLock \/ UploadWriteFails \/ Connected \/ Disconnected
    BY <2>3, StillOneBatch DEF UploadEvent, UploadLock, UploadWriteFails, Connected,
                               Disconnected, flash, pcs, history
  <2>4. QED
    BY <1>1, <2>1, <2>2, <2>3 DEF Dispatcher
<1>2. CASE WorkQueue
  <2>1. CASE WorkReplay \/ WorkDrop
    BY <2>1, BatchOneBatch
  <2>2. CASE WorkSave
    BY <2>2, SavedOneBatch DEF WorkSave, history
  <2>3. CASE WorkLock
    BY <2>3, StartOneBatch
  <2>4. CASE WorkStart \/ WorkBreak \/ WorkBatchDone \/ WorkTail
    BY <2>4, StillOneBatch DEF WorkStart, WorkBreak, WorkBatchDone, WorkTail, flash, history
  <2>5. QED
    BY <1>2, <2>1, <2>2, <2>3, <2>4 DEF WorkQueue
<1>3. CASE Lifecycle
  <2>1. CASE StopSave
    BY <2>1, SavedOneBatch DEF StopSave, history, LockHeld
  <2>2. CASE Lifecycle /\ ~StopSave
    BY <2>2, StillOneBatch DEF Lifecycle, Start, StartNet, StopCancel, StopCancelled,
                               StopLock, StopDone, Shutdown, flash, pcs, history
  <2>3. QED
    BY <1>3, <2>1, <2>2
<1>4. CASE ClearSave
  BY <1>4, SavedOneBatch DEF ClearSave, history, LockHeld
<1>5. CASE ClearLock \/ Environment
  BY <1>5, RestOneBatch DEF Environment
<1>6. CASE UNCHANGED vars
  BY <1>6, StillOneBatch DEF vars
<1>7. QED
  BY <1>1, <1>2, <1>3, <1>4, <1>5, <1>6 DEF Next, Clear

\* Entries handed to the bus that flash still calls live fit in one batch.
LEMMA NearIsBounded ==
  ASSUME TypeOK, OneBatch
  PROVE  BoundedReplayAgain
<1> SUFFICES ASSUME ReliableState, saved # NoState
             PROVE  Cardinality(Live(saved) \cap published) <= Batch
  BY DEF BoundedReplayAgain
<1> DEFINE Again == Live(saved) \cap published
           Offsets == {i \in 0 .. Batch - 1 : slot[LiveSlot(saved, i)] \in Again}
           Entry == [i \in Offsets |-> slot[LiveSlot(saved, i)]]
<1>1. saved \in Ring /\ Near(saved)
  BY LoadSaved DEF TypeOK, DataOK, OneBatch
<1>2. ASSUME NEW e \in Again
      PROVE  \E i \in Offsets : Entry[i] = e
  <2>1. e \in Entries(slot, saved) /\ e \in published
    BY <1>1, <1>2, LiveEntries DEF Live
  <2>2. PICK p \in Slots : LiveAt(saved, p) /\ slot[p] = e
    BY <2>1 DEF Entries
  <2>3. Ahead(saved, p) < Batch
    BY <1>1, <2>1, <2>2 DEF Near
  <2>4. Ahead(saved, p) \in 0 .. N - 1 /\ LiveSlot(saved, Ahead(saved, p)) = p
    BY <1>1, LiveSlotOfAhead
  <2>5. Ahead(saved, p) \in 0 .. Batch - 1
    BY <2>3, <2>4, Sizes
  <2>6. Ahead(saved, p) \in Offsets /\ Entry[Ahead(saved, p)] = e
    BY <1>2, <2>2, <2>4, <2>5
  <2>7. QED
    BY <2>6
<1>3. Entry \in Surjection(Offsets, Again)
  BY <1>2 DEF Surjection
<1>4. IsFiniteSet(0 .. Batch - 1) /\ Cardinality(0 .. Batch - 1) = Batch
  BY FS_Interval, Sizes
<1>5. IsFiniteSet(Offsets) /\ Cardinality(Offsets) <= Batch
  BY <1>4, FS_Subset
<1>6. IsFiniteSet(Again) /\ Cardinality(Again) <= Cardinality(Offsets)
  BY <1>3, <1>5, FS_Surjection
<1>7. Cardinality(Again) \in Nat /\ Cardinality(Offsets) \in Nat
  BY <1>5, <1>6, FS_CardinalityType
<1>8. QED
  BY <1>5, <1>6, <1>7, Sizes

\* With state writes and loads succeeding, a power loss makes the gateway replay
\* at most one batch of what it has already handed to the bus.
THEOREM ReplayAgainIsBounded == Spec => []BoundedReplayAgain
<1>1. Init => Distinct /\ OneBatch
  <2>1. Init => Distinct
    BY CacheAssumption DEF Init, Distinct, Ids
  <2>2. Init => OneBatch
    BY DEF Init, OneBatch, Near, Behind
  <2>3. QED
    BY <2>1, <2>2
<1>2. TypeOK /\ Distinct /\ [Next]_vars => Distinct'
  BY DistinctStep
<1>3. TypeOK /\ LockHeld /\ RingClosed /\ Durable /\ Distinct /\ OneBatch /\ [Next]_vars
        => OneBatch'
  BY OneBatchStep
<1>4. TypeOK /\ OneBatch => BoundedReplayAgain
  BY NearIsBounded
<1>5. Init => Durable
  BY LoadSaved DEF Init, Durable
<1>6. TypeOK /\ LockHeld /\ Durable /\ [Next]_vars => Durable'
  BY DurableStep
<1>7. QED
  BY <1>1, <1>2, <1>3, <1>4, <1>5, <1>6, TypeCorrect, MutexHeld, RingAlwaysClosed, PTL
     DEF Spec

-----------------------------------------------------------------------------
(* The live entries as a queue                                             *)

Contents == Ids \cup {Empty, Corrupt}

Queue(s, r) == [i \in 1 .. r.count |-> s[LiveSlot(r, i - 1)]]

LEMMA QueueType ==
  ASSUME NEW s \in [Slots -> Contents], NEW r \in Ring
  PROVE  /\ Queue(s, r) \in Seq(Contents) /\ Len(Queue(s, r)) = r.count /\ r.count \in 0 .. N
         /\ \A i \in 1 .. r.count : Queue(s, r)[i] = s[LiveSlot(r, i - 1)]
<1>1. r.count \in 0 .. N /\ r.count \in Nat
  BY Sizes DEF Ring
<1>2. ASSUME NEW i \in 1 .. r.count
      PROVE  s[LiveSlot(r, i - 1)] \in Contents
  <2>1. i - 1 \in 0 .. N
    BY <1>1, Sizes
  <2>2. QED
    BY <2>1, LiveSlotRange
<1>3. Queue(s, r) \in [1 .. r.count -> Contents]
  BY <1>2 DEF Queue
<1>4. Queue(s, r) \in Seq(Contents) /\ Len(Queue(s, r)) = r.count
  BY <1>1, <1>3
<1>5. QED
  BY <1>1, <1>4 DEF Queue

LEMMA ShiftLiveSlot ==
  ASSUME NEW r \in Ring, NEW q \in Ring, q.tail = Succ(r.tail), NEW i \in 0 .. N - 1
  PROVE  LiveSlot(q, i) = LiveSlot(r, i + 1)
<1>1. r.tail \in 0 .. N - 1 /\ i \in 0 .. N /\ i + 1 \in 0 .. N
  BY Sizes DEF Ring, Slots
<1>2. q.tail = IF r.tail + 1 = N THEN 0 ELSE r.tail + 1
  BY <1>1, SuccRange DEF Slots
<1>3. /\ LiveSlot(q, i) = IF q.tail + i < N THEN q.tail + i ELSE q.tail + i - N
      /\ LiveSlot(r, i + 1) =
           IF r.tail + (i + 1) < N THEN r.tail + (i + 1) ELSE r.tail + (i + 1) - N
  BY <1>1, LiveSlotRange
<1>4. QED
  BY <1>1, <1>2, <1>3, Sizes

\* A write appends its entry; a full queue gives up its head first.
LEMMA PushQueue ==
  ASSUME NEW s \in [Slots -> Contents], NEW r \in Ring, Closed(r), NEW x \in Contents
  PROVE  Queue([s EXCEPT ![r.head] = x], Push(r)) =
           Append(IF Len(Queue(s, r)) = N THEN Tail(Queue(s, r)) ELSE Queue(s, r), x)
<1> DEFINE t == [s EXCEPT ![r.head] = x]
           q == Queue(s, r)
           w == Queue(t, Push(r))
<1>1. /\ r.head \in Slots /\ r.tail \in Slots /\ r.count \in 0 .. N
      /\ r.head = LiveSlot(r, r.count) /\ Push(r) \in Ring
  BY PushClosed DEF Ring, Closed
<1>2. t \in [Slots -> Contents] /\ t[r.head] = x /\ \A p \in Slots : p # r.head => t[p] = s[p]
  BY <1>1
<1>3. /\ q \in Seq(Contents) /\ Len(q) = r.count
      /\ \A i \in 1 .. r.count : q[i] = s[LiveSlot(r, i - 1)]
  BY QueueType
<1>4. /\ w \in Seq(Contents) /\ Len(w) = Push(r).count
      /\ \A i \in 1 .. Push(r).count : w[i] = t[LiveSlot(Push(r), i - 1)]
  BY <1>1, <1>2, QueueType
<1> HIDE DEF t, q, w
<1>5. CASE r.count < N
  <2>1. Push(r).tail = r.tail /\ Push(r).count = r.count + 1
    BY <1>1, <1>5, Sizes DEF Push
  <2>2. ASSUME NEW i \in 1 .. r.count PROVE w[i] = q[i]
    <3>1. /\ i - 1 \in 0 .. N - 1 /\ i - 1 \in 0 .. N /\ i \in 1 .. Push(r).count
          /\ i - 1 < r.count
      BY <1>1, <2>1, Sizes
    <3>2. LiveSlot(Push(r), i - 1) = LiveSlot(r, i - 1)
      BY <2>1 DEF LiveSlot
    <3>3. LiveAt(r, LiveSlot(r, i - 1)) /\ LiveSlot(r, i - 1) \in Slots
      BY <3>1, AheadOfLiveSlot, LiveSlotRange DEF LiveAt
    <3>4. LiveSlot(r, i - 1) # r.head
      <4>1. ~(r.count >= N)
        BY <1>1, <1>5, Sizes
      <4>2. ~LiveAt(r, r.head)
        BY <4>1, PushLive
      <4>3. QED
        BY <3>3, <4>2
    <3>5. w[i] = t[LiveSlot(r, i - 1)]
      BY <1>4, <3>1, <3>2
    <3>6. t[LiveSlot(r, i - 1)] = s[LiveSlot(r, i - 1)]
      BY <1>2, <3>3, <3>4
    <3>7. QED
      BY <1>3, <3>5, <3>6
  <2>3. w[r.count + 1] = x
    <3>1. r.count + 1 \in 1 .. Push(r).count /\ (r.count + 1) - 1 = r.count
      BY <1>1, <2>1
    <3>2. LiveSlot(Push(r), r.count) = r.head
      BY <1>1, <2>1 DEF LiveSlot
    <3>3. QED
      BY <1>2, <1>4, <3>1, <3>2
  <2>4. /\ Append(q, x) \in Seq(Contents) /\ Len(Append(q, x)) = r.count + 1
        /\ \A i \in 1 .. r.count : Append(q, x)[i] = q[i]
        /\ Append(q, x)[r.count + 1] = x
    BY <1>3, AppendProperties
  <2>5. \A i \in 1 .. r.count + 1 : i \in 1 .. r.count \/ i = r.count + 1
    BY <1>1
  <2>6. Len(w) = Len(Append(q, x)) /\ \A i \in 1 .. Len(w) : w[i] = Append(q, x)[i]
    BY <1>4, <2>1, <2>2, <2>3, <2>4, <2>5
  <2>7. w = Append(q, x)
    BY <1>4, <2>4, <2>6, SeqEqual
  <2>8. Len(q) # N
    BY <1>1, <1>3, <1>5, Sizes
  <2>9. QED
    BY <2>7, <2>8 DEF t, q, w
<1>6. CASE ~(r.count < N)
  <2>1. r.count = N /\ Push(r).tail = Succ(r.tail) /\ Push(r).count = N
    BY <1>1, <1>6, Sizes DEF Push
  <2>2. LiveSlot(r, 0) = r.head /\ LiveSlot(r, N) = r.head
    <3>1. /\ LiveSlot(r, 0) = IF r.tail + 0 < N THEN r.tail + 0 ELSE r.tail + 0 - N
          /\ LiveSlot(r, N) = IF r.tail + N < N THEN r.tail + N ELSE r.tail + N - N
      BY LiveSlotRange, Sizes
    <3>2. r.tail \in 0 .. N - 1
      BY <1>1 DEF Slots
    <3>3. QED
      BY <1>1, <2>1, <3>1, <3>2, Sizes
  <2>3. q # <<>>
    BY <1>3, <2>1, Sizes
  <2>4. /\ Tail(q) \in Seq(Contents) /\ Len(Tail(q)) = N - 1
        /\ \A i \in 1 .. N - 1 : Tail(q)[i] = q[i + 1]
    BY <1>3, <2>1, <2>3, HeadTailProperties
  <2>5. ASSUME NEW i \in 1 .. N - 1 PROVE w[i] = Tail(q)[i]
    <3>1. /\ i - 1 \in 0 .. N - 1 /\ i \in 0 .. N - 1 /\ 0 \in 0 .. N - 1 /\ i \in 0 .. N
          /\ i \in 1 .. N /\ i + 1 \in 1 .. N /\ (i - 1) + 1 = i /\ (i + 1) - 1 = i /\ i # 0
      BY Sizes
    <3>2. LiveSlot(Push(r), i - 1) = LiveSlot(r, i)
      BY <1>1, <2>1, <3>1, ShiftLiveSlot
    <3>3. LiveSlot(r, i) \in Slots /\ LiveSlot(r, i) # r.head
      BY <2>2, <3>1, AheadOfLiveSlot, LiveSlotRange
    <3>4. w[i] = t[LiveSlot(r, i)] /\ q[i + 1] = s[LiveSlot(r, i)]
      BY <1>3, <1>4, <2>1, <3>1, <3>2
    <3>5. QED
      BY <1>2, <2>4, <3>3, <3>4
  <2>6. w[N] = x
    <3>1. N \in 1 .. Push(r).count /\ N - 1 \in 0 .. N - 1 /\ (N - 1) + 1 = N
      BY <2>1, Sizes
    <3>2. LiveSlot(Push(r), N - 1) = r.head
      BY <1>1, <2>1, <2>2, <3>1, ShiftLiveSlot
    <3>3. QED
      BY <1>2, <1>4, <3>1, <3>2
  <2>7. /\ Append(Tail(q), x) \in Seq(Contents) /\ Len(Append(Tail(q), x)) = N
        /\ \A i \in 1 .. N - 1 : Append(Tail(q), x)[i] = Tail(q)[i]
        /\ Append(Tail(q), x)[N] = x
    <3>1. (N - 1) + 1 = N
      BY Sizes
    <3>2. QED
      BY <2>4, <3>1, AppendProperties
  <2>8. \A i \in 1 .. N : i \in 1 .. N - 1 \/ i = N
    BY Sizes
  <2>9. Len(w) = Len(Append(Tail(q), x)) /\ \A i \in 1 .. Len(w) : w[i] = Append(Tail(q), x)[i]
    BY <1>4, <2>1, <2>5, <2>6, <2>7, <2>8
  <2>10. w = Append(Tail(q), x)
    BY <1>4, <2>7, <2>9, SeqEqual
  <2>11. QED
    BY <1>3, <2>1, <2>10 DEF t, q, w
<1>7. QED
  BY <1>5, <1>6

\* A commit takes the head of the queue.
LEMMA CommitQueue ==
  ASSUME NEW s \in [Slots -> Contents], NEW r \in Ring, r.count > 0
  PROVE  /\ Queue(s, r) # <<>> /\ Head(Queue(s, r)) = s[r.tail]
         /\ Queue(s, Commit(r)) = Tail(Queue(s, r))
<1> DEFINE q == Queue(s, r)
           w == Queue(s, Commit(r))
<1>1. r.count \in 1 .. N /\ r.tail \in 0 .. N - 1
  BY DEF Ring, Slots
<1>2. /\ Commit(r).tail = Succ(r.tail) /\ Commit(r).count = r.count - 1
      /\ Commit(r) \in Ring
  BY <1>1, Sizes, SuccRange DEF Ring, Slots, Commit
<1>3. /\ q \in Seq(Contents) /\ Len(q) = r.count
      /\ \A i \in 1 .. r.count : q[i] = s[LiveSlot(r, i - 1)]
  BY QueueType
<1>4. /\ w \in Seq(Contents) /\ Len(w) = r.count - 1
      /\ \A i \in 1 .. r.count - 1 : w[i] = s[LiveSlot(Commit(r), i - 1)]
  BY <1>2, QueueType
<1> HIDE DEF q, w
<1>5. q # <<>>
  BY <1>1, <1>3
<1>6. /\ Tail(q) \in Seq(Contents) /\ Len(Tail(q)) = r.count - 1
      /\ \A i \in 1 .. r.count - 1 : Tail(q)[i] = q[i + 1]
  BY <1>3, <1>5, HeadTailProperties
<1>7. Head(q) = s[r.tail]
  <2>1. LiveSlot(r, 0) = IF r.tail + 0 < N THEN r.tail + 0 ELSE r.tail + 0 - N
    BY LiveSlotRange, Sizes
  <2>2. LiveSlot(r, 0) = r.tail /\ 1 \in 1 .. r.count /\ 1 - 1 = 0
    BY <1>1, <2>1, Sizes
  <2>3. q[1] = s[r.tail]
    BY <1>3, <2>2
  <2>4. QED
    BY <1>3, <1>5, <2>3
<1>8. ASSUME NEW i \in 1 .. r.count - 1 PROVE w[i] = Tail(q)[i]
  <2>1. /\ i - 1 \in 0 .. N - 1 /\ (i - 1) + 1 = i /\ i + 1 \in 1 .. r.count
        /\ (i + 1) - 1 = i
    BY <1>1, Sizes
  <2>2. LiveSlot(Commit(r), i - 1) = LiveSlot(r, i)
    BY <1>2, <2>1, ShiftLiveSlot
  <2>3. w[i] = s[LiveSlot(r, i)] /\ q[i + 1] = s[LiveSlot(r, i)]
    BY <1>3, <1>4, <2>1, <2>2
  <2>4. QED
    BY <1>6, <2>3
<1>9. w = Tail(q)
  BY <1>4, <1>6, <1>8, SeqEqual
<1>10. QED
  BY <1>5, <1>7, <1>9 DEF q, w

\* A spoilt slot changes the element that is in it, if one is.
LEMMA SpoilQueue ==
  ASSUME NEW s \in [Slots -> Contents], NEW r \in Ring, NEW p \in Slots, NEW c \in Contents
  PROVE  Queue([s EXCEPT ![p] = c], r) =
           IF LiveAt(r, p) THEN [Queue(s, r) EXCEPT ![Ahead(r, p) + 1] = c] ELSE Queue(s, r)
<1> DEFINE w == Queue([s EXCEPT ![p] = c], r)
<1>1. /\ Queue(s, r) = [i \in 1 .. r.count |-> s[LiveSlot(r, i - 1)]]
      /\ w = [i \in 1 .. r.count |-> [s EXCEPT ![p] = c][LiveSlot(r, i - 1)]]
  BY DEF Queue
<1>2. Ahead(r, p) \in 0 .. N - 1 /\ r.count \in 0 .. N
  BY LiveSlotOfAhead DEF Ring
<1>3. ASSUME NEW i \in 1 .. r.count
      PROVE  /\ LiveSlot(r, i - 1) \in Slots
             /\ LiveSlot(r, i - 1) = p <=> i = Ahead(r, p) + 1
             /\ i = Ahead(r, p) + 1 => LiveAt(r, p)
  <2>1. i - 1 \in 0 .. N - 1 /\ i - 1 \in 0 .. N /\ i - 1 < r.count /\ i \in Nat
    BY <1>2, Sizes
  <2>2. LiveSlot(r, i - 1) \in Slots /\ Ahead(r, LiveSlot(r, i - 1)) = i - 1
    BY <2>1, LiveSlotRange, AheadOfLiveSlot
  <2>3. LiveSlot(r, Ahead(r, p)) = p
    BY LiveSlotOfAhead
  <2>4. i - 1 = Ahead(r, p) <=> i = Ahead(r, p) + 1
    BY <1>2, <2>1
  <2>5. QED
    BY <2>1, <2>2, <2>3, <2>4 DEF LiveAt
<1>4. \A i \in 1 .. r.count : [s EXCEPT ![p] = c][LiveSlot(r, i - 1)] =
        IF i = Ahead(r, p) + 1 THEN c ELSE s[LiveSlot(r, i - 1)]
  BY <1>3
<1>5. CASE LiveAt(r, p)
  BY <1>1, <1>4, <1>5
<1>6. CASE ~LiveAt(r, p)
  BY <1>1, <1>3, <1>4, <1>6
<1>7. QED
  BY <1>5, <1>6

-----------------------------------------------------------------------------
(* The cache implements StoreForward                                       *)

\* Until power is lost, the live entries are in the order of their arrival and
\* all of them came after the ones handed on.
InOrder ==
  crashes = 0 =>
    /\ \A p, q \in Slots :
         /\ LiveAt(ring, p) /\ LiveAt(ring, q) /\ Ahead(ring, p) < Ahead(ring, q)
         /\ slot[p] \in Ids /\ slot[q] \in Ids
         => slot[p] < slot[q]
    /\ \A p \in Slots, e \in published : LiveAt(ring, p) /\ slot[p] \in Ids => e < slot[p]

\* The slot written is the last one.
LEMMA PushLast ==
  ASSUME NEW r \in Ring, Closed(r), NEW p \in Slots, LiveAt(Push(r), p)
  PROVE  ~(Ahead(Push(r), r.head) < Ahead(Push(r), p))
<1>1. Push(r) \in Ring /\ Closed(Push(r)) /\ r.head \in Slots /\ r.count \in 0 .. N
  BY PushClosed DEF Ring
<1>2. Push(r).count \in 1 .. N /\ Push(r).count - 1 \in 0 .. N - 1
      /\ (Push(r).count - 1) + 1 = Push(r).count
  <2>1. Push(r).count = IF r.count >= N THEN r.count ELSE r.count + 1
    BY DEF Push
  <2>2. QED
    BY <1>1, <2>1, Sizes
<1>3. Push(r).head = Succ(r.head) /\ Push(r).head = LiveSlot(Push(r), Push(r).count)
  <2>1. Push(r).head = Succ(r.head)
    BY DEF Push
  <2>2. QED
    BY <1>1, <2>1 DEF Closed
<1>4. Succ(LiveSlot(Push(r), Push(r).count - 1)) = Succ(r.head)
  BY <1>1, <1>2, <1>3, NextLiveSlot
<1>5. LiveSlot(Push(r), Push(r).count - 1) \in Slots
  <2>1. Push(r).count - 1 \in 0 .. N
    BY <1>2, Sizes
  <2>2. QED
    BY <1>1, <2>1, LiveSlotRange
<1>6. \A a, b \in Slots : Succ(a) = Succ(b) => a = b
  <2>1. \A a \in Slots : a \in 0 .. N - 1 /\ Succ(a) = IF a + 1 = N THEN 0 ELSE a + 1
    BY SuccRange DEF Slots
  <2>2. QED
    BY <2>1, Sizes
<1>7. LiveSlot(Push(r), Push(r).count - 1) = r.head
  BY <1>1, <1>4, <1>5, <1>6
<1>8. Ahead(Push(r), r.head) = Push(r).count - 1
  BY <1>1, <1>2, <1>7, AheadOfLiveSlot
<1>9. Ahead(Push(r), p) \in 0 .. N - 1 /\ Ahead(Push(r), p) < Push(r).count
  BY <1>1, LiveSlotOfAhead DEF LiveAt
<1>10. QED
  BY <1>2, <1>8, <1>9

LEMMA WriteInOrder ==
  ASSUME TypeOK, RingClosed, Distinct, InOrder, UploadWrite
  PROVE  InOrder'
<1>1. /\ ring \in Ring /\ Closed(ring) /\ slot \in [Slots -> Ids \cup {Empty, Corrupt}]
      /\ ring.head \in Slots /\ nextId \in Nat /\ Push(ring) \in Ring
      /\ \A p \in Slots : slot[p] \in Ids => slot[p] \in Nat
  BY PushClosed DEF TypeOK, DataOK, RingClosed, Ring, Ids
<1>2. ring' = Push(ring) /\ published' = published /\ crashes' = crashes
  BY DEF UploadWrite
<1>3. \A p \in Slots : slot'[p] = IF p = ring.head THEN nextId ELSE slot[p]
  BY <1>1 DEF UploadWrite
<1>4. \A p \in Slots : Ahead(ring, p) \in 0 .. N - 1 /\ Ahead(Push(ring), p) \in 0 .. N - 1
  BY <1>1, LiveSlotOfAhead
<1>5. SUFFICES ASSUME crashes = 0
               PROVE  /\ \A p, q \in Slots :
                           /\ LiveAt(Push(ring), p) /\ LiveAt(Push(ring), q)
                           /\ Ahead(Push(ring), p) < Ahead(Push(ring), q)
                           /\ slot'[p] \in Ids /\ slot'[q] \in Ids
                           => slot'[p] < slot'[q]
                      /\ \A p \in Slots, e \in published :
                           LiveAt(Push(ring), p) /\ slot'[p] \in Ids => e < slot'[p]
  BY <1>2 DEF InOrder, LiveAt, Ahead
<1>6. ASSUME NEW p \in Slots, NEW q \in Slots, LiveAt(Push(ring), p), LiveAt(Push(ring), q),
             Ahead(Push(ring), p) < Ahead(Push(ring), q), slot'[p] \in Ids, slot'[q] \in Ids
      PROVE  slot'[p] < slot'[q]
  <2>1. p # ring.head
    BY <1>1, <1>6, PushLast
  <2>2. slot'[p] = slot[p] /\ slot[p] < nextId
    BY <1>3, <1>6, <2>1 DEF Distinct
  <2>3. CASE q = ring.head
    BY <1>3, <2>2, <2>3
  <2>4. CASE q # ring.head
    <3>1. /\ LiveAt(ring, p) /\ LiveAt(ring, q)
          /\ Ahead(Push(ring), p) = (IF ring.count < N THEN Ahead(ring, p) ELSE Ahead(ring, p) - 1)
          /\ Ahead(Push(ring), q) = (IF ring.count < N THEN Ahead(ring, q) ELSE Ahead(ring, q) - 1)
      BY <1>1, <1>6, <2>1, <2>4, PushBack
    <3>2. Ahead(ring, p) < Ahead(ring, q)
      BY <1>4, <1>6, <3>1
    <3>3. slot'[q] = slot[q]
      BY <1>3, <2>4
    <3>4. QED
      BY <1>5, <1>6, <2>2, <3>1, <3>2, <3>3 DEF InOrder
  <2>5. QED
    BY <2>3, <2>4
<1>7. ASSUME NEW p \in Slots, NEW e \in published, LiveAt(Push(ring), p), slot'[p] \in Ids
      PROVE  e < slot'[p]
  <2>1. CASE p = ring.head
    BY <1>3, <2>1 DEF Distinct
  <2>2. CASE p # ring.head
    <3>1. LiveAt(ring, p)
      BY <1>1, <1>7, <2>2, PushBack
    <3>2. QED
      BY <1>3, <1>5, <1>7, <2>2, <3>1 DEF InOrder
  <2>3. QED
    BY <2>1, <2>2
<1>8. QED
  BY <1>6, <1>7

LEMMA BatchInOrder ==
  ASSUME TypeOK, InOrder, WorkReplay \/ WorkDrop
  PROVE  InOrder'
<1>1. ring \in Ring /\ ring.count > 0 /\ ring.tail \in Slots /\ ring.count \in 0 .. N
  BY DEF TypeOK, DataOK, WorkReplay, WorkDrop, InBatch, Ring
<1>2. /\ ring' = Commit(ring) /\ slot' = slot /\ crashes' = crashes
      /\ \A e \in published' : e \in published \/ (e \in Ids /\ e = slot[ring.tail])
  BY DEF WorkReplay, WorkDrop, flash, history, Peeked
<1>3. \A p \in Slots : Ahead(ring, p) \in 0 .. N - 1
  BY <1>1, LiveSlotOfAhead
<1>4. ASSUME NEW p \in Slots, LiveAt(Commit(ring), p)
      PROVE  /\ LiveAt(ring, p) /\ p # ring.tail
             /\ Ahead(Commit(ring), p) = Ahead(ring, p) - 1
  BY <1>1, <1>4, CommitBack
<1>5. SUFFICES ASSUME crashes = 0
               PROVE  /\ \A p, q \in Slots :
                           /\ LiveAt(Commit(ring), p) /\ LiveAt(Commit(ring), q)
                           /\ Ahead(Commit(ring), p) < Ahead(Commit(ring), q)
                           /\ slot[p] \in Ids /\ slot[q] \in Ids
                           => slot[p] < slot[q]
                      /\ \A p \in Slots, e \in published' :
                           LiveAt(Commit(ring), p) /\ slot[p] \in Ids => e < slot[p]
  BY <1>2 DEF InOrder, LiveAt, Ahead
<1>6. ASSUME NEW p \in Slots, NEW q \in Slots, LiveAt(Commit(ring), p), LiveAt(Commit(ring), q),
             Ahead(Commit(ring), p) < Ahead(Commit(ring), q), slot[p] \in Ids, slot[q] \in Ids
      PROVE  slot[p] < slot[q]
  <2>1. Ahead(ring, p) < Ahead(ring, q)
    BY <1>3, <1>4, <1>6
  <2>2. QED
    BY <1>4, <1>5, <1>6, <2>1 DEF InOrder
<1>7. ASSUME NEW p \in Slots, NEW e \in published', LiveAt(Commit(ring), p), slot[p] \in Ids
      PROVE  e < slot[p]
  <2>1. CASE e \in published
    BY <1>4, <1>5, <1>7, <2>1 DEF InOrder
  <2>2. CASE e \in Ids /\ e = slot[ring.tail]
    <3>1. Ahead(ring, ring.tail) = 0
      <4>1. ring.tail \in 0 .. N - 1
        BY <1>1 DEF Slots
      <4>2. QED
        BY <4>1, Sizes DEF Ahead
    <3>2. Ahead(ring, p) # 0
      <4>1. /\ LiveSlot(ring, Ahead(ring, p)) = p
            /\ LiveSlot(ring, Ahead(ring, ring.tail)) = ring.tail
        BY <1>1, LiveSlotOfAhead
      <4>2. QED
        BY <1>4, <1>7, <3>1, <4>1
    <3>3. LiveAt(ring, ring.tail) /\ Ahead(ring, ring.tail) < Ahead(ring, p)
      BY <1>1, <1>3, <3>1, <3>2 DEF LiveAt
    <3>4. QED
      BY <1>1, <1>4, <1>5, <1>7, <2>2, <3>3 DEF InOrder
  <2>3. QED
    BY <1>2, <2>1, <2>2
<1>8. QED
  BY <1>6, <1>7

LEMMA InOrderStep ==
  ASSUME TypeOK, RingClosed, Distinct, InOrder, [Next]_vars
  PROVE  InOrder'
<1>1. CASE UploadWrite
  BY <1>1, WriteInOrder
<1>2. CASE WorkReplay \/ WorkDrop
  BY <1>2, BatchInOrder
<1>3. CASE UNCHANGED <<slot, ring, published, crashes>>
  BY <1>3 DEF InOrder, LiveAt, Ahead
<1>4. CASE PowerLoss
  BY <1>4 DEF PowerLoss, InOrder, TypeOK, DataOK
<1>5. CASE ClearLock
  <2>1. \A p \in Slots : ~LiveAt(EmptyRing, p)
    <3>1. \A p \in Slots : Ahead(EmptyRing, p) \in 0 .. N - 1
      BY EmptyClosed, LiveSlotOfAhead
    <3>2. EmptyRing.count = 0
      BY DEF EmptyRing
    <3>3. QED
      BY <3>1, <3>2, Sizes DEF LiveAt
  <2>2. \A p \in Slots : ~LiveAt(ring, p)'
    BY <1>5, <2>1 DEF ClearLock, LiveAt, Ahead
  <2>3. QED
    BY <2>2 DEF InOrder
<1>6. CASE \E s \in Slots : SlotCorrupts(s)
  <2>1. PICK s \in Slots : SlotCorrupts(s)
    BY <1>6
  <2>2. UNCHANGED <<ring, published, crashes>>
    BY <2>1 DEF SlotCorrupts
  <2>3. \A p \in Slots : slot'[p] \in Ids => slot'[p] = slot[p]
    <3>1. Corrupt \notin Ids /\ DOMAIN slot = Slots
      BY CacheAssumption DEF TypeOK, DataOK, Ids
    <3>2. QED
      BY <2>1, <3>1 DEF SlotCorrupts
  <2>4. QED
    BY <2>2, <2>3 DEF InOrder, LiveAt, Ahead
<1>7. Next => \/ UploadWrite \/ WorkReplay \/ WorkDrop \/ PowerLoss \/ ClearLock
              \/ \E s \in Slots : SlotCorrupts(s)
              \/ UNCHANGED <<slot, ring, published, crashes>>
  <2>1. Dispatcher => UploadWrite \/ UNCHANGED <<slot, ring, published, crashes>>
    BY DEF Dispatcher, UploadEvent, UploadLock, UploadWriteFails, UploadSave, Connected,
           Disconnected, flash, history
  <2>2. WorkQueue => WorkReplay \/ WorkDrop \/ UNCHANGED <<slot, ring, published, crashes>>
    BY DEF WorkQueue, WorkStart, WorkLock, WorkBreak, WorkBatchDone, WorkSave,
           WorkTail, flash, history
  <2>3. Lifecycle \/ ClearSave => UNCHANGED <<slot, ring, published, crashes>>
    BY DEF Lifecycle, Start, StartNet, StopCancel, StopCancelled, StopLock, StopSave,
           StopDone, Shutdown, ClearSave, flash, history
  <2>4. QED
    BY <2>1, <2>2, <2>3 DEF Next, Environment, Clear
<1>8. QED
  BY <1>1, <1>2, <1>3, <1>4, <1>5, <1>6, <1>7 DEF vars

LEMMA WaitingIsQueue == Waiting = Queue(slot, ring)
  BY DEF Waiting, Queue

LEMMA AcceptStep ==
  ASSUME TypeOK, RingClosed, UploadWrite
  PROVE  Fifo!Accept
<1>1. /\ slot \in [Slots -> Contents] /\ ring \in Ring /\ Closed(ring) /\ nextId \in Contents
      /\ nextId \in Nat /\ nextId # 0
  BY DEF TypeOK, DataOK, RingClosed, Contents, Ids
<1>2. /\ slot' = [slot EXCEPT ![ring.head] = nextId] /\ ring' = Push(ring)
      /\ nextId' = nextId + 1 /\ published' = published
  BY DEF UploadWrite
<1>3. Queue(slot', ring') =
        Append(IF Len(Queue(slot, ring)) = N THEN Tail(Queue(slot, ring))
               ELSE Queue(slot, ring), nextId)
  BY <1>1, <1>2, PushQueue
<1>4. Waiting' = Queue(slot', ring')
  BY DEF Waiting, Queue
<1>5. nextId' - 1 = (nextId - 1) + 1 /\ (nextId - 1) + 1 = nextId
  BY <1>1, <1>2
<1>6. QED
  BY <1>2, <1>3, <1>4, <1>5, WaitingIsQueue DEF Fifo!Accept

LEMMA ForwardStep ==
  ASSUME TypeOK, InOrder, crashes = 0, WorkReplay
  PROVE  Fifo!Forward
<1>1. slot \in [Slots -> Contents] /\ ring \in Ring /\ ring.count > 0
  BY DEF TypeOK, DataOK, Contents, WorkReplay, InBatch
<1>2. /\ slot' = slot /\ ring' = Commit(ring) /\ nextId' = nextId
      /\ published' = published \cup {slot[ring.tail]} /\ slot[ring.tail] \in Ids
  BY DEF WorkReplay, flash, Peeked
<1>3. /\ Queue(slot, ring) # <<>> /\ Head(Queue(slot, ring)) = slot[ring.tail]
      /\ Queue(slot', ring') = Tail(Queue(slot, ring))
  BY <1>1, <1>2, CommitQueue
<1>4. Waiting' = Queue(slot', ring')
  BY DEF Waiting, Queue
<1>5. slot[ring.tail] # Corrupt
  BY <1>2, CacheAssumption DEF Ids
<1>6. \A e \in published : e < slot[ring.tail]
  <2>1. ring.tail \in 0 .. N - 1 /\ ring.tail \in Slots /\ ring.count \in 0 .. N
    BY <1>1 DEF Ring, Slots
  <2>2. Ahead(ring, ring.tail) = 0
    BY <2>1, Sizes DEF Ahead
  <2>3. LiveAt(ring, ring.tail)
    BY <1>1, <2>1, <2>2 DEF LiveAt
  <2>4. QED
    BY <1>2, <2>1, <2>3 DEF InOrder
<1>7. QED
  BY <1>2, <1>3, <1>4, <1>5, <1>6, WaitingIsQueue DEF Fifo!Forward

LEMMA DiscardStep ==
  ASSUME TypeOK, WorkDrop
  PROVE  Fifo!Discard
<1>1. slot \in [Slots -> Contents] /\ ring \in Ring /\ ring.count > 0
  BY DEF TypeOK, DataOK, Contents, WorkDrop, InBatch
<1>2. /\ slot' = slot /\ ring' = Commit(ring) /\ nextId' = nextId
      /\ published' = published /\ slot[ring.tail] = Corrupt
  BY DEF WorkDrop, flash, history, Peeked
<1>3. /\ Queue(slot, ring) # <<>> /\ Head(Queue(slot, ring)) = slot[ring.tail]
      /\ Queue(slot', ring') = Tail(Queue(slot, ring))
  BY <1>1, <1>2, CommitQueue
<1>4. Waiting' = Queue(slot', ring')
  BY DEF Waiting, Queue
<1>5. QED
  BY <1>2, <1>3, <1>4, WaitingIsQueue DEF Fifo!Discard

LEMMA ClearStep ==
  ASSUME ClearLock
  PROVE  Fifo!Clear
<1>1. ring'.count = 0 /\ nextId' = nextId /\ published' = published
  BY DEF ClearLock, EmptyRing
<1>2. Waiting' = [i \in 1 .. 0 |-> slot'[LiveSlot(ring', i - 1)]]
  BY <1>1 DEF Waiting
<1>3. Waiting' = <<>>
  BY <1>2
<1>4. QED
  BY <1>1, <1>3 DEF Fifo!Clear

LEMMA SpoilStep ==
  ASSUME TypeOK, NEW s \in Slots, SlotCorrupts(s)
  PROVE  (\E i \in 1 .. Len(Waiting) : Fifo!Spoil(i)) \/ UNCHANGED Fifo!vars
<1>1. slot \in [Slots -> Contents] /\ ring \in Ring /\ Corrupt \in Contents
  BY DEF TypeOK, DataOK, Contents
<1>2. /\ slot' = [slot EXCEPT ![s] = Corrupt] /\ UNCHANGED <<ring, nextId, published>>
  BY DEF SlotCorrupts
<1>3. Waiting' = IF LiveAt(ring, s)
                 THEN [Queue(slot, ring) EXCEPT ![Ahead(ring, s) + 1] = Corrupt]
                 ELSE Queue(slot, ring)
  <2>1. Waiting' = Queue(slot', ring)
    BY <1>2 DEF Waiting, Queue, LiveSlot
  <2>2. QED
    BY <2>1, <1>1, <1>2, SpoilQueue
<1>4. CASE LiveAt(ring, s)
  <2>1. /\ Ahead(ring, s) \in 0 .. N - 1 /\ ring.count \in 0 .. N
        /\ Len(Queue(slot, ring)) = ring.count /\ Ahead(ring, s) < ring.count
    BY <1>1, <1>4, LiveSlotOfAhead, QueueType DEF LiveAt
  <2>2. Ahead(ring, s) + 1 \in 1 .. Len(Queue(slot, ring))
    BY <2>1, Sizes
  <2>3. Fifo!Spoil(Ahead(ring, s) + 1)
    BY <1>2, <1>3, <1>4, WaitingIsQueue DEF Fifo!Spoil
  <2>4. QED
    BY <2>2, <2>3, WaitingIsQueue
<1>5. CASE ~LiveAt(ring, s)
  BY <1>2, <1>3, <1>5, WaitingIsQueue DEF Fifo!vars
<1>6. QED
  BY <1>4, <1>5

LEMMA FifoStep ==
  ASSUME TypeOK, RingClosed, InOrder, [Next]_vars, crashes' = 0
  PROVE  Fifo!Next \/ UNCHANGED Fifo!vars
<1>1. CASE UploadWrite
  BY <1>1, AcceptStep DEF Fifo!Next
<1>2. CASE WorkReplay
  <2>1. crashes = 0
    BY <1>2 DEF WorkReplay
  <2>2. QED
    BY <1>2, <2>1, ForwardStep DEF Fifo!Next
<1>3. CASE WorkDrop
  BY <1>3, DiscardStep DEF Fifo!Next
<1>4. CASE ClearLock
  BY <1>4, ClearStep DEF Fifo!Next
<1>5. CASE \E s \in Slots : SlotCorrupts(s)
  BY <1>5, SpoilStep DEF Fifo!Next
<1>6. CASE UNCHANGED <<slot, ring, nextId, published>>
  <2>1. Waiting' = Waiting
    BY <1>6 DEF Waiting, LiveSlot
  <2>2. QED
    BY <1>6, <2>1 DEF Fifo!vars
<1>7. ~PowerLoss
  BY DEF PowerLoss, TypeOK, DataOK
<1>8. Next => \/ UploadWrite \/ WorkReplay \/ WorkDrop \/ PowerLoss \/ ClearLock
              \/ \E s \in Slots : SlotCorrupts(s)
              \/ UNCHANGED <<slot, ring, nextId, published>>
  <2>1. Dispatcher => UploadWrite \/ UNCHANGED <<slot, ring, nextId, published>>
    BY DEF Dispatcher, UploadEvent, UploadLock, UploadWriteFails, UploadSave, Connected,
           Disconnected, flash, history
  <2>2. WorkQueue => WorkReplay \/ WorkDrop \/ UNCHANGED <<slot, ring, nextId, published>>
    BY DEF WorkQueue, WorkStart, WorkLock, WorkBreak, WorkBatchDone, WorkSave,
           WorkTail, flash, history
  <2>3. Lifecycle \/ ClearSave => UNCHANGED <<slot, ring, nextId, published>>
    BY DEF Lifecycle, Start, StartNet, StopCancel, StopCancelled, StopLock, StopSave,
           StopDone, Shutdown, ClearSave, flash, history
  <2>4. QED
    BY <2>1, <2>2, <2>3 DEF Next, Environment, Clear
<1>9. QED
  BY <1>1, <1>2, <1>3, <1>4, <1>5, <1>6, <1>7, <1>8 DEF vars

\* Until power is first lost, the ring in flash is the bounded FIFO StoreForward:
\* it accepts, hands on in order, discards and clears, and does nothing else.
THEOREM CacheIsFifo == Spec => ImplementsFifo
<1>1. Init => Fifo!Init
  <2>1. ASSUME Init PROVE Waiting = <<>> /\ nextId - 1 = 0 /\ published = {}
    <3>1. ring.count = 0
      BY <2>1 DEF Init, EmptyRing
    <3>2. Waiting = [i \in 1 .. 0 |-> slot[LiveSlot(ring, i - 1)]]
      BY <3>1 DEF Waiting
    <3>3. QED
      BY <2>1, <3>2 DEF Init
  <2>2. QED
    BY <2>1 DEF Fifo!Init
<1>2. Init => Distinct /\ InOrder
  <2>1. Init => Distinct
    BY CacheAssumption DEF Init, Distinct, Ids
  <2>2. Init => InOrder
    BY CacheAssumption DEF Init, InOrder, Ids
  <2>3. QED
    BY <2>1, <2>2
<1>3. TypeOK /\ Distinct /\ [Next]_vars => Distinct'
  BY DistinctStep
<1>4. TypeOK /\ RingClosed /\ Distinct /\ InOrder /\ [Next]_vars => InOrder'
  BY InOrderStep
<1>5. TypeOK /\ RingClosed /\ InOrder /\ [Next]_vars
        => [crashes' = 0 => Fifo!Next \/ UNCHANGED Fifo!vars]_vars
  BY FifoStep
<1>6. QED
  BY <1>1, <1>2, <1>3, <1>4, <1>5, TypeCorrect, RingAlwaysClosed, PTL DEF Spec, ImplementsFifo
=============================================================================
