---------------------------- MODULE OfflineCache ----------------------------
(***************************************************************************)
(* The offline cache (src/gateway/offline_cache.c): a ring of entries kept *)
(* in NVS flash, filled by CLOUD_UPLOAD events while the uplink is down    *)
(* and replayed in batches, by a delayable work item, once it is up.       *)
(*                                                                         *)
(* Four threads touch g_cache: the event dispatcher (offline_cache_on_     *)
(* event), the system work queue (cache_upload_work_handler), the thread   *)
(* that calls start/stop, and the shell (CACHE_CMD_CLEAR).  Each has a     *)
(* program counter; g_cache.lock is the mutex.  A nvs_write is one step,   *)
(* and power may be lost between any two of them.                          *)
(***************************************************************************)
EXTENDS Naturals, FiniteSets

CONSTANTS
  N,           \* CACHE_MAX_ENTRIES
  Batch,       \* CACHE_REPLAY_BATCH_LIMIT
  Faults,      \* which operations may fail, a subset of FaultKinds
  MaxId,       \* bound: entries the environment offers
  MaxCrashes,  \* bound: power losses
  Empty,       \* a slot never written
  Corrupt,     \* a slot whose stored length is not sizeof(cache_entry_t)
  NoState      \* no valid cache_state_t record in flash

FaultKinds == {"write", "save", "load", "read", "publish", "corrupt"}

ASSUME CacheAssumption ==
  /\ N \in Nat \ {0}
  /\ Batch \in Nat \ {0}
  /\ Faults \subseteq FaultKinds
  /\ MaxId \in Nat
  /\ MaxCrashes \in Nat
  /\ Empty \notin Nat /\ Corrupt \notin Nat /\ Empty # Corrupt
  /\ NoState \notin [head : Nat, tail : Nat, count : Nat]

VARIABLES
  \* flash: survives a power loss
  slot,        \* NVS ids 64..64+N-1, the entries; an entry is its arrival number
  saved,       \* NVS id 61, the last cache_state_t written
  \* g_cache, in RAM
  status,
  ring,        \* [head, tail, count]
  net,         \* net_connected
  lock,        \* the thread that holds g_cache.lock, or "free"
  armed,       \* upload_work is queued or its timer is running
  \* program counters
  disp,        \* dispatcher, inside cache_on_cloud_upload
  work,        \* work queue, inside cache_upload_work_handler
  iter,        \* the handler's loop counter
  life,        \* the thread that starts and stops the module
  ctl,         \* the thread that clears the cache
  \* history
  nextId,      \* arrival number of the next entry
  published,   \* entries handed to the event bus as CLOUD_REPLAY
  forgone,     \* entries given up by design: overwritten, cleared, corrupted
  crashes

flash   == <<slot, saved>>
pcs     == <<disp, work, iter, life, ctl>>
history == <<nextId, published, forgone, crashes>>
vars    == <<slot, saved, status, ring, net, lock, armed, disp, work, iter, life,
             ctl, nextId, published, forgone, crashes>>

Slots == 0 .. N - 1
Ids   == Nat \ {0}
Ring  == [head : Slots, tail : Slots, count : 0 .. N]

-----------------------------------------------------------------------------
(* The ring                                                                *)

Succ(i) == (i + 1) % N

EmptyRing == [head |-> 0, tail |-> 0, count |-> 0]

\* cache_write_entry after a complete nvs_write: a full ring gives up its oldest.
Push(r) ==
  [head  |-> Succ(r.head),
   tail  |-> IF r.count >= N THEN Succ(r.tail) ELSE r.tail,
   count |-> IF r.count >= N THEN r.count ELSE r.count + 1]

\* Mutant: the count is not taken down.
CommitKeepsCount(r) ==
  IF r.count = 0 THEN r
  ELSE [head |-> r.head, tail |-> Succ(r.tail), count |-> r.count]

\* cache_commit_entry
Commit(r) ==
  IF r.count = 0 THEN r
  ELSE [head |-> r.head, tail |-> Succ(r.tail), count |-> r.count - 1]

\* The slots the ring calls live, oldest first, and the entries in them.
LiveSlot(r, i) == (r.tail + i) % N
Live(r) == {slot[LiveSlot(r, i)] : i \in 0 .. r.count - 1} \cap Ids

\* cache_load_state: what the module starts from after a boot.
LoadState(s) ==
  IF s = NoState THEN EmptyRing
  ELSE IF s.head \notin Slots \/ s.tail \notin Slots \/ s.count > N THEN EmptyRing
  ELSE s

\* cache_save_state: the new state, or the old one when the write fails.
SaveState ==
  saved' \in {ring} \cup (IF "save" \in Faults THEN {saved} ELSE {})

-----------------------------------------------------------------------------
Init ==
  /\ slot = [s \in Slots |-> Empty] /\ saved = NoState
  /\ status = "INITIALIZED" /\ ring = EmptyRing /\ net = FALSE
  /\ lock = "free" /\ armed = FALSE
  /\ disp = "idle" /\ work = "idle" /\ iter = 0 /\ life = "idle" /\ ctl = "idle"
  /\ nextId = 1 /\ published = {} /\ forgone = {} /\ crashes = 0

-----------------------------------------------------------------------------
(* The dispatcher: a CLOUD_UPLOAD event, then the two link events          *)

\* While net_connected is set the event is ignored: nothing changes.
UploadEvent ==
  /\ disp = "idle" /\ status = "RUNNING" /\ ~net
  /\ nextId <= MaxId
  /\ disp' = "lock"
  /\ UNCHANGED <<flash, status, ring, net, lock, armed, work, iter, life, ctl, history>>

UploadLock ==
  /\ disp = "lock" /\ lock = "free"
  /\ lock' = "disp" /\ disp' = "write"
  /\ UNCHANGED <<flash, status, ring, net, armed, work, iter, life, ctl, history>>

UploadWrite ==
  /\ disp = "write"
  /\ slot' = [slot EXCEPT ![ring.head] = nextId]
  /\ ring' = Push(ring)
  /\ forgone' = forgone \cup
       (IF ring.count >= N THEN {slot[ring.tail]} \cap Ids ELSE {})
  /\ nextId' = nextId + 1
  /\ disp' = "save"
  /\ UNCHANGED <<saved, status, net, lock, armed, work, iter, life, ctl, published, crashes>>

UploadWriteFails ==
  /\ disp = "write" /\ "write" \in Faults
  /\ lock' = "free" /\ disp' = "idle"
  /\ UNCHANGED <<flash, status, ring, net, armed, work, iter, life, ctl, history>>

\* Mutant: the state record is left for the next batch or stop to write.
UploadUnsaved ==
  /\ disp = "save"
  /\ lock' = "free" /\ disp' = "idle"
  /\ UNCHANGED <<flash, status, ring, net, armed, work, iter, life, ctl, history>>

UploadSave ==
  /\ disp = "save"
  /\ SaveState
  /\ lock' = "free" /\ disp' = "idle"
  /\ UNCHANGED <<slot, status, ring, net, armed, work, iter, life, ctl, history>>

\* A work item being cancelled refuses an immediate resubmission (-EBUSY).
Cancelling == life = "wait"

\* Mutant: the link event does not submit the work item.
ConnectedUnarmed ==
  /\ disp = "idle" /\ status = "RUNNING"
  /\ net' = TRUE
  /\ UNCHANGED <<flash, status, ring, lock, armed, pcs, history>>

Connected ==
  /\ disp = "idle" /\ status = "RUNNING"
  /\ net' = TRUE
  /\ armed' = IF net THEN armed ELSE ~Cancelling
  /\ UNCHANGED <<flash, status, ring, lock, pcs, history>>

Disconnected ==
  /\ disp = "idle" /\ status = "RUNNING"
  /\ net' = FALSE
  /\ UNCHANGED <<flash, status, ring, lock, armed, pcs, history>>

-----------------------------------------------------------------------------
(* The work queue: one run of cache_upload_work_handler                    *)

WorkStart ==
  /\ work = "idle" /\ armed
  /\ armed' = FALSE
  /\ work' = IF status = "RUNNING" /\ net THEN "lock" ELSE "idle"
  /\ UNCHANGED <<flash, status, ring, net, lock, disp, iter, life, ctl, history>>

WorkLock ==
  /\ work = "lock" /\ lock = "free"
  /\ lock' = "work" /\ work' = "loop" /\ iter' = 0
  /\ UNCHANGED <<flash, status, ring, net, armed, disp, life, ctl, history>>

InBatch == work = "loop" /\ ring.count > 0 /\ iter < Batch

Peeked == slot[ring.tail]

\* Mutant: the published entry is not committed.
WorkReplayUncommitted ==
  /\ InBatch /\ Peeked \in Ids
  /\ published' = published \cup {Peeked}
  /\ iter' = iter + 1
  /\ UNCHANGED <<flash, status, ring, net, lock, armed, disp, work, life, ctl,
                 nextId, forgone, crashes>>

\* Peek, publish and commit: the entry leaves the ring once the bus has it.
WorkReplay ==
  /\ InBatch /\ Peeked \in Ids
  /\ published' = published \cup {Peeked}
  /\ ring' = Commit(ring)
  /\ iter' = iter + 1
  /\ UNCHANGED <<flash, status, net, lock, armed, disp, work, life, ctl,
                 nextId, forgone, crashes>>

\* -EBADMSG: the entry cannot be replayed and is dropped.
WorkDrop ==
  /\ InBatch /\ Peeked = Corrupt
  /\ ring' = Commit(ring)
  /\ iter' = iter + 1
  /\ UNCHANGED <<flash, status, net, lock, armed, disp, work, life, ctl, history>>

\* Mutant: an entry the bus refused is committed all the same.
WorkBreakCommits ==
  /\ InBatch
  /\ Peeked \in Ids /\ "publish" \in Faults
  /\ ring' = Commit(ring)
  /\ work' = "save"
  /\ UNCHANGED <<flash, status, net, lock, armed, disp, iter, life, ctl, history>>

\* The read fails, or the bus refuses the event: the batch ends, nothing commits.
WorkBreak ==
  /\ InBatch
  /\ \/ Peeked = Empty
     \/ "read" \in Faults
     \/ Peeked \in Ids /\ "publish" \in Faults
  /\ work' = "save"
  /\ UNCHANGED <<flash, status, ring, net, lock, armed, disp, iter, life, ctl, history>>

WorkBatchDone ==
  /\ work = "loop" /\ ~InBatch
  /\ work' = "save"
  /\ UNCHANGED <<flash, status, ring, net, lock, armed, disp, iter, life, ctl, history>>

\* Mutant: the batch leaves the state record to stop.
WorkUnsaved ==
  /\ work = "save"
  /\ lock' = "free" /\ work' = "tail"
  /\ UNCHANGED <<flash, status, ring, net, armed, disp, iter, life, ctl, history>>

WorkSave ==
  /\ work = "save"
  /\ SaveState
  /\ lock' = "free" /\ work' = "tail"
  /\ UNCHANGED <<slot, status, ring, net, armed, disp, iter, life, ctl, history>>

\* The count is read again without the lock.
WorkTail ==
  /\ work = "tail"
  /\ armed' = IF ring.count > 0 /\ net THEN TRUE ELSE armed
  /\ work' = "idle"
  /\ UNCHANGED <<flash, status, ring, net, lock, disp, iter, life, ctl, history>>

-----------------------------------------------------------------------------
(* Start, stop, shutdown and CACHE_CMD_CLEAR                               *)

Start ==
  /\ life = "idle" /\ status \in {"INITIALIZED", "STOPPED"}
  /\ status' = "RUNNING" /\ life' = "startNet"
  /\ UNCHANGED <<flash, ring, net, lock, armed, disp, work, iter, ctl, history>>

StartNet ==
  /\ life = "startNet"
  /\ net' = FALSE /\ life' = "idle"
  /\ UNCHANGED <<flash, status, ring, lock, armed, disp, work, iter, ctl, history>>

\* k_work_cancel_delayable_sync: unschedule, then wait for a run in progress.
StopCancel ==
  /\ life = "idle" /\ status = "RUNNING"
  /\ armed' = FALSE
  /\ life' = IF work = "idle" THEN "lock" ELSE "wait"
  /\ UNCHANGED <<flash, status, ring, net, lock, disp, work, iter, ctl, history>>

StopCancelled ==
  /\ life = "wait" /\ work = "idle"
  /\ life' = "lock"
  /\ UNCHANGED <<flash, status, ring, net, lock, armed, disp, work, iter, ctl, history>>

StopLock ==
  /\ life = "lock" /\ lock = "free"
  /\ lock' = "life" /\ life' = "save"
  /\ UNCHANGED <<flash, status, ring, net, armed, disp, work, iter, ctl, history>>

StopSave ==
  /\ life = "save"
  /\ SaveState
  /\ lock' = "free" /\ life' = "stopped"
  /\ UNCHANGED <<slot, status, ring, net, armed, disp, work, iter, ctl, history>>

StopDone ==
  /\ life = "stopped"
  /\ status' = "STOPPED" /\ life' = "idle"
  /\ UNCHANGED <<flash, ring, net, lock, armed, disp, work, iter, ctl, history>>

Shutdown ==
  /\ life = "idle" /\ status \in {"INITIALIZED", "STOPPED"}
  /\ status' = "UNINITIALIZED"
  /\ UNCHANGED <<flash, ring, net, lock, armed, pcs, history>>

ClearLock ==
  /\ ctl = "idle" /\ lock = "free"
  /\ lock' = "ctl" /\ ctl' = "save"
  /\ ring' = EmptyRing
  /\ forgone' = forgone \cup Live(ring)
  /\ UNCHANGED <<flash, status, net, armed, disp, work, iter, life, nextId, published, crashes>>

ClearSave ==
  /\ ctl = "save"
  /\ SaveState
  /\ lock' = "free" /\ ctl' = "idle"
  /\ UNCHANGED <<slot, status, ring, net, armed, disp, work, iter, life, history>>

-----------------------------------------------------------------------------
(* The environment                                                         *)

\* Flash decay, or a firmware whose cache_entry_t has another size.
SlotCorrupts(s) ==
  /\ "corrupt" \in Faults
  /\ slot[s] \in Ids
  /\ slot' = [slot EXCEPT ![s] = Corrupt]
  /\ forgone' = forgone \cup {slot[s]}
  /\ UNCHANGED <<saved, status, ring, net, lock, armed, pcs, nextId, published, crashes>>

\* Power loss and boot: offline_cache_init clears g_cache and loads the state.
\* An entry whose write had not returned to its caller is given up.
PowerLoss ==
  /\ crashes < MaxCrashes
  /\ crashes' = crashes + 1
  /\ ring' \in {LoadState(saved)} \cup (IF "load" \in Faults THEN {EmptyRing} ELSE {})
  /\ forgone' = forgone \cup (IF disp = "save" THEN {nextId - 1} ELSE {})
  /\ status' = "INITIALIZED" /\ net' = FALSE /\ lock' = "free" /\ armed' = FALSE
  /\ disp' = "idle" /\ work' = "idle" /\ iter' = 0 /\ life' = "idle" /\ ctl' = "idle"
  /\ UNCHANGED <<flash, nextId, published>>

-----------------------------------------------------------------------------
Dispatcher ==
  \/ UploadEvent \/ UploadLock \/ UploadWrite \/ UploadWriteFails \/ UploadSave
  \/ Connected \/ Disconnected
WorkQueue ==
  \/ WorkStart \/ WorkLock \/ WorkReplay \/ WorkDrop \/ WorkBreak
  \/ WorkBatchDone \/ WorkSave \/ WorkTail
Lifecycle ==
  \/ Start \/ StartNet \/ StopCancel \/ StopCancelled \/ StopLock \/ StopSave
  \/ StopDone \/ Shutdown
Clear == ClearLock \/ ClearSave
Environment == PowerLoss \/ \E s \in Slots : SlotCorrupts(s)

Next == Dispatcher \/ WorkQueue \/ Lifecycle \/ Clear \/ Environment

Spec == Init /\ [][Next]_vars

\* Every thread that is not blocked runs.  The mutex wakes its waiters, so a
\* thread that keeps finding it free gets it (SF); the bus refuses an event
\* only while its queue is full and the dispatcher empties that queue, and a
\* flash read error is transient, so a batch does not fail forever (SF).
Fairness ==
  /\ WF_vars(UploadSave) /\ WF_vars(UploadWrite) /\ SF_vars(UploadLock)
  /\ WF_vars(WorkStart) /\ SF_vars(WorkLock) /\ SF_vars(WorkReplay)
  /\ SF_vars(WorkDrop) /\ WF_vars(WorkBatchDone) /\ WF_vars(WorkSave) /\ WF_vars(WorkTail)
  /\ WF_vars(StartNet) /\ WF_vars(StopCancelled) /\ SF_vars(StopLock)
  /\ WF_vars(StopSave) /\ WF_vars(StopDone) /\ WF_vars(ClearSave)

FairSpec == Spec /\ Fairness

-----------------------------------------------------------------------------
(* Properties                                                              *)

\* The data in flash and in g_cache: the state record always fits the ring.
DataOK ==
  /\ slot \in [Slots -> Ids \cup {Empty, Corrupt}]
  /\ saved \in Ring \cup {NoState}
  /\ ring \in Ring
  /\ nextId \in Ids
  /\ published \subseteq Ids
  /\ forgone \subseteq Nat
  /\ crashes \in Nat

\* Where each thread is; the handler's counter never passes the batch limit.
ControlOK ==
  /\ status \in {"UNINITIALIZED", "INITIALIZED", "RUNNING", "STOPPED"}
  /\ net \in BOOLEAN
  /\ lock \in {"free", "disp", "work", "life", "ctl"}
  /\ armed \in BOOLEAN
  /\ disp \in {"idle", "lock", "write", "save"}
  /\ work \in {"idle", "lock", "loop", "save", "tail"}
  /\ iter \in 0 .. Batch
  /\ life \in {"idle", "startNet", "wait", "lock", "save", "stopped"}
  /\ ctl \in {"idle", "save"}

\* Every variable of cache_cb_t, of flash and of the threads has its type.
TypeOK == DataOK /\ ControlOK

-----------------------------------------------------------------------------
(* Safety                                                                  *)

\* The state record is written and read back whenever the code asks for it.
ReliableState == Faults \cap {"save", "load"} = {}

\* The arithmetic of the ring: the write position is exactly count slots past
\* the read position, in RAM and in the record a reboot will load.
Closed(r) == r.head = LiveSlot(r, r.count)
RingClosed == Closed(ring) /\ (saved # NoState => Closed(saved))

\* Who is past k_mutex_lock holds g_cache.lock, and nobody else does.
LockHeld ==
  /\ lock = "disp" <=> disp \in {"write", "save"}
  /\ lock = "work" <=> work \in {"loop", "save"}
  /\ lock = "life" <=> life = "save"
  /\ lock = "ctl"  <=> ctl = "save"

\* Comment M3 of cache_on_cloud_upload: whenever the mutex is free, a power loss
\* brings back exactly the ring the threads see (state writes succeeding).
StateDurable == ReliableState /\ lock = "free" => LoadState(saved) = ring

\* No silent loss: an entry that was written is live, or was handed to the bus,
\* or was given up by design (overwritten when full, cleared, corrupted, or
\* still being written when power was lost).
NoSilentLoss ==
  ReliableState => 1 .. nextId - 1 \subseteq Live(ring) \cup published \cup forgone

\* A power loss in mid-batch replays at most one batch a second time: the state
\* in flash never lags the bus by more than Batch entries.
BoundedReplayAgain ==
  ReliableState /\ saved # NoState => Cardinality(Live(saved) \cap published) <= Batch

-----------------------------------------------------------------------------
(* Liveness                                                                *)

\* Once the module runs with the link up and stays so, the backlog is replayed
\* entirely, in batches, whatever batches failed on the way.
Drains ==
  <>[](status = "RUNNING" /\ net /\ life = "idle") => <>[](ring.count = 0)

-----------------------------------------------------------------------------
(* What the ring implements                                                *)

\* The live slots, oldest first, are a bounded FIFO: until power is first lost,
\* every step of every thread is a step of StoreForward or leaves it unchanged.
Waiting == [i \in 1 .. ring.count |-> slot[LiveSlot(ring, i - 1)]]

Fifo == INSTANCE StoreForward WITH
  Capacity <- N, Spoiled <- Corrupt,
  queue <- Waiting, arrived <- nextId - 1, sent <- published

ImplementsFifo ==
  Fifo!Init /\ [][crashes' = 0 => Fifo!Next \/ UNCHANGED Fifo!vars]_vars

=============================================================================
