--------------------------- MODULE WtWritableStore ---------------------------
(***************************************************************************)
(* WtWritableStore (src/src/terark/terichdb/wiredtiger/wt_db_store.cpp):  *)
(* the writable row store of a WiredTiger segment and its live-byte       *)
(* estimate m_dataSize (spec.md 4.3: "maintains an estimated live-bytes   *)
(* counter, refreshed from disk every ~10 MiB of churn").                 *)
(*                                                                         *)
(* Two code paths change m_dataSize.  update() (and remove(), an update  *)
(* to the empty row) adds row.size() + sizeof(recno) while holding        *)
(* m_wtMutex.  estimateIncDataSize(sizeDiff), called by every             *)
(* WtDbTransaction::do_commit, takes no lock: it either adds sizeDiff or  *)
(* reloads m_dataSize from the file size and copies it to                  *)
(* m_lastSyncedDataSize.  Each "m_dataSize += x" is a load and a store;  *)
(* a thread's steps between them are the places another thread can run.  *)
(* Record contents are abstracted to their sizes, in small units.         *)
(***************************************************************************)
EXTENDS Integers, FiniteSets, FiniteSetsExt

CONSTANTS
    Thr,         \* threads using the store
    Ids,         \* recIds (recno - 1) the store may hold
    Sizes,       \* row sizes; 0 is the empty row remove() writes
    Diffs,       \* m_sizeDiff values a transaction commits with
    Overhead,    \* sizeof(recno)
    Threshold,   \* the 10*1024*1024 resync threshold, in the same units
    MaxOps,      \* bound: store operations started
    Absent,      \* WT: no record at this recno
    None         \* m_wtMutex is free

VARIABLES
    rec,         \* WT records: recId -> size or Absent
    dataSize,    \* m_dataSize
    lastSynced,  \* m_lastSyncedDataSize
    fileSize,    \* size of __BlobStore__.wt on disk
    mutex,       \* holder of m_wtMutex
    pc,          \* per thread: idle or the step it is between
    tmp,         \* per thread: the m_dataSize value it loaded
    arg,         \* per thread: the amount it is adding
    ops,         \* operations started (bounded by MaxOps)
    expected     \* m_dataSize had every completed step run alone

vars == <<rec, dataSize, lastSynced, fileSize, mutex, pc, tmp, arg, ops, expected>>

Abs(x) == IF x < 0 THEN -x ELSE x

\* Bytes WT would write at a checkpoint: every record with its key.
Footprint(r) == MapThenSumSet(LAMBDA id : r[id] + Overhead, {id \in Ids : r[id] # Absent})

Start(t) ==
    /\ pc[t] = "idle" /\ ops < MaxOps
    /\ ops' = ops + 1

-----------------------------------------------------------------------------
\* update(id, row): lock m_wtMutex, cursor->insert at recno id+1, then the
\* load half of m_dataSize += row.size() + sizeof(recno).
update(t, id, sz) ==
    /\ Start(t) /\ mutex = None
    /\ mutex' = t
    /\ rec' = [rec EXCEPT ![id] = sz]
    /\ tmp' = [tmp EXCEPT ![t] = dataSize]
    /\ arg' = [arg EXCEPT ![t] = sz + Overhead]
    /\ pc' = [pc EXCEPT ![t] = "update_add"]
    /\ UNCHANGED <<dataSize, lastSynced, fileSize, expected>>

\* remove(id): update(id, "").
remove(t, id) == update(t, id, 0)

\* The store half of the update's addition; the scoped lock is released.
UpdateAdd(t) ==
    /\ pc[t] = "update_add"
    /\ dataSize' = tmp[t] + arg[t]
    /\ expected' = expected + arg[t]
    /\ mutex' = None
    /\ pc' = [pc EXCEPT ![t] = "idle"]
    /\ UNCHANGED <<rec, lastSynced, fileSize, tmp, arg, ops>>

\* append(row): under m_wtMutex the append cursor assigns the next recno;
\* m_dataSize is not touched.
append(t, sz) ==
    /\ Start(t) /\ mutex = None
    /\ LET used == {id \in Ids : rec[id] # Absent}
           next == IF used = {} THEN 0 ELSE Max(used) + 1
       IN /\ next \in Ids
          /\ rec' = [rec EXCEPT ![next] = sz]
    /\ UNCHANGED <<dataSize, lastSynced, fileSize, mutex, pc, tmp, arg, expected>>

\* estimateIncDataSize(sizeDiff), from do_commit, without m_wtMutex: test
\* the drift and load m_dataSize.
estimateIncDataSize(t, d) ==
    /\ Start(t)
    /\ arg' = [arg EXCEPT ![t] = d]
    /\ IF Abs(dataSize - lastSynced) > Threshold
       THEN /\ pc' = [pc EXCEPT ![t] = "est_reload"]
            /\ UNCHANGED tmp
       ELSE /\ tmp' = [tmp EXCEPT ![t] = dataSize]
            /\ pc' = [pc EXCEPT ![t] = "est_add"]
    /\ UNCHANGED <<rec, dataSize, lastSynced, fileSize, mutex, expected>>

EstimateAdd(t) ==
    /\ pc[t] = "est_add"
    /\ dataSize' = tmp[t] + arg[t]
    /\ expected' = expected + arg[t]
    /\ pc' = [pc EXCEPT ![t] = "idle"]
    /\ UNCHANGED <<rec, lastSynced, fileSize, mutex, tmp, arg, ops>>

\* m_dataSize = file_size(fpath);
EstimateReload(t) ==
    /\ pc[t] = "est_reload"
    /\ dataSize' = fileSize
    /\ expected' = fileSize
    /\ pc' = [pc EXCEPT ![t] = "est_sync"]
    /\ UNCHANGED <<rec, lastSynced, fileSize, mutex, tmp, arg, ops>>

\* m_lastSyncedDataSize = m_dataSize;
EstimateSync(t) ==
    /\ pc[t] = "est_sync"
    /\ lastSynced' = dataSize
    /\ pc' = [pc EXCEPT ![t] = "idle"]
    /\ UNCHANGED <<rec, dataSize, fileSize, mutex, tmp, arg, ops, expected>>

\* save(): checkpoint under m_wtMutex; the file now holds every record.
save(t) ==
    /\ pc[t] = "idle" /\ mutex = None
    /\ fileSize' = Footprint(rec)
    /\ UNCHANGED <<rec, dataSize, lastSynced, mutex, pc, tmp, arg, ops, expected>>

\* load(): m_dataSize = file_size(__BlobStore__.wt); m_lastSyncedDataSize
\* = m_dataSize.  It runs when the segment is opened, before any thread
\* uses the store.
load ==
    /\ \A t \in Thr : pc[t] = "idle"
    /\ mutex = None
    /\ dataSize' = fileSize
    /\ lastSynced' = fileSize
    /\ expected' = fileSize
    /\ UNCHANGED <<rec, fileSize, mutex, pc, tmp, arg, ops>>

-----------------------------------------------------------------------------
\* load() of an empty store: m_dataSize = file size; m_lastSyncedDataSize
\* = m_dataSize.
Init ==
    /\ rec = [id \in Ids |-> Absent]
    /\ fileSize = 0
    /\ dataSize = 0
    /\ lastSynced = 0
    /\ mutex = None
    /\ pc = [t \in Thr |-> "idle"]
    /\ tmp = [t \in Thr |-> 0]
    /\ arg = [t \in Thr |-> 0]
    /\ ops = 0
    /\ expected = 0

Next ==
    \E t \in Thr :
        \/ \E id \in Ids : \E sz \in Sizes : update(t, id, sz)
        \/ \E id \in Ids : remove(t, id)
        \/ \E sz \in Sizes : append(t, sz)
        \/ \E d \in Diffs : estimateIncDataSize(t, d)
        \/ UpdateAdd(t) \/ EstimateAdd(t) \/ EstimateReload(t) \/ EstimateSync(t)
        \/ save(t)
    \/ load

Spec == Init /\ [][Next]_vars

-----------------------------------------------------------------------------
\* When no thread is inside update() or estimateIncDataSize(), m_dataSize
\* holds the sum of every size change applied since the last reload, as
\* if the calls had run one at a time (spec.md 4.3).  A commit's unlocked
\* estimateIncDataSize interleaved with a locked update() can lose one of
\* the two additions.
DataSizeAccounted ==
    (\A t \in Thr : pc[t] = "idle") => dataSize = expected
=============================================================================
