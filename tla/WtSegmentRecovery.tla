------------------------- MODULE WtSegmentRecovery -------------------------
(***************************************************************************)
(* Crash and restart of a WiredTiger writable segment                      *)
(* (src/src/terark/terichdb/wiredtiger/wt_db_segment.cpp).                *)
(*                                                                         *)
(* Durable state lives in two places that are written independently:      *)
(*   - WiredTiger (store __BlobStore__ and the unique index), written by   *)
(*     every WtDbTransaction commit into WT's log.  Transactions run with *)
(*     "sync=false", so a commit reaches the disk only when WT later       *)
(*     syncs its log; a crash keeps every commit up to the last sync and   *)
(*     possibly some after it (a prefix of the commit sequence);            *)
(*   - the IsDel file, written by save().  WtWritableSegment::save only    *)
(*     calls WT's async_flush, which waits for async operations (none are *)
(*     used) and makes no WT data durable.                                  *)
(* WtWritableSegment::load reopens WT (which replays its log) and, when    *)
(* IsDel exists, loads it and reconciles its length with numDataRows(),    *)
(* the store's largest recno.                                               *)
(*                                                                         *)
(* The table paths (insertRow, removeRow in db_table.cpp, and save's      *)
(* saveIsDel in db_segment.cpp) are not in the repository and are         *)
(* modelled from spec.md 4.5/4.6.  One writer runs them; concurrent        *)
(* writers are WtSegmentTxn's subject.  save() runs on another thread at  *)
(* any point.  A row is abstracted to its unique-index key.                *)
(***************************************************************************)
EXTENDS Integers, Sequences, FiniteSets, FiniteSetsExt

CONSTANTS
    Keys,        \* unique-index keys; a row is identified by its key
    MaxRec,      \* bound: recIds 0 .. MaxRec-1 the segment may reserve
    MaxCrash,    \* bound: crashes and closes
    Empty,       \* the empty row that remove() writes
    Absent,      \* no WT record at this recno
    None         \* no index entry for a key

RecIds == 0 .. MaxRec - 1

VARIABLES
    wt,          \* committed WT store: recId -> key, Empty or Absent
    idx,         \* committed WT unique index: key -> recId or None
    isDel,       \* m_isDel, in memory
    log,         \* WT log: the committed [wt, idx] after each commit
    synced,      \* commits of the log known to be on disk
    saved,       \* the IsDel file
    up,          \* the process is running
    pc,          \* the writer: [op, r, k] of the table operation under way
    crashes,     \* crashes and closes so far (bounded by MaxCrash)
    it           \* a WtWritableStoreIter of another thread, see below

vars == <<wt, idx, isDel, log, synced, saved, up, pc, crashes, it>>

Idle == [op |-> "idle", r |-> 0, k |-> None]

\* No store iterator is open.
NoIter == [st |-> "closed", dir |-> "fwd", cur |-> 0, ended |-> FALSE,
           base |-> {}, seen |-> {}, whole |-> TRUE]

\* A committed transaction: WT applies it and appends it to its log.
CommitWt(w, i) ==
    /\ wt' = w /\ idx' = i
    /\ log' = Append(log, [wt |-> w, idx |-> i])

-----------------------------------------------------------------------------
\* A numDataRows that returns the largest recId instead of the recno.
NumDataRowsMaxId(w) ==
    LET present == {r \in RecIds : w[r] # Absent}
    IN IF present = {} THEN 0
       ELSE CHOOSE r \in present : \A q \in present : q <= r

\* WtWritableStore::numDataRows(): search_near(LLONG_MAX) finds the largest
\* recno with a record (an emptied row still has one); it is the row count.
NumDataRows(w) ==
    LET present == {r \in RecIds : w[r] # Absent}
    IN IF present = {} THEN 0
       ELSE 1 + CHOOSE r \in present : \A q \in present : q <= r

\* A reconciliation whose loop runs while size <= rows.
ReconcileIsDelPastRows(file, rows) ==
    IF rows >= Len(file)
    THEN file \o [i \in 1 .. rows + 1 - Len(file) |-> FALSE]
    ELSE file

\* load() with an IsDel file: take m_isDel from it; if the store has more
\* rows, push false for each missing one.  The other two branches only warn.
ReconcileIsDel(file, rows) ==
    IF rows > Len(file)
    THEN file \o [i \in 1 .. rows - Len(file) |-> FALSE]
    ELSE file

\* insertRow, first step: reserve recId = m_isDel.size() with pushIsDel(true).
Reserve(k) ==
    /\ up /\ pc = Idle
    /\ Len(isDel) < MaxRec
    /\ isDel' = Append(isDel, TRUE)
    /\ pc' = [op |-> "ins", r |-> Len(isDel), k |-> k]
    /\ UNCHANGED <<wt, idx, log, synced, saved, up, crashes, it>>

\* insertRow's transaction: indexInsert, storeUpdate, commit.  A duplicate
\* key rolls back and leaves the reserved recId tombstoned.
InsertTxn ==
    /\ up /\ pc.op = "ins"
    /\ IF idx[pc.k] # None
       THEN /\ pc' = Idle
            /\ UNCHANGED <<wt, idx, log>>
       ELSE /\ CommitWt([wt EXCEPT ![pc.r] = pc.k], [idx EXCEPT ![pc.k] = pc.r])
            /\ pc' = [pc EXCEPT !.op = "ins_clear"]
    /\ UNCHANGED <<isDel, synced, saved, up, crashes, it>>

\* After the commit: clear the tombstone, the row becomes visible.
InsertClear ==
    /\ up /\ pc.op = "ins_clear"
    /\ isDel' = [isDel EXCEPT ![pc.r + 1] = FALSE]
    /\ pc' = Idle
    /\ UNCHANGED <<wt, idx, log, synced, saved, up, crashes, it>>

\* removeRow of a live recId: indexRemove, storeRemove (update to the empty
\* row), commit.
RemoveTxn(r) ==
    /\ up /\ pc = Idle
    /\ r < Len(isDel) /\ ~isDel[r + 1]
    /\ wt[r] \in Keys
    /\ CommitWt([wt EXCEPT ![r] = Empty], [idx EXCEPT ![wt[r]] = None])
    /\ pc' = [op |-> "rm_tomb", r |-> r, k |-> wt[r]]
    /\ UNCHANGED <<isDel, synced, saved, up, crashes, it>>

\* After the commit: set the tombstone.
RemoveTomb ==
    /\ up /\ pc.op = "rm_tomb"
    /\ isDel' = [isDel EXCEPT ![pc.r + 1] = TRUE]
    /\ pc' = Idle
    /\ UNCHANGED <<wt, idx, log, synced, saved, up, crashes, it>>

\* save(): PlainWritableSegment::save writes the IsDel file; then
\* WtWritableSegment::save calls async_flush, which syncs nothing.
save ==
    /\ up
    /\ saved' = isDel
    /\ UNCHANGED <<wt, idx, isDel, log, synced, up, pc, crashes, it>>

\* WiredTiger's log server syncs the log, or the checkpoint thread that
\* init's checkpoint=(log_size=64MB,wait=60) starts runs.
LogSync ==
    /\ up /\ synced < Len(log)
    /\ synced' = Len(log)
    /\ UNCHANGED <<wt, idx, isDel, log, saved, up, pc, crashes, it>>

\* WtWritableStore::save: a WT checkpoint under m_wtMutex, which makes
\* every committed transaction durable.
StoreSave ==
    /\ up
    /\ synced' = Len(log)
    /\ UNCHANGED <<wt, idx, isDel, log, saved, up, pc, crashes, it>>

\* The process dies.  WT keeps a prefix of its commits that contains every
\* synced one; memory, m_isDel and WT's cache included, is gone (wt and idx
\* are left stale until init rebuilds them).
Crash ==
    /\ up /\ crashes < MaxCrash
    /\ \E d \in synced .. Len(log) :
          /\ log' = SubSeq(log, 1, d)
          /\ synced' = d
    /\ isDel' = <<>>
    /\ up' = FALSE
    /\ pc' = Idle
    /\ crashes' = crashes + 1
    /\ it' = NoIter
    /\ UNCHANGED <<wt, idx, saved>>

\* ~WtWritableSegment between operations: the indices and the store are
\* released and WT_CONNECTION::close writes a final checkpoint, so every
\* commit is durable; the IsDel file is whatever the last save wrote.
\* Counted with the crashes: both end the process's segment object.
Close ==
    /\ up /\ pc = Idle /\ crashes < MaxCrash
    /\ it.st = "closed"
    /\ synced' = Len(log)
    /\ isDel' = <<>>
    /\ up' = FALSE
    /\ crashes' = crashes + 1
    /\ UNCHANGED <<wt, idx, log, saved, pc, it>>

\* init: wiredtiger_open with log=(enabled,recover=on) replays the durable
\* log, so the store and the index hold the last commit that survived.
init ==
    /\ wt' = IF log = <<>> THEN [r \in RecIds |-> Absent] ELSE log[Len(log)].wt
    /\ idx' = IF log = <<>> THEN [k \in Keys |-> None] ELSE log[Len(log)].idx

\* WtWritableSegment::load: init() reopens WT; the IsDel file exists (it is
\* written when the segment is created), so PlainWritableSegment::load
\* reads it and m_isDel is reconciled with numDataRows() of the recovered
\* store.
load ==
    /\ ~up
    /\ init
    /\ isDel' = ReconcileIsDel(saved, NumDataRows(wt'))
    /\ up' = TRUE
    /\ UNCHANGED <<log, synced, saved, pc, crashes, it>>

-----------------------------------------------------------------------------
(***************************************************************************)
(* The store iterators of wt_db_store.cpp.  A WtWritableStoreIterBase has  *)
(* its own WT session and an overwrite=true cursor on __BlobStore__ (a     *)
(* variable-length column store, key_format=r), used outside any           *)
(* transaction, so every call sees the committed store.  next/prev skip    *)
(* recnos without a record; a removed row is a record holding the empty   *)
(* value and is yielded as an empty row.  After WT_NOTFOUND the cursor is  *)
(* unpositioned, and the next advance starts again at the first (last)     *)
(* record.  `it` also keeps, for the pass under way, the records present  *)
(* when it began (base) and the recIds yielded since (seen); whole is      *)
(* FALSE once a seekExact positioned the cursor.  These ghost fields are   *)
(* emptied whenever the next increment will start a new pass.            *)
(***************************************************************************)
Records(w) == {r + 1 : r \in {q \in RecIds : w[q] # Absent}}   \* recnos

\* The Forward/Backward iterators' advance: cursor->next / cursor->prev from
\* recno cur (0: unpositioned); 0 stands for WT_NOTFOUND.
Advance(dir, cur, w) ==
    LET after  == {n \in Records(w) : cur = 0 \/ n > cur}
        before == {n \in Records(w) : cur = 0 \/ n < cur}
    IN IF dir = "fwd" THEN (IF after = {} THEN 0 ELSE Min(after))
                      ELSE (IF before = {} THEN 0 ELSE Max(before))

\* createStoreIterForward / createStoreIterBackward: a new iterator opens
\* its session and cursor.
IterOpen(d) ==
    /\ up /\ it.st = "closed"
    /\ it' = [NoIter EXCEPT !.st = "open", !.dir = d]
    /\ UNCHANGED <<wt, idx, isDel, log, synced, saved, up, pc, crashes>>

YieldedId(n) == n - 1

\* increment: advance; on a record, *id = recno - 1 and the value (empty for
\* a removed row) is returned; on WT_NOTFOUND, false.
IterIncrement ==
    /\ up /\ it.st = "open"
    /\ LET n     == Advance(it.dir, it.cur, wt)
           fresh == it.cur = 0                  \* a pass begins here
           base  == IF fresh THEN {q \in RecIds : wt[q] # Absent} ELSE it.base
           seen  == IF fresh THEN {} ELSE it.seen
       IN it' = [it EXCEPT !.cur = n,
                           !.ended = (n = 0),
                           !.base = base,
                           !.seen = IF n = 0 THEN seen ELSE seen \cup {YieldedId(n)},
                           !.whole = IF fresh THEN TRUE ELSE @]
    /\ UNCHANGED <<wt, idx, isDel, log, synced, saved, up, pc, crashes>>

\* seekExact(id): reset, then search_near(id + 1).  An exact hit returns
\* the value; otherwise the cursor rests on a nearest record, smaller or
\* larger (WT's choice), and false is returned; an empty store gives
\* WT_NOTFOUND and an unpositioned cursor.
IterSeekExact(id) ==
    /\ up /\ it.st = "open"
    /\ LET rs    == Records(wt)
           below == {n \in rs : n < id + 1}
           above == {n \in rs : n > id + 1}
           near  == (IF below = {} THEN {} ELSE {Max(below)})
                    \cup (IF above = {} THEN {} ELSE {Min(above)})
       IN \/ /\ rs = {}
             /\ it' = [it EXCEPT !.cur = 0, !.ended = FALSE, !.base = {}, !.seen = {}]
          \/ /\ id + 1 \in rs
             /\ it' = [it EXCEPT !.cur = id + 1, !.ended = FALSE, !.whole = FALSE,
                                 !.base = {}, !.seen = {}]
          \/ /\ rs # {} /\ id + 1 \notin rs
             /\ \E n \in near :
                   it' = [it EXCEPT !.cur = n, !.ended = FALSE, !.whole = FALSE,
                                    !.base = {}, !.seen = {}]
    /\ UNCHANGED <<wt, idx, isDel, log, synced, saved, up, pc, crashes>>

\* reset: the cursor is unpositioned.
IterReset ==
    /\ up /\ it.st = "open"
    /\ it' = [it EXCEPT !.cur = 0, !.ended = FALSE, !.base = {}, !.seen = {}]
    /\ UNCHANGED <<wt, idx, isDel, log, synced, saved, up, pc, crashes>>

\* ~WtWritableStoreIterBase: close the cursor and the session.
IterClose ==
    /\ up /\ it.st = "open"
    /\ it' = NoIter
    /\ UNCHANGED <<wt, idx, isDel, log, synced, saved, up, pc, crashes>>

-----------------------------------------------------------------------------
\* A new segment: initEmptySegment with an empty WT and an empty IsDel.
Init ==
    /\ wt = [r \in RecIds |-> Absent]
    /\ idx = [k \in Keys |-> None]
    /\ isDel = <<>>
    /\ log = <<>>
    /\ synced = 0
    /\ saved = <<>>
    /\ up = TRUE
    /\ pc = Idle
    /\ crashes = 0
    /\ it = NoIter

Next ==
    \/ \E k \in Keys : Reserve(k)
    \/ InsertTxn \/ InsertClear
    \/ \E r \in RecIds : RemoveTxn(r)
    \/ RemoveTomb
    \/ save \/ StoreSave \/ LogSync \/ Crash \/ Close \/ load
    \/ \E d \in {"fwd", "bwd"} : IterOpen(d)
    \/ IterIncrement \/ IterReset \/ IterClose
    \/ \E id \in RecIds : IterSeekExact(id)

Spec == Init /\ [][Next]_vars

-----------------------------------------------------------------------------
TypeOK ==
    /\ wt \in [RecIds -> Keys \cup {Empty, Absent}]
    /\ idx \in [Keys -> RecIds \cup {None}]
    /\ isDel \in Seq(BOOLEAN) /\ Len(isDel) <= MaxRec
    /\ saved \in Seq(BOOLEAN) /\ Len(saved) <= MaxRec
    /\ synced \in 0 .. Len(log)
    /\ crashes \in 0 .. MaxCrash
    /\ it.cur \in 0 .. MaxRec /\ it.base \subseteq RecIds /\ it.seen \subseteq RecIds

\* A recId the segment has not reserved has no WT record: the next
\* pushIsDel reserves m_isDel.size(), and a record already there would be
\* overwritten by the insert while the index entries of its old row still
\* name it.  After a crash this rests on load() extending the saved IsDel
\* to numDataRows(), including commits made after the last save.
NoRecIdReuse ==
    up => \A r \in RecIds : r >= Len(isDel) => wt[r] = Absent

=============================================================================
