---------------------------- MODULE WtSegmentTxn ----------------------------
(***************************************************************************)
(* The WiredTiger writable segment of terichdb and its transactions.       *)
(*                                                                         *)
(* Source: src/src/terark/terichdb/wiredtiger/wt_db_segment.cpp           *)
(*   (class WtWritableSegment::WtDbTransaction), wt_db_store.cpp          *)
(*   (WtWritableStore, the reader path), db_segment.hpp (DbTransaction    *)
(*   and the isDel bookkeeping).                                           *)
(*                                                                         *)
(* Every context of the set Ctx owns one WtDbTransaction (its own WT      *)
(* session).  The table's write paths that drive a transaction (insert,   *)
(* upsert with retry, remove) live in db_table.cpp, which is not part of   *)
(* this repository; they are modelled from spec.md sections 4.5 and 4.6   *)
(* and marked as such in the map.                                         *)
(*                                                                         *)
(* WiredTiger itself is the environment.  Every recno (recId + 1) of the *)
(* record store and every key of the unique index holds an update chain, *)
(* oldest first; an update belongs to the live transaction that wrote it *)
(* or is Committed.  do_startTransaction begins every transaction with    *)
(* isolation=read-committed: a read returns the newest update that is     *)
(* committed or the session's own, and a write is prepended to the chain *)
(* without a conflict check (WT checks write-write conflicts only for     *)
(* snapshot isolation).  Commit marks the session's updates Committed,   *)
(* rollback drops them.  Only the first (unique) index is modelled; the  *)
(* data is abstracted to a key and a payload per row, the payload being  *)
(* the writing context.                                                   *)
(***************************************************************************)
EXTENDS Naturals, Sequences, FiniteSets, Functions

CONSTANTS
    Ctx,           \* contexts (threads), each with one WtDbTransaction
    Keys,          \* values of the unique index column
    MaxRec,        \* bound: number of recIds the writable segment may reserve
    MaxRetry,      \* upsertMaxRetry of DbContext
    UpdatableCg,   \* TRUE iff the schema has updatable column groups
    Absent,        \* WT: no record at this recno (or a removal update)
    NoRec,         \* WT unique index: key not present (or a removal update)
    NoVal,         \* payload not stored in the WT row (lives in a colgroup)
    Committed,     \* owner of a committed WT update
    None           \* table bookkeeping: no acknowledged row

ASSUME MaxRec \in Nat /\ MaxRetry \in Nat /\ UpdatableCg \in BOOLEAN

RecIds == 0 .. MaxRec - 1
Vals   == Ctx
Rows   == [k : Keys, v : Vals]
WtRows == [k : Keys, v : Vals \cup {NoVal}]

VARIABLES
    wt,        \* WT record store: recId -> update chain of WtRows \cup {Absent}
    idx,       \* WT unique index: key -> update chain of RecIds \cup {NoRec}
    cg,        \* updatable colgroup store (not transactional): recId -> Vals \cup {NoVal}
    isDel,     \* WritableSegment m_isDel, a bit per reserved recId
    status,    \* DbTransaction::m_status
    recId,     \* DbTransaction::m_recId
    pc,        \* table write path: step of the context
    op,        \* table write path: the operation being executed
    retries,   \* table upsert: retries used
    res,       \* table write path: outcome of the last operation
    acked      \* table: row last acknowledged as committed per recId

txnVars   == <<status, recId>>
tableVars == <<pc, op, retries, res, acked>>
vars      == <<wt, idx, cg, isDel, txnVars, tableVars>>

IsDel(id) == isDel[id + 1]

-----------------------------------------------------------------------------
(* WiredTiger update chains under isolation=read-committed.                *)

\* The value session c reads from chain s: the newest update that is
\* committed or c's own, else base (nothing there).  Committed itself
\* for c is a reader outside any transaction.
Visible(s, c, base) ==
    LET v == SelectSeq(s, LAMBDA u : u.txn \in {c, Committed})
    IN  IF v = <<>> THEN base ELSE v[Len(v)].val

\* A write of c: a new update on top of the chain, whatever other live
\* transactions have written below it.
Write(s, c, val) == Append(s, [txn |-> c, val |-> val])

\* commit_transaction: c's updates become Committed; updates below the
\* newest committed one can no longer be read and are dropped, and so is
\* a committed removal with nothing below it.
CommitChain(s, c, base) ==
    LET m == [i \in DOMAIN s |-> IF s[i].txn = c
                                 THEN [s[i] EXCEPT !.txn = Committed] ELSE s[i]]
        C == {i \in DOMAIN m : m[i].txn = Committed}
        j == IF C = {} THEN 1 ELSE CHOOSE i \in C : \A i2 \in C : i2 <= i
    IN  IF C # {} /\ m[j].val = base THEN SubSeq(m, j + 1, Len(m))
        ELSE SubSeq(m, j, Len(m))

\* rollback_transaction (or a failed commit): c's updates are dropped.
AbortChain(s, c) == SelectSeq(s, LAMBDA u : u.txn # c)

\* Committed data, as a reader without a transaction sees it.
WtRec(id) == Visible(wt[id], Committed, Absent)
IdxRec(k) == Visible(idx[k], Committed, NoRec)

\* The record at m_recId and the index entry of k as the session of c
\* sees them.
TxnStoreView(c) == Visible(wt[recId[c]], c, Absent)
TxnIdxView(c, k) == Visible(idx[k], c, NoRec)

\* The row a reader gets from WtWritableStore::getValueAppend combined
\* with the updatable column groups (committed WT data, no transaction).
ReadRow(id) ==
    IF WtRec(id) = Absent THEN Absent
    ELSE IF UpdatableCg THEN [k |-> WtRec(id).k, v |-> cg[id]]
    ELSE WtRec(id)

-----------------------------------------------------------------------------
(* WtDbTransaction operations.  Each takes the context and yields the      *)
(* outcome the caller branches on; none changes pc.                       *)

\* DbTransaction::startTransaction + do_startTransaction: begin_transaction
\* with "isolation=read-committed,sync=false", m_sizeDiff = 0.
StartTransaction(c, id) ==
    /\ status[c] # "started"
    /\ status' = [status EXCEPT ![c] = "started"]
    /\ recId'  = [recId EXCEPT ![c] = id]
    /\ UNCHANGED <<wt, idx, cg>>

\* The WtDbTransaction constructor opens the transaction's own session and
\* its cursors: the store cursor with overwrite=true, and per index an
\* "insert" cursor with overwrite=false and an "overwrite" cursor with
\* overwrite=true.  An insert through an overwrite=false cursor of a key
\* the session can read returns WT_DUPLICATE_KEY; with overwrite=true it
\* replaces.  A remove through an overwrite=true cursor of a missing
\* record returns 0, through an overwrite=false one WT_NOTFOUND.
CursorOverwrite == [store |-> TRUE, insert |-> FALSE, overwrite |-> TRUE]

\* indexInsert on the unique index through m_indices[i].insert:
\* WT_DUPLICATE_KEY -> false.  Only an entry the session can read (a
\* committed one or its own) is a duplicate.
IndexInsertOutcome(c, k) ==
    IF ~CursorOverwrite.insert /\ TxnIdxView(c, k) # NoRec THEN "false" ELSE "true"

\* An indexInsert whose entry carries the recno (m_recId + 1) instead of
\* the recId.
IndexInsertRecno(c, k) ==
    /\ status[c] = "started"
    /\ idx' = IF IndexInsertOutcome(c, k) = "true"
              THEN [idx EXCEPT ![k] = Write(@, c, recId[c] + 1)] ELSE idx
    /\ UNCHANGED <<wt, cg, status, recId>>

IndexInsert(c, k) ==
    /\ status[c] = "started"
    /\ idx' = IF IndexInsertOutcome(c, k) = "true"
              THEN [idx EXCEPT ![k] = Write(@, c, recId[c])] ELSE idx
    /\ UNCHANGED <<wt, cg, status, recId>>

\* indexRemove, through the same overwrite=false cursor: the unique index
\* is keyed by k alone; WT_NOTFOUND returns silently.
IndexRemoveOutcome(c, k) ==
    IF TxnIdxView(c, k) = NoRec THEN "notfound" ELSE "ok"

\* An indexRemove whose setKeyVal builds a key WT does not hold: every
\* remove meets WT_NOTFOUND and returns silently.
IndexRemoveKeyMissed(c, k) ==
    /\ status[c] = "started"
    /\ UNCHANGED <<wt, idx, cg, status, recId>>

IndexRemove(c, k) ==
    /\ status[c] = "started"
    /\ idx' = IF IndexRemoveOutcome(c, k) = "ok"
              THEN [idx EXCEPT ![k] = Write(@, c, NoRec)] ELSE idx
    /\ UNCHANGED <<wt, cg, status, recId>>

\* storeRemove of recno m_recId+1 through the overwrite=true cursor: a
\* record the session reads gets a removal update; a missing one returns
\* 0 (the code's WT_NOTFOUND test never fires).
StoreRemove(c) ==
    /\ status[c] = "started"
    /\ wt' = IF TxnStoreView(c) # Absent
             THEN [wt EXCEPT ![recId[c]] = Write(@, c, Absent)] ELSE wt
    /\ UNCHANGED <<idx, cg, status, recId>>

\* storeUpdate(row).  With updatable column groups the colgroup columns
\* are written straight into the colgroup stores under m_segMutex, before
\* and outside the WT transaction; only the remaining columns go into the
\* WT insert, whose overwrite=true cursor replaces an existing record.
StoreUpdateOutcome(c) ==
    IF ~CursorOverwrite.store /\ TxnStoreView(c) # Absent THEN "throw" ELSE "ok"

StoreUpdate(c, row) ==
    /\ status[c] = "started"
    /\ cg' = IF UpdatableCg THEN [cg EXCEPT ![recId[c]] = row.v] ELSE cg
    /\ wt' = IF StoreUpdateOutcome(c) = "ok"
             THEN [wt EXCEPT ![recId[c]] =
                     Write(@, c, IF UpdatableCg THEN [k |-> row.k, v |-> NoVal] ELSE row)]
             ELSE wt
    /\ UNCHANGED <<idx, status, recId>>

\* storeGetRow: WT_NOTFOUND throws ReadUncommitedRecordException; the
\* colgroup part is read from the colgroup stores (getCombineAppend).
StoreGetRow(c) ==
    IF TxnStoreView(c) = Absent THEN Absent
    ELSE IF UpdatableCg THEN [k |-> TxnStoreView(c).k, v |-> cg[recId[c]]]
    ELSE TxnStoreView(c)

\* DbTransaction::commit + do_commit: commit_transaction makes the
\* session's updates Committed, or fails (an error string, return false)
\* and WiredTiger discards them.  m_status after a failure is set by
\* DbTransaction::commit (db_segment.cpp, not in the repository): it is
\* taken as rollbacked.  estimateIncDataSize is in WtWritableStore.
Commit(c, ok) ==
    /\ status[c] = "started"
    /\ status' = [status EXCEPT ![c] = IF ok THEN "committed" ELSE "rollbacked"]
    /\ wt'  = [id \in RecIds |-> IF ok THEN CommitChain(wt[id], c, Absent)
                                 ELSE AbortChain(wt[id], c)]
    /\ idx' = [k \in Keys |-> IF ok THEN CommitChain(idx[k], c, NoRec)
                              ELSE AbortChain(idx[k], c)]
    /\ UNCHANGED <<cg, recId>>

\* DbTransaction::rollback + do_rollback: rollback_transaction discards the
\* session's WT updates (and nothing else).
Rollback(c) ==
    /\ status[c] = "started"
    /\ status' = [status EXCEPT ![c] = "rollbacked"]
    /\ wt'  = [id \in RecIds |-> AbortChain(wt[id], c)]
    /\ idx' = [k \in Keys |-> AbortChain(idx[k], c)]
    /\ UNCHANGED <<cg, recId>>

-----------------------------------------------------------------------------
(* Table write paths (db_table.cpp is not in this repository: spec.md     *)
(* 4.6).  One action per step; each step makes one transaction call.     *)

Payload(c) == [k |-> op[c].k, v |-> c]

Goto(c, p) == pc' = [pc EXCEPT ![c] = p]

\* The repository's clients of the table (vs2015/terichdb): royguo1's
\* insert loop calls insertRow and only prints a failure; the threads of
\* db-test's doTestMultiThread call upsertRow on a random key and swallow
\* NeedRetryException; doTest removes a random recId that exists.
InsertCall(c, k) ==
    /\ op' = [op EXCEPT ![c] = [kind |-> "insert", k |-> k, path |-> "ins"]]
    /\ Goto(c, "reserve")
    /\ UNCHANGED <<wt, idx, cg, txnVars>>

UpsertCall(c, k) ==
    /\ op' = [op EXCEPT ![c] = [kind |-> "upsert", k |-> k, path |-> "ins"]]
    /\ Goto(c, "lookup")
    /\ UNCHANGED <<wt, idx, cg, txnVars>>

\* removeRow starts its transaction at the recId straight away.
RemoveCall(c, id) ==
    /\ ~IsDel(id)
    /\ op' = [op EXCEPT ![c] = [kind |-> "remove", k |-> op[c].k, path |-> "rm"]]
    /\ StartTransaction(c, id)
    /\ Goto(c, "rm_get")

\* insertRow / upsertRow / removeRow entry: an idle context makes a call.
Choose(c) ==
    /\ pc[c] = "idle"
    /\ retries' = [retries EXCEPT ![c] = 0]
    /\ res' = [res EXCEPT ![c] = "none"]
    /\ \/ \E k \in Keys : InsertCall(c, k)
       \/ \E k \in Keys : UpsertCall(c, k)
       \/ \E id \in 0 .. Len(isDel) - 1 : RemoveCall(c, id)
    /\ UNCHANGED <<isDel, acked>>

\* upsertRow: indexSearchExact on the unique index (committed data, live
\* ids only); a hit updates that row in a transaction on its recId ...
LookupHit(c) ==
    /\ pc[c] = "lookup"
    /\ IdxRec(op[c].k) # NoRec /\ ~IsDel(IdxRec(op[c].k))
    /\ StartTransaction(c, IdxRec(op[c].k))
    /\ op' = [op EXCEPT ![c].path = "upd"]
    /\ Goto(c, "store")
    /\ UNCHANGED <<isDel, retries, res, acked>>

\* ... and a miss takes the insert path.
LookupMiss(c) ==
    /\ pc[c] = "lookup"
    /\ ~(IdxRec(op[c].k) # NoRec /\ ~IsDel(IdxRec(op[c].k)))
    /\ op' = [op EXCEPT ![c].path = "ins"]
    /\ Goto(c, "reserve")
    /\ UNCHANGED <<wt, idx, cg, isDel, txnVars, retries, res, acked>>

\* Insert path: reserve the next recId (pushIsDel(true)) under the segment
\* mutex and start a transaction on it.
Reserve(c) ==
    /\ pc[c] = "reserve"
    /\ Len(isDel) < MaxRec
    /\ isDel' = Append(isDel, TRUE)
    /\ StartTransaction(c, Len(isDel))
    /\ Goto(c, "ins_idx")
    /\ UNCHANGED <<op, retries, res, acked>>

\* The model's bound MaxRec on recIds: the operation gives up.
ReserveFull(c) ==
    /\ pc[c] = "reserve"
    /\ Len(isDel) = MaxRec
    /\ res' = [res EXCEPT ![c] = "full"]
    /\ Goto(c, "idle")
    /\ UNCHANGED <<wt, idx, cg, isDel, txnVars, op, retries, acked>>

\* Insert path: indexInsert of the unique key; false is DuplicateKey.
InsIdx(c) ==
    LET o == IndexInsertOutcome(c, op[c].k) IN
    /\ pc[c] = "ins_idx"
    /\ IndexInsert(c, op[c].k)
    /\ Goto(c, IF o = "true" THEN "store" ELSE "rollback")
    /\ res' = [res EXCEPT ![c] = IF o = "true" THEN "none" ELSE "dup"]
    /\ UNCHANGED <<isDel, op, retries, acked>>

\* Insert and update paths: storeUpdate(row).
Store(c) ==
    LET o == StoreUpdateOutcome(c) IN
    /\ pc[c] = "store"
    /\ StoreUpdate(c, Payload(c))
    /\ Goto(c, IF o = "ok" THEN "commit" ELSE "rollback")
    /\ res' = [res EXCEPT ![c] = IF o = "ok" THEN "none" ELSE "error"]
    /\ UNCHANGED <<isDel, op, retries, acked>>

\* A remove path that keeps the key of the context's previous operation
\* instead of reading the row's.
RmGetStaleKey(c) ==
    LET r == StoreGetRow(c) IN
    /\ pc[c] = "rm_get"
    /\ IF r = Absent
       THEN /\ res' = [res EXCEPT ![c] = "notfound"]
            /\ Goto(c, "rollback")
       ELSE /\ Goto(c, "rm_idx")
            /\ UNCHANGED res
    /\ UNCHANGED <<wt, idx, cg, isDel, txnVars, op, retries, acked>>

\* Remove path: storeGetRow to learn the index keys of the row.
RmGet(c) ==
    LET r == StoreGetRow(c) IN
    /\ pc[c] = "rm_get"
    /\ IF r = Absent
       THEN /\ res' = [res EXCEPT ![c] = "notfound"]
            /\ Goto(c, "rollback")
            /\ UNCHANGED op
       ELSE /\ op' = [op EXCEPT ![c].k = r.k]
            /\ Goto(c, "rm_idx")
            /\ UNCHANGED res
    /\ UNCHANGED <<wt, idx, cg, isDel, txnVars, retries, acked>>

\* Remove path: indexRemove of the row's unique key (WT_NOTFOUND or not,
\* it returns).
RmIdx(c) ==
    /\ pc[c] = "rm_idx"
    /\ IndexRemove(c, op[c].k)
    /\ Goto(c, "rm_store")
    /\ UNCHANGED <<isDel, op, retries, res, acked>>

\* Remove path: storeRemove.
RmStore(c) ==
    /\ pc[c] = "rm_store"
    /\ StoreRemove(c)
    /\ Goto(c, "commit")
    /\ UNCHANGED <<isDel, op, retries, res, acked>>

\* commit(); a failed commit surfaces as an error of the operation.
CommitStep(c) ==
    /\ pc[c] = "commit"
    /\ \/ /\ Commit(c, TRUE)
          /\ acked' = [acked EXCEPT ![recId[c]] =
                          IF op[c].path = "rm" THEN None ELSE Payload(c)]
          /\ Goto(c, "finish")
          /\ UNCHANGED res
       \/ /\ Commit(c, FALSE)
          /\ res' = [res EXCEPT ![c] = "commitFailed"]
          /\ Goto(c, "idle")
          /\ UNCHANGED acked
    /\ UNCHANGED <<isDel, op, retries>>

\* After a successful commit the table clears (insert) or sets (remove)
\* the tombstone of the recId under the segment mutex.
Finish(c) ==
    /\ pc[c] = "finish"
    /\ isDel' = CASE op[c].path = "ins" -> [isDel EXCEPT ![recId[c] + 1] = FALSE]
                  [] op[c].path = "rm"  -> [isDel EXCEPT ![recId[c] + 1] = TRUE]
                  [] OTHER              -> isDel
    /\ res' = [res EXCEPT ![c] = "ok"]
    /\ Goto(c, "idle")
    /\ UNCHANGED <<wt, idx, cg, txnVars, op, retries, acked>>

\* DefaultRollbackTransaction: a failed step rolls back.  An upsert whose
\* insert met a duplicate key retries the lookup up to upsertMaxRetry
\* times, then surfaces NeedRetry.
RollbackStep(c) ==
    /\ pc[c] = "rollback"
    /\ Rollback(c)
    /\ IF op[c].kind = "upsert" /\ res[c] = "dup"
       THEN IF retries[c] < MaxRetry
            THEN /\ retries' = [retries EXCEPT ![c] = @ + 1]
                 /\ Goto(c, "lookup")
                 /\ UNCHANGED res
            ELSE /\ res' = [res EXCEPT ![c] = "needRetry"]
                 /\ Goto(c, "idle")
                 /\ UNCHANGED retries
       ELSE /\ Goto(c, "idle")
            /\ UNCHANGED <<res, retries>>
    /\ UNCHANGED <<isDel, op, acked>>

-----------------------------------------------------------------------------
Init ==
    /\ wt = [id \in RecIds |-> <<>>]
    /\ idx = [k \in Keys |-> <<>>]
    /\ cg = [id \in RecIds |-> NoVal]
    /\ isDel = <<>>
    /\ status = [c \in Ctx |-> "committed"]
    /\ recId = [c \in Ctx |-> 0]
    /\ pc = [c \in Ctx |-> "idle"]
    /\ op = [c \in Ctx |-> [kind |-> "insert", k |-> CHOOSE k \in Keys : TRUE,
                            path |-> "ins"]]
    /\ retries = [c \in Ctx |-> 0]
    /\ res = [c \in Ctx |-> "none"]
    /\ acked = [id \in RecIds |-> None]

Next ==
    \E c \in Ctx :
        \/ Choose(c) \/ LookupHit(c) \/ LookupMiss(c) \/ Reserve(c)
        \/ ReserveFull(c) \/ InsIdx(c) \/ Store(c) \/ RmGet(c) \/ RmIdx(c)
        \/ RmStore(c) \/ CommitStep(c) \/ Finish(c) \/ RollbackStep(c)

Spec == Init /\ [][Next]_vars

-----------------------------------------------------------------------------
\* Types; and a transaction's updates lie at its own m_recId and name it.
TypeOK ==
    /\ wt \in [RecIds -> Seq([txn : Ctx \cup {Committed}, val : WtRows \cup {Absent}])]
    /\ idx \in [Keys -> Seq([txn : Ctx \cup {Committed}, val : RecIds \cup {NoRec}])]
    /\ cg \in [RecIds -> Vals \cup {NoVal}]
    /\ isDel \in Seq(BOOLEAN) /\ Len(isDel) <= MaxRec
    /\ status \in [Ctx -> {"started", "committed", "rollbacked"}]
    /\ recId \in [Ctx -> RecIds]
    /\ \A id \in RecIds : \A u \in Range(wt[id]) : u.txn \in Ctx => recId[u.txn] = id
    /\ \A k \in Keys : \A u \in Range(idx[k]) :
          u.txn \in Ctx => u.val \in {recId[u.txn], NoRec}
    /\ retries \in [Ctx -> 0 .. MaxRetry]
    /\ acked \in [RecIds -> Rows \cup {None}]

\* Index/store agreement (spec 8.2, 8.4): every committed unique-index
\* entry names a recId whose committed WT record carries that key.  Broken
\* if indexInsert/indexRemove and storeUpdate/storeRemove of one table
\* operation could commit apart, or a remove missed the index.
IndexPointsToRow ==
    \A k \in Keys : IdxRec(k) # NoRec =>
        /\ WtRec(IdxRec(k)) # Absent
        /\ WtRec(IdxRec(k)).k = k

\* Readers see committed writes only (spec 8.1, 4.5 "rollback discards
\* buffered writes"): a live recId reads back, through the WT store and
\* the updatable colgroups, exactly the row of its last committed insert or
\* update, whatever other transactions have written but not committed.
CommittedRowsReadable ==
    \A id \in 0 .. Len(isDel) - 1 :
        (~IsDel(id) /\ acked[id] # None) => ReadRow(id) = acked[id]

\* A write the table acknowledged stays visible (spec 4.6 upsert: "update
\* that row"; Scenario C: getValue returns the later-committed payload):
\* once no context is between its commit and its tombstone step, a recId
\* whose last committed write is an insert or update is live.  An upsert
\* that found the row and then overwrites it after a concurrent remove has
\* committed and tombstoned it leaves its row invisible, with no index entry.
AckedRowsLive ==
    \A id \in 0 .. Len(isDel) - 1 :
        (acked[id] # None /\ ~\E c \in Ctx : pc[c] = "finish" /\ recId[c] = id)
            => ~IsDel(id)

\* The live rows of a key: recIds that are not tombstoned and whose
\* committed record carries k.
LiveRowsOf(k) ==
    {id \in 0 .. Len(isDel) - 1 : ~IsDel(id) /\ WtRec(id) # Absent /\ WtRec(id).k = k}

\* A unique key is never held by two live rows (spec 4.2 unique index,
\* 8.2; Scenario C: two concurrent upserts of one key end with one row,
\* one inserting and one updating).  Under read-committed a second
\* insertRow or upsertRow of the key does not see the first one's
\* uncommitted index entry, neither in the lookup nor in indexInsert
\* through the overwrite=false cursor, so both insert and both commit.
OneLiveRowPerKey == \A k \in Keys : Cardinality(LiveRowsOf(k)) <= 1

\* A tombstoned recId is in no index (spec 8.4, 3 invariant 2), once no
\* context is between its commit and its tombstone step: removeRow's
\* indexRemove (keyed by the key storeGetRow read) and the m_isDel bit set
\* after commit must agree, across inserts that race the remove of the
\* same key and upserts that overwrite a row being removed.
TombstonedUnindexed ==
    \A k \in Keys : (IdxRec(k) # NoRec /\ ~\E c \in Ctx : pc[c] = "finish" /\ recId[c] = IdxRec(k))
        => ~IsDel(IdxRec(k))
=============================================================================
