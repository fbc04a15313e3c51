----------------------- MODULE TerichDbSnapshotManager -----------------------
(***************************************************************************)
(* TerichDbSnapshotManager                                                 *)
(* (src/src/mongo_terichdb/terichdb_snapshot_manager.cpp): the named       *)
(* snapshots the MongoDB adapter keeps in the storage engine for majority *)
(* reads.  createSnapshot makes a named snapshot (one engine call, no      *)
(* _mutex); every other method runs under _mutex, so each is one step.    *)
(*                                                                         *)
(* The engine keeps named snapshots in creation order.                    *)
(*   - "drop=(before=N)" drops those created before N; N must exist.       *)
(*   - "drop=(all)" drops all of them.                                     *)
(*   - begin_transaction("snapshot=N") fails when N does not exist.        *)
(* An engine error inside invariantTerichDbOK aborts the process: the      *)
(* variable failed records it.                                             *)
(*                                                                         *)
(* The callers (MongoDB's replication coordinator) are not in the          *)
(* repository.  Their protocol is modelled as the guards of the caller     *)
(* actions:                                                                 *)
(*   - snapshot names grow with the optime;                                 *)
(*   - setCommittedSnapshot names a snapshot that is still listed, never  *)
(*     older than the current committed one;                                *)
(*   - nothing calls the manager after shutdown.                            *)
(***************************************************************************)
EXTENDS Naturals, Sequences, SequencesExt

CONSTANTS
    Readers,     \* operations doing majority reads
    MaxName,     \* bound: snapshot names 1 .. MaxName
    None         \* boost::none / no transaction

Names == 1 .. MaxName

VARIABLES
    committed,   \* _committedSnapshot
    snaps,       \* the engine's named snapshots, oldest first
    lastName,    \* the newest name created so far
    session,     \* _session: "open" or "closed"
    txn,         \* reader -> name of its transaction's snapshot, or None
    failed       \* an invariant or invariantTerichDbOK fired

vars == <<committed, snaps, lastName, session, txn, failed>>

Listed(n) == Contains(snaps, n)

-----------------------------------------------------------------------------
\* createSnapshot(name): session->snapshot("name=<name>") on the caller's
\* recovery-unit session.
createSnapshot ==
    /\ session = "open" /\ lastName < MaxName
    /\ snaps' = Append(snaps, lastName + 1)
    /\ lastName' = lastName + 1
    /\ UNCHANGED <<committed, session, txn, failed>>

\* setCommittedSnapshot(name): invariant(!_committedSnapshot ||
\* *_committedSnapshot <= name); _committedSnapshot = name.
setCommittedSnapshot(n) ==
    /\ session = "open" /\ Listed(n)
    /\ committed # None => committed <= n
    /\ failed' = (failed \/ (committed # None /\ n < committed))
    /\ committed' = n
    /\ UNCHANGED <<snaps, lastName, session, txn>>

\* A cleanup whose drop also removes the committed snapshot.
cleanupUnneededSnapshotsInclusive ==
    /\ session = "open" /\ committed # None
    /\ IF Listed(committed)
       THEN /\ snaps' = SelectSeq(snaps, LAMBDA n : n > committed)
            /\ UNCHANGED failed
       ELSE /\ failed' = TRUE
            /\ UNCHANGED snaps
    /\ UNCHANGED <<committed, lastName, session, txn>>

\* cleanupUnneededSnapshots(): nothing without a committed snapshot;
\* otherwise drop=(before=<committed>), which fails when it is not listed.
cleanupUnneededSnapshots ==
    /\ session = "open" /\ committed # None
    /\ IF Listed(committed)
       THEN /\ snaps' = SubSeq(snaps, SelectInSeq(snaps, LAMBDA n : n = committed), Len(snaps))
            /\ UNCHANGED failed
       ELSE /\ failed' = TRUE
            /\ UNCHANGED snaps
    /\ UNCHANGED <<committed, lastName, session, txn>>

\* A dropAllSnapshots that resets _committedSnapshot to SnapshotName()
\* (name 0) instead of boost::none.
dropAllSnapshotsZeroName ==
    /\ session = "open"
    /\ committed' = 0
    /\ snaps' = <<>>
    /\ UNCHANGED <<lastName, session, txn, failed>>

\* dropAllSnapshots(): _committedSnapshot = boost::none; drop=(all).
dropAllSnapshots ==
    /\ session = "open"
    /\ committed' = None
    /\ snaps' = <<>>
    /\ UNCHANGED <<lastName, session, txn, failed>>

\* beginTransactionOnCommittedSnapshot(session): uassert a committed
\* snapshot (ReadConcernMajorityNotAvailableYet otherwise, a clean error),
\* then begin_transaction("snapshot=<committed>") under invariantTerichDbOK.
beginTransactionOnCommittedSnapshot(r) ==
    /\ session = "open" /\ txn[r] = None
    /\ committed # None
    /\ IF Listed(committed)
       THEN /\ txn' = [txn EXCEPT ![r] = committed]
            /\ UNCHANGED failed
       ELSE /\ failed' = TRUE
            /\ UNCHANGED txn
    /\ UNCHANGED <<committed, snaps, lastName, session>>

\* The reader's recovery unit ends its transaction.
EndTransaction(r) ==
    /\ txn[r] # None
    /\ txn' = [txn EXCEPT ![r] = None]
    /\ UNCHANGED <<committed, snaps, lastName, session, failed>>

\* shutdown(): close _session and null it; later calls are not made.
shutdown ==
    /\ session = "open"
    /\ session' = "closed"
    /\ UNCHANGED <<committed, snaps, lastName, txn, failed>>

-----------------------------------------------------------------------------
Init ==
    /\ committed = None
    /\ snaps = <<>>
    /\ lastName = 0
    /\ session = "open"
    /\ txn = [r \in Readers |-> None]
    /\ failed = FALSE

Next ==
    \/ createSnapshot
    \/ \E n \in Names : setCommittedSnapshot(n)
    \/ cleanupUnneededSnapshots
    \/ dropAllSnapshots
    \/ \E r \in Readers : beginTransactionOnCommittedSnapshot(r) \/ EndTransaction(r)
    \/ shutdown

Spec == Init /\ [][Next]_vars

-----------------------------------------------------------------------------
TypeOK ==
    /\ committed \in Names \cup {None}
    /\ snaps \in Seq(Names) /\ Len(snaps) <= MaxName
    /\ lastName \in 0 .. MaxName
    /\ session \in {"open", "closed"}
    /\ txn \in [Readers -> Names \cup {None}]
    /\ failed \in BOOLEAN

\* The committed snapshot is always one the engine still has, so a
\* majority read can begin on it and the next cleanup can name it.
\* Both cleanup's drop=(before=...) keeping the committed snapshot and
\* dropAllSnapshots clearing _committedSnapshot are needed for this.
CommittedSnapshotListed ==
    committed # None => Listed(committed)
=============================================================================
