-------------------------- MODULE DbContextObjCache --------------------------
(***************************************************************************)
(* DbContextObjCache<valvec<byte>> (src/src/terark/terichdb/db_context.hpp): *)
(* the per-context pool of scratch buffers.  get() pops a pooled Wrapper  *)
(* or allocates one and hands it out in a CacheItem; a CacheItem is       *)
(* move-only, its move constructor steals the pointer and nulls the      *)
(* source; its destructor frees an oversized buffer's memory and pushes   *)
(* the Wrapper back onto the pool.                                         *)
(*                                                                         *)
(* CacheItem objects (locals and temporaries of the callers) are the     *)
(* constant set Slots; a slot is Dead when no CacheItem lives in it.      *)
(* A buffer's contents are left out, and so is                          *)
(* DbContextObjCacheFreeExcessMem, which clear()s (frees) a buffer over   *)
(* limit_size before it is pooled: it changes no ownership.               *)
(* ~DbContextObjCache deletes the pooled                                  *)
(* Wrappers; it runs when the DbContext is released, after its methods   *)
(* (whose locals the CacheItems are) have returned, so no item is live.  *)
(***************************************************************************)
EXTENDS Naturals, Sequences, FiniteSets, SequencesExt

CONSTANTS
    Slots,       \* places a CacheItem can live in
    MaxObjs,     \* bound: Wrappers allocated by new
    Null,        \* CacheItem::obj == nullptr (moved from)
    Dead         \* no CacheItem in this slot

Objs == 1 .. MaxObjs

VARIABLES
    pool,        \* valvec<Wrapper*> pool, bottom first
    allocated,   \* Wrappers created by new Wrapper{this, {}} so far
    held,        \* slot -> the Wrapper its CacheItem points to, Null or Dead
    deleted,     \* Wrappers freed by delete
    alive        \* the DbContextObjCache has not been destroyed

vars == <<pool, allocated, held, deleted, alive>>

-----------------------------------------------------------------------------
\* get(): reuse the most recently pooled Wrapper, or allocate a new one.
get(s) ==
    /\ alive /\ held[s] = Dead
    /\ IF pool = <<>>
       THEN /\ allocated < MaxObjs
            /\ allocated' = allocated + 1
            /\ held' = [held EXCEPT ![s] = allocated + 1]
            /\ UNCHANGED pool
       ELSE /\ held' = [held EXCEPT ![s] = Last(pool)]
            /\ pool' = Front(pool)
            /\ UNCHANGED allocated
    /\ UNCHANGED <<deleted, alive>>

\* A move constructor that copies the pointer and leaves the source alone.
CacheItemMoveCopying(s, t) ==
    /\ held[s] # Dead /\ held[t] = Dead /\ s # t
    /\ held' = [held EXCEPT ![t] = held[s]]
    /\ UNCHANGED <<pool, allocated, deleted, alive>>

\* CacheItem(CacheItem&& o): obj(o.obj) { o.obj = nullptr; }
CacheItemMove(s, t) ==
    /\ held[s] # Dead /\ held[t] = Dead /\ s # t
    /\ held' = [held EXCEPT ![t] = held[s], ![s] = Null]
    /\ UNCHANGED <<pool, allocated, deleted, alive>>

\* A destructor without the if (obj) test.
CacheItemDestroyUnchecked(s) ==
    /\ held[s] # Dead
    /\ held' = [held EXCEPT ![s] = Dead]
    /\ pool' = Append(pool, held[s])
    /\ UNCHANGED <<allocated, deleted, alive>>

\* ~CacheItem(): a moved-from item does nothing; otherwise (after
\* DbContextObjCacheFreeExcessMem) the Wrapper goes back onto the pool.
CacheItemDestroy(s) ==
    /\ held[s] # Dead
    /\ held' = [held EXCEPT ![s] = Dead]
    /\ pool' = IF held[s] = Null THEN pool ELSE Append(pool, held[s])
    /\ UNCHANGED <<allocated, deleted, alive>>

\* ~DbContextObjCache(): delete every pooled Wrapper.  (The pool's own
\* storage is freed by valvec's destructor.)
DestroyCache ==
    /\ alive
    /\ \A s \in Slots : held[s] \in {Null, Dead}
    /\ deleted' = deleted \cup Range(pool)
    /\ pool' = <<>>
    /\ alive' = FALSE
    /\ UNCHANGED <<allocated, held>>

-----------------------------------------------------------------------------
Init ==
    /\ pool = <<>>
    /\ allocated = 0
    /\ held = [s \in Slots |-> Dead]
    /\ deleted = {}
    /\ alive = TRUE

Next ==
    \E s \in Slots :
        \/ get(s)
        \/ CacheItemDestroy(s)
        \/ \E t \in Slots : CacheItemMove(s, t)
    \/ DestroyCache

Spec == Init /\ [][Next]_vars

-----------------------------------------------------------------------------
TypeOK ==
    /\ pool \in Seq(Objs)
    /\ allocated \in 0 .. MaxObjs
    /\ held \in [Slots -> Objs \cup {Null, Dead}]
    /\ deleted \subseteq Objs
    /\ alive \in BOOLEAN

\* Where a Wrapper is: each pool entry, each live CacheItem pointing at
\* it, and its delete.
Owners(o) ==
    Cardinality({i \in DOMAIN pool : pool[i] = o}) + Cardinality({s \in Slots : held[s] = o})
        + (IF o \in deleted THEN 1 ELSE 0)

\* Every Wrapper ever allocated is owned exactly once: either pooled or
\* held by one CacheItem, or (once ~DbContextObjCache has run) deleted.
\* Two owners means two callers share one buffer (and a later get() hands
\* it out again while in use) or a double delete; none means it leaked.
\* This is what the move constructor's nulling, ~CacheItem's push back
\* and ~DbContextObjCache's deletes together maintain.
SingleOwner == \A o \in 1 .. allocated : Owners(o) = 1

=============================================================================
