---------------------------- MODULE OrderedIndex ----------------------------
(***************************************************************************)
(* What an index of a readonly segment promises (spec.md 4.2, 8.3): over  *)
(* the rows of the segment, where recId i has key data[i+1], the ordered  *)
(* cursor walks the (key, recId) pairs in (key, recId) order forward, and *)
(* in the reverse order backward; seekLowerBound lands on the first pair  *)
(* whose key is >= the sought key (0 on an exact match, 1 otherwise, -1   *)
(* if none), seekUpperBound on the first pair whose key is > it; backward *)
(* cursors mirror both; seekMaxPrefix lands on the first (last) pair of  *)
(* a key.  searchExact yields the recIds of the key.                      *)
(*                                                                         *)
(* Keys are abstracted to their byte-lexicographic (encoded) order: a key *)
(* is a number and < is the order of its encoding.                        *)
(***************************************************************************)
EXTENDS Integers, Sequences, FiniteSets

CONSTANTS
    KeyVals,     \* the keys, as ordered values
    MaxRows,     \* bound: rows of the segment
    NoEntry      \* the cursor returned no pair

VARIABLES
    data,        \* the key of each row (recId i -> data[i+1])
    dir,         \* "fwd" or "bwd": the cursor's direction
    pos,         \* the position in Entries of the next pair the cursor yields
    ret,         \* last cursor result: [r |-> code, e |-> pair or NoEntry]
    found        \* last searchExact result, a set of recIds

avars == <<data, dir, pos, ret, found>>

Inputs == UNION {[1 .. n -> KeyVals] : n \in 1 .. MaxRows}

Pairs == {<<data[i], i - 1>> : i \in DOMAIN data}

PairBefore(p, q) == p[1] < q[1] \/ (p[1] = q[1] /\ p[2] < q[2])

\* The pairs in (key, recId) order: the pair with n pairs before it is
\* at position n + 1.
Entries ==
    [i \in 1 .. Len(data) |->
        CHOOSE p \in Pairs : Cardinality({q \in Pairs : PairBefore(q, p)}) = i - 1]

N == Len(data)

\* Forward positions run 1 .. N+1 (N+1: exhausted); backward 0 .. N (0: exhausted).
Start(d) == IF d = "fwd" THEN 1 ELSE N

FirstWith(P(_)) ==
    LET S == {i \in 1 .. N : P(Entries[i][1])} IN
    IF S = {} THEN N + 1 ELSE CHOOSE i \in S : \A j \in S : i <= j

LastWith(P(_)) ==
    LET S == {i \in 1 .. N : P(Entries[i][1])} IN
    IF S = {} THEN 0 ELSE CHOOSE i \in S : \A j \in S : i >= j

Hit(p, code) == [r |-> code, e |-> Entries[p]]
Miss         == [r |-> -1, e |-> NoEntry]

-----------------------------------------------------------------------------
Create(d) ==
    /\ dir' = d
    /\ pos' = Start(d)
    /\ UNCHANGED <<data, ret, found>>

Reset ==
    /\ pos' = Start(dir)
    /\ UNCHANGED <<data, dir, ret, found>>

Increment ==
    /\ IF dir = "fwd"
       THEN IF pos <= N THEN ret' = Hit(pos, 1) /\ pos' = pos + 1
                        ELSE ret' = Miss /\ UNCHANGED pos
       ELSE IF pos >= 1 THEN ret' = Hit(pos, 1) /\ pos' = pos - 1
                        ELSE ret' = Miss /\ UNCHANGED pos
    /\ UNCHANGED <<data, dir, found>>

\* Land on position p (found or not), yield it with the code, move past it.
Land(p, code) ==
    IF dir = "fwd"
    THEN IF p <= N THEN ret' = Hit(p, code) /\ pos' = p + 1
                   ELSE ret' = Miss /\ pos' = N + 1
    ELSE IF p >= 1 THEN ret' = Hit(p, code) /\ pos' = p - 1
                   ELSE ret' = Miss /\ pos' = 0

SeekLowerBound(k) ==
    LET p == IF dir = "fwd" THEN FirstWith(LAMBDA x : x >= k)
                            ELSE LastWith(LAMBDA x : x <= k)
    IN /\ Land(p, IF p \in 1 .. N /\ Entries[p][1] = k THEN 0 ELSE 1)
       /\ UNCHANGED <<data, dir, found>>

SeekUpperBound(k) ==
    LET p == IF dir = "fwd" THEN FirstWith(LAMBDA x : x > k)
                            ELSE LastWith(LAMBDA x : x < k)
    IN /\ Land(p, 1)
       /\ UNCHANGED <<data, dir, found>>

\* seekMaxPrefix(key): the cursor lands on the first pair (forward) or the
\* last pair (backward) of a key of the index, yields it with the matched
\* length, and moves past it.  Which key it lands on is decided by the
\* bytes the key shares with the index's keys; the order abstraction has
\* no bytes, so any key of the index may be the one, and the length is
\* left out (2 stands for it).
SeekMaxPrefix(x) ==
    /\ Land(IF dir = "fwd" THEN FirstWith(LAMBDA y : y = x)
                          ELSE LastWith(LAMBDA y : y = x), 2)
    /\ UNCHANGED <<data, dir, found>>

SearchExact(k) ==
    /\ found' = {i \in 0 .. N - 1 : data[i + 1] = k}
    /\ UNCHANGED <<data, dir, pos, ret>>

AInit ==
    /\ data \in Inputs
    /\ dir \in {"fwd", "bwd"}
    /\ pos = Start(dir)
    /\ ret = Miss
    /\ found = {}

ANext ==
    \/ \E d \in {"fwd", "bwd"} : Create(d)
    \/ Reset
    \/ Increment
    \/ \E k \in KeyVals : SeekLowerBound(k) \/ SeekUpperBound(k) \/ SearchExact(k)
    \/ \E i \in DOMAIN data : SeekMaxPrefix(data[i])

ASpec == AInit /\ [][ANext]_avars
=============================================================================
