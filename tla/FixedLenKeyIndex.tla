-------------------------- MODULE FixedLenKeyIndex --------------------------
(***************************************************************************)
(* FixedLenKeyIndex (src/src/terark/terichdb/fixed_len_key_index.cpp): a *)
(* readonly-segment index over fixed-length keys.  build() sorts the row  *)
(* numbers by (key, recId) into m_index and counts the distinct keys      *)
(* (m_uniqKeys, m_isUnique); searchExactAppend and the cursors binary-    *)
(* search m_index.  One cursor object is modelled, created forward or     *)
(* backward.  Keys are signed integers of KeyBits bits; when the schema  *)
(* asks for it (m_needEncodeToLexByteComparable) build() stores them      *)
(* byte-lex encoded, searches encode the sought key (the _cvt wrappers)   *)
(* and getValueAppend decodes.  save() writes the header, keys and index  *)
(* to the .fixlen file and load() maps them back.                         *)
(***************************************************************************)
EXTENDS Integers, Sequences, FiniteSets, SequencesExt

CONSTANTS
    KeyVals,     \* the keys callers pass, signed integers
    KeyBits,     \* the width of a key in bits
    NeedEncode,  \* Schema::m_needEncodeToLexByteComparable
    NoFile,      \* no .fixlen file has been saved
    MaxRows,     \* bound: rows of the segment
    NoEntry,     \* the cursor returned no pair
    Junk         \* bytes past the end of m_strpool, unequal to every key

VARIABLES
    data,        \* m_strpool before build, m_keys after: key of each recId
    built,       \* build() has run
    index,       \* m_index: recIds sorted by (key, recId), 0-based positions
    uniqKeys,    \* m_uniqKeys
    isUnique,    \* m_isUnique
    dir,         \* the cursor: MyIndexIterForward ("fwd") or ...Backward ("bwd")
    keyIdx,      \* the cursor's m_keyIdx
    ret,         \* last cursor result: [r |-> code, e |-> <<key, id>> or NoEntry]
    found,       \* last searchExactAppend result, as a set of recIds
    file         \* the .fixlen file: header, m_keys and m_index, or NoFile

vars == <<data, built, index, uniqKeys, isUnique, dir, keyIdx, ret, found, file>>

Inputs == UNION {[1 .. n -> KeyVals] : n \in 1 .. MaxRows}

Rows == Len(data)

\* Schema::byteLexEncode / byteLexDecode of a signed KeyBits-bit integer:
\* two's complement with the sign bit flipped, read big-endian, so that
\* memcmp of two encodings is the numeric order of the unsigned values.
Half == 2 ^ (KeyBits - 1)
byteLexEncode(k) == (k + Half) % (2 * Half)
byteLexDecode(u) == LET t == (u + Half) % (2 * Half) IN
                    IF t >= Half THEN t - 2 * Half ELSE t

Encode(k) == IF NeedEncode THEN byteLexEncode(k) ELSE k

RawKey(id) == data[id + 1]                 \* the bytes m_keys holds for id
KeyOf(id) ==                               \* getValueAppend(id)
    IF NeedEncode THEN byteLexDecode(RawKey(id)) ELSE RawKey(id)
IndexAt(m) == index[m + 1]                 \* m_index.get(m)
Pair(m) == <<KeyOf(IndexAt(m)), IndexAt(m)>>

-----------------------------------------------------------------------------
(* build()                                                                 *)

\* std::sort of 0..rows-1 with the comparator (memcmp of the keys, then x < y).
SortedRecIds(d) ==
    SetToSortSeq(0 .. Len(d) - 1,
                 LAMBDA x, y : d[x + 1] < d[y + 1] \/ (d[x + 1] = d[y + 1] /\ x < y))

\* The counting loop compares data + fixlen*j with data + fixlen*(j+1): the
\* rows in strpool order (not m_index order), and at j = rows-1 the bytes
\* past the pool.  ext is the pool followed by what lies beyond it.
RECURSIVE RunEnd(_, _)
RunEnd(ext, j) ==
    IF ext[j + 1] = ext[j + 2] THEN RunEnd(ext, j + 1) ELSE j + 1

RECURSIVE CountRuns(_, _, _)
CountRuns(ext, i, rows) ==
    IF i < rows THEN 1 + CountRuns(ext, RunEnd(ext, i), rows) ELSE 0

\* Reading past m_strpool is undefined: the bytes there may equal the last
\* key or not; Junk ends the run either way.
Beyond == {<<x, Junk>> : x \in {Encode(k) : k \in KeyVals} \cup {Junk}}

\* The pool is encoded in place first; sorting and counting see the
\* encoded bytes, which become m_keys.
Build ==
    LET enc == [i \in 1 .. Rows |-> Encode(data[i])] IN
    /\ ~built
    /\ built' = TRUE
    /\ data' = enc
    /\ index' = SortedRecIds(enc)
    /\ \E b \in Beyond :
          /\ uniqKeys' = CountRuns(enc \o b, 0, Rows)
          /\ isUnique' = (uniqKeys' = Rows)
    /\ UNCHANGED <<dir, keyIdx, ret, found, file>>

-----------------------------------------------------------------------------
(* Binary searches and searchExactAppend.  The loops compare m_keys with *)
(* the already encoded key ck.                                             *)

RECURSIVE LowerBoundLoop(_, _, _)
LowerBoundLoop(k, i, j) ==
    IF i < j
    THEN LET mid == (i + j) \div 2 IN
         IF RawKey(IndexAt(mid)) < k THEN LowerBoundLoop(k, mid + 1, j)
                                    ELSE LowerBoundLoop(k, i, mid)
    ELSE i

\* Mutant: upper bound searched with < (it stops at the first equal key).
RECURSIVE UpperBoundLoopStrict(_, _, _)
UpperBoundLoopStrict(k, i, j) ==
    IF i < j
    THEN LET mid == (i + j) \div 2 IN
         IF RawKey(IndexAt(mid)) < k THEN UpperBoundLoopStrict(k, mid + 1, j)
                                    ELSE UpperBoundLoopStrict(k, i, mid)
    ELSE i

RECURSIVE UpperBoundLoop(_, _, _)
UpperBoundLoop(k, i, j) ==
    IF i < j
    THEN LET mid == (i + j) \div 2 IN
         IF RawKey(IndexAt(mid)) <= k THEN UpperBoundLoop(k, mid + 1, j)
                                     ELSE UpperBoundLoop(k, i, mid)
    ELSE i

searchLowerBound(ck) == LowerBoundLoop(ck, 0, Len(index))
searchUpperBound(ck) == UpperBoundLoop(ck, 0, Len(index))

\* Mutant: the cursor's key searched without being encoded first.
searchLowerBound_cvtRaw(k) == searchLowerBound(k)

searchLowerBound_cvt(k) == searchLowerBound(Encode(k))
searchUpperBound_cvt(k) == searchUpperBound(Encode(k))

RECURSIVE CollectEqual(_, _)
CollectEqual(ck, j) ==
    IF j < Len(index) /\ RawKey(IndexAt(j)) = ck
    THEN <<IndexAt(j)>> \o CollectEqual(ck, j + 1)
    ELSE <<>>

searchExactAppend(k) == CollectEqual(Encode(k), searchLowerBound(Encode(k)))

SearchExact(k) ==
    /\ built
    /\ found' = ToSet(searchExactAppend(k))
    /\ UNCHANGED <<data, built, index, uniqKeys, isUnique, dir, keyIdx, ret, file>>

-----------------------------------------------------------------------------
(* The cursors.                                                            *)

Hit(m, code) == [r |-> code, e |-> Pair(m)]
Miss         == [r |-> -1, e |-> NoEntry]

CursorOnly == UNCHANGED <<data, built, index, uniqKeys, isUnique, found, file>>

\* Where a cursor starts: MyIndexIterForward's constructor sets m_keyIdx to
\* 0, MyIndexIterBackward's constructor and reset to m_index.size().
ForwardStart == 0
BackwardStart == Len(index)

\* createIndexIterForward / createIndexIterBackward.
CreateIter(d) ==
    /\ built
    /\ dir' = d
    /\ keyIdx' = IF d = "fwd" THEN ForwardStart ELSE BackwardStart
    /\ UNCHANGED ret
    /\ CursorOnly

Reset ==
    /\ built
    /\ keyIdx' = IF dir = "fwd" THEN ForwardStart ELSE BackwardStart
    /\ UNCHANGED <<dir, ret>>
    /\ CursorOnly

IncrementForward ==
    /\ built /\ dir = "fwd"
    /\ IF keyIdx < Len(index)
       THEN ret' = Hit(keyIdx, 1) /\ keyIdx' = keyIdx + 1
       ELSE ret' = Miss /\ UNCHANGED keyIdx
    /\ UNCHANGED dir
    /\ CursorOnly

\* Mutant: m_keyIdx advanced even when nothing was found.
SeekLowerBoundForwardUnchecked(k) ==
    LET m == searchLowerBound_cvt(k) IN
    /\ built /\ dir = "fwd"
    /\ keyIdx' = m + 1
    /\ ret' = IF m < Len(index)
              THEN Hit(m, IF KeyOf(IndexAt(m)) = k THEN 0 ELSE 1)
              ELSE Miss
    /\ UNCHANGED dir
    /\ CursorOnly

SeekLowerBoundForward(k) ==
    LET m == searchLowerBound_cvt(k) IN
    /\ built /\ dir = "fwd"
    /\ keyIdx' = IF m < Len(index) THEN m + 1 ELSE m
    /\ ret' = IF m < Len(index)
              THEN Hit(m, IF KeyOf(IndexAt(m)) = k THEN 0 ELSE 1)
              ELSE Miss
    /\ UNCHANGED dir
    /\ CursorOnly

SeekUpperBoundForward(k) ==
    LET m == searchUpperBound_cvt(k) IN
    /\ built /\ dir = "fwd"
    /\ keyIdx' = IF m < Len(index) THEN m + 1 ELSE m
    /\ ret' = IF m < Len(index) THEN Hit(m, 1) ELSE Miss
    /\ UNCHANGED dir
    /\ CursorOnly

IncrementBackward ==
    /\ built /\ dir = "bwd"
    /\ IF keyIdx > 0
       THEN ret' = Hit(keyIdx - 1, 1) /\ keyIdx' = keyIdx - 1
       ELSE ret' = Miss /\ UNCHANGED keyIdx
    /\ UNCHANGED dir
    /\ CursorOnly

\* Backward seekLowerBound starts from searchUpperBound and steps back.
SeekLowerBoundBackward(k) ==
    LET m == searchUpperBound_cvt(k) IN
    /\ built /\ dir = "bwd"
    /\ keyIdx' = IF m > 0 THEN m - 1 ELSE m
    /\ ret' = IF m > 0
              THEN Hit(m - 1, IF KeyOf(IndexAt(m - 1)) = k THEN 0 ELSE 1)
              ELSE Miss
    /\ UNCHANGED dir
    /\ CursorOnly

SeekUpperBoundBackward(k) ==
    LET m == searchLowerBound_cvt(k) IN
    /\ built /\ dir = "bwd"
    /\ keyIdx' = IF m > 0 THEN m - 1 ELSE m
    /\ ret' = IF m > 0 THEN Hit(m - 1, 1) ELSE Miss
    /\ UNCHANGED dir
    /\ CursorOnly

-----------------------------------------------------------------------------
(* save() and load().                                                      *)

\* numDataRows() is m_index.size().
numDataRows == Len(index)

\* save(): the header {rows = m_index.size(), uniqKeys, fixlen}, then the
\* encoded m_keys padded to 16 bytes, then m_index.
save ==
    /\ built
    /\ file' = [rows |-> numDataRows, uniqKeys |-> uniqKeys,
                keys |-> data, index |-> index]
    /\ UNCHANGED <<data, built, index, uniqKeys, isUnique, dir, keyIdx, ret, found>>

\* load() into a fresh FixedLenKeyIndex: m_isUnique from the header,
\* m_keys and m_index set over the mapped bytes (rows of each).  The old
\* object's cursor goes with it; a new forward cursor is created.
load ==
    /\ file # NoFile
    /\ built' = TRUE
    /\ isUnique' = (file.uniqKeys = file.rows)
    /\ uniqKeys' = file.uniqKeys
    /\ data' = SubSeq(file.keys, 1, file.rows)
    /\ index' = SubSeq(file.index, 1, file.rows)
    /\ dir' = "fwd"
    /\ keyIdx' = 0
    /\ UNCHANGED <<ret, found, file>>

-----------------------------------------------------------------------------
Init ==
    /\ data \in Inputs
    /\ built = FALSE
    /\ index = <<>>
    /\ uniqKeys = 0
    /\ isUnique = FALSE
    /\ dir = "fwd"
    /\ keyIdx = 0
    /\ ret = Miss
    /\ found = {}
    /\ file = NoFile

Next ==
    \/ Build
    \/ save
    \/ load
    \/ \E d \in {"fwd", "bwd"} : CreateIter(d)
    \/ Reset
    \/ IncrementForward
    \/ IncrementBackward
    \/ \E k \in KeyVals :
          \/ SearchExact(k)
          \/ SeekLowerBoundForward(k) \/ SeekUpperBoundForward(k)
          \/ SeekLowerBoundBackward(k) \/ SeekUpperBoundBackward(k)

Spec == Init /\ [][Next]_vars

-----------------------------------------------------------------------------
TypeOK ==
    /\ data \in Seq(0 .. 2 * Half - 1) \cup Inputs
    /\ built \in BOOLEAN
    /\ index \in Seq(0 .. MaxRows - 1)
    /\ dir \in {"fwd", "bwd"}
    /\ keyIdx \in 0 .. Rows
    /\ file \in {NoFile} \cup [rows : 1 .. MaxRows, uniqKeys : 0 .. MaxRows,
                               keys : Seq(Int), index : Seq(0 .. MaxRows - 1)]
    /\ found \subseteq 0 .. MaxRows - 1

\* The cursor state mapped onto the abstract ordered index: forward
\* m_keyIdx is the 0-based position of the next pair, backward the number
\* of pairs still before the cursor.
\* The rows are the decoded keys getValueAppend returns for the
\* numDataRows() recIds once built, the pool before.
AbsData == IF built THEN [i \in 1 .. numDataRows |-> KeyOf(i - 1)] ELSE data

Abs == INSTANCE OrderedIndex
         WITH data <- AbsData,
              pos <- IF dir = "fwd" THEN keyIdx + 1 ELSE keyIdx

\* FixedLenKeyIndex implements the ordered-index contract (spec 4.2, 8.3):
\* every cursor move and searchExactAppend of the code returns what the
\* abstract index over the same rows returns.
Refinement == Abs!ASpec

\* An index that reports itself unique returns at most one recId for any
\* key (spec 4.2: "for unique indexes the result length is 0 or 1"), so
\* m_isUnique computed by build() must mean no key occurs twice.
UniqueFlagSound ==
    (built /\ isUnique) => \A k \in KeyVals : Len(searchExactAppend(k)) <= 1
=============================================================================
