------------------------- MODULE NestLoudsTrieIndex -------------------------
(***************************************************************************)
(* NestLoudsTrieIndex (src/src/terark/terichdb/dfadb/nlt_index.cpp): the *)
(* compressed-trie index of a readonly segment.  build() gets from the    *)
(* trie the word id of every row (idToKey); with as many words as rows   *)
(* the index is unique and keyToId inverts idToKey, otherwise keyToId     *)
(* lists the recIds of each word in one run and recBits marks the start  *)
(* of every run.  searchExactAppend and the four cursor classes read     *)
(* these arrays.                                                          *)
(*                                                                         *)
(* The trie (NestLoudsTrieDAWG, an external library) is abstracted to    *)
(* the sorted sequence of its distinct words: a word id is the rank of   *)
(* the word, and its lexicographic iterator (ADFA_LexIterator) to a word *)
(* position with seek_begin, seek_end, incr, decr and seek_lower_bound;  *)
(* seek_max_prefix lands on any word (the key's bytes are abstracted).    *)
(* rank_select's select1 and zero_seq_len are given by their meaning.    *)
(***************************************************************************)
EXTENDS Integers, Sequences, FiniteSets, SequencesExt

CONSTANTS
    KeyVals,     \* the keys, as ordered values
    MaxRows,     \* bound: rows of the segment
    NoEntry,     \* the cursor returned no pair
    NoFile       \* no .idmap file has been saved

VARIABLES
    data,        \* the key of each row, as handed to build()
    built,       \* build() has run
    isUnique,    \* m_isUnique
    words,       \* the trie: its words in lexicographic order
    idToKey,     \* m_idToKey: recId -> word id
    keyToId,     \* m_keyToId: runs of recIds per word
    recBits,     \* m_recBits: rows+1 bits, 1 at the start of every run
    dir,         \* the cursor: "none" before one is created, "fwd" or "bwd"
                 \* (its class is chosen by m_isUnique)
    it,          \* the cursor's fields: [w, cur, end, hasNext]
    ret,         \* last cursor result: [r |-> code, e |-> <<key, id>> or NoEntry]
    found,       \* last searchExactAppend result, as a set of recIds
    file         \* the .idmap file save() wrote, or NoFile

vars == <<data, built, isUnique, words, idToKey, keyToId, recBits, dir, it,
          ret, found, file>>

Inputs == UNION {[1 .. n -> KeyVals] : n \in 1 .. MaxRows}

Rows == Len(data)
Keys == Len(words)
Word(w) == words[w + 1]

\* A cursor with no position (and the fields of none yet created).
Cleared == [w |-> 0, cur |-> -1, end |-> -1, hasNext |-> FALSE]

-----------------------------------------------------------------------------
(* The trie and its lexicographic iterator.                                *)

\* build_with_id: the word id of each row is the rank of its key.
TrieWords(d) == SetToSortSeq(ToSet(d), <)
WordId(ws, k) == CHOOSE w \in 0 .. Len(ws) - 1 : ws[w + 1] = k

Incr(w) == IF w + 1 < Keys THEN [ok |-> TRUE, w |-> w + 1] ELSE [ok |-> FALSE, w |-> w]
Decr(w) == IF w > 0 THEN [ok |-> TRUE, w |-> w - 1] ELSE [ok |-> FALSE, w |-> w]

\* seek_lower_bound: the first word >= k.
SeekLB(k) ==
    LET S == {w \in 0 .. Keys - 1 : Word(w) >= k} IN
    IF S = {} THEN [ok |-> FALSE, w |-> 0]
    ELSE [ok |-> TRUE, w |-> CHOOSE w \in S : \A v \in S : w <= v]

\* rank_select: position of the (j+1)-th 1 bit, and the run of 0 bits at p.
Select1(j) ==
    CHOOSE p \in DOMAIN recBits :
        recBits[p] /\ Cardinality({q \in 0 .. p - 1 : recBits[q]}) = j

RECURSIVE ZeroSeqLen(_)
ZeroSeqLen(p) ==
    IF p \in DOMAIN recBits /\ ~recBits[p] THEN 1 + ZeroSeqLen(p + 1) ELSE 0

-----------------------------------------------------------------------------
(* build()                                                                 *)

\* for (i < rows) psum[1+idToKey[i]]++;  for (i < keys) psum[1+i] += psum[i];
RECURSIVE PrefixSum(_, _, _)
PrefixSum(ps, i, keys) ==
    IF i < keys THEN PrefixSum([ps EXCEPT ![i + 1] = @ + ps[i]], i + 1, keys)
    ELSE ps

PSum(ik, keys, rows) ==
    PrefixSum([j \in 0 .. keys |->
                 IF j = 0 THEN 0
                 ELSE Cardinality({i \in 0 .. rows - 1 : ik[i] = j - 1})],
              0, keys)

\* for (i < rows) keyToId[psum[idToKey[i]]++] = i;
RECURSIVE Scatter(_, _, _, _, _)
Scatter(ik, ps, kti, i, rows) ==
    IF i < rows
    THEN Scatter(ik, [ps EXCEPT ![ik[i]] = @ + 1],
                 [kti EXCEPT ![ps[ik[i]]] = i], i + 1, rows)
    ELSE kti

Build ==
    LET ws   == TrieWords(data)
        rows == Len(data)
        ik   == [i \in 0 .. rows - 1 |-> WordId(ws, data[i + 1])]
        ps   == PSum(ik, Len(ws), rows)
    IN
    /\ ~built
    /\ built' = TRUE
    /\ words' = ws
    /\ idToKey' = ik
    /\ isUnique' = (Len(ws) = rows)
    /\ IF Len(ws) = rows
       THEN /\ keyToId' = [j \in 0 .. rows - 1 |-> CHOOSE i \in 0 .. rows - 1 : ik[i] = j]
            /\ recBits' = <<>>
       ELSE /\ recBits' = [p \in 0 .. rows |-> \E j \in 0 .. Len(ws) : ps[j] = p]
            /\ keyToId' = Scatter(ik, ps, [j \in 0 .. rows - 1 |-> 0], 0, rows)
    /\ UNCHANGED <<data, dir, it, ret, found, file>>

-----------------------------------------------------------------------------
(* searchExactAppend                                                       *)

searchExactAppend(k) ==
    IF k \notin ToSet(words) THEN <<>>
    ELSE IF isUnique THEN <<keyToId[WordId(words, k)]>>
    ELSE LET bitpos == Select1(WordId(words, k))
             dupcnt == ZeroSeqLen(bitpos + 1) + 1
         IN [i \in 1 .. dupcnt |-> keyToId[bitpos + i - 1]]

SearchExact(k) ==
    /\ built
    /\ found' = ToSet(searchExactAppend(k))
    /\ UNCHANGED <<data, built, isUnique, words, idToKey, keyToId, recBits, dir, it, ret, file>>

-----------------------------------------------------------------------------
(* The index as the store of its column, and regex search.                *)

\* numDataRows(): the word count when unique, else recBits' size less the
\* guard bit.
NumDataRows ==
    IF isUnique THEN Keys ELSE Cardinality(DOMAIN recBits) - 1

\* getValueAppend(id): the word the row's word id names.
GetValueAppend(id) == Word(idToKey[id])

\* A regex run whose end leaves out the run's first slot.
RegexRunShort(kid) ==
    LET low == Select1(kid)
        hig == ZeroSeqLen(low + 1) + low
    IN [j \in 1 .. hig - low |-> keyToId[low + j - 1]]

\* The dupable branch of matchRegexAppend for one matched word:
\* keyToId[bitPosLow .. bitPosHig).
RegexRun(kid) ==
    LET low == Select1(kid)
        hig == ZeroSeqLen(low + 1) + low + 1
    IN [j \in 1 .. hig - low |-> keyToId[low + j - 1]]

\* matchRegexAppend: the regex DFA is abstracted to the set S of trie words
\* it accepts; match_dfa yields their states, state_to_word_id their ids.
\* match_dfa failing on regexMatchMemLimit returns false with nothing
\* appended and is left out.
matchRegexAppend(S) ==
    LET ms == SetToSortSeq({WordId(words, k) : k \in S}, <) IN
    IF isUnique THEN [i \in 1 .. Len(ms) |-> keyToId[ms[i]]]
    ELSE FlattenSeq([i \in 1 .. Len(ms) |-> RegexRun(ms[i])])

\* save(): the header (rows = numDataRows(), keys = the trie's word count)
\* and idToKey, keyToId and, when dupable, recBits.  The trie goes to its
\* own .nlt file and is not changed.
save ==
    /\ built
    /\ file' = [rows |-> NumDataRows, keys |-> Keys, idToKey |-> idToKey,
                keyToId |-> keyToId, recBits |-> IF isUnique THEN <<>> ELSE recBits]
    /\ UNCHANGED <<data, built, isUnique, words, idToKey, keyToId, recBits, dir, it, ret, found>>

\* load(): a new index object over the saved files (no cursor exists yet).
\* A trie whose word count is not the header's keys throws.  Both arrays
\* take rows entries, m_isUnique = (keys == rows), and recBits is resized
\* to rows + 1 bits.
load ==
    /\ file # NoFile
    /\ Keys = file.keys
    /\ idToKey' = [i \in 0 .. file.rows - 1 |-> file.idToKey[i]]
    /\ keyToId' = [i \in 0 .. file.rows - 1 |-> file.keyToId[i]]
    /\ isUnique' = (file.keys = file.rows)
    /\ recBits' = IF file.keys = file.rows THEN <<>>
                  ELSE [p \in 0 .. file.rows |-> file.recBits[p]]
    /\ dir' = "none" /\ it' = Cleared
    /\ UNCHANGED <<data, built, words, ret, found, file>>

-----------------------------------------------------------------------------
(* The cursors.  cur/end are m_bitPosCur and m_bitPosUpp (forward) or     *)
(* m_bitPosLow (backward); -1 stands for size_t(-1).                      *)

Hit(w, id, code) == [r |-> code, e |-> <<Word(w), id>>]
Miss             == [r |-> -1, e |-> NoEntry]

\* Mutant: the run end computed without the +1 for the run's first bit.
SyncFwdShortRun(a, hn) ==
    IF hn THEN LET c == Select1(a.w) IN
               [a EXCEPT !.cur = c, !.end = ZeroSeqLen(c + 1) + c, !.hasNext = TRUE]
    ELSE [a EXCEPT !.hasNext = FALSE]

\* DupableIndexIterForward::syncBitPos
SyncFwd(a, hn) ==
    IF hn THEN LET c == Select1(a.w) IN
               [a EXCEPT !.cur = c, !.end = ZeroSeqLen(c + 1) + c + 1, !.hasNext = TRUE]
    ELSE [a EXCEPT !.hasNext = FALSE]

\* DupableIndexIterBackward::syncBitPos
SyncBwd(a, hn) ==
    IF hn THEN LET low == Select1(a.w) IN
               [a EXCEPT !.end = low, !.cur = ZeroSeqLen(low + 1) + low + 1, !.hasNext = TRUE]
    ELSE [a EXCEPT !.hasNext = FALSE]

\* Mutant: no check for the end of the run.
StepFwdNoRunEnd(a) == [a EXCEPT !.cur = @ + 1]

\* After yielding keyToId[cur++]: at the end of the run go to the next word.
StepFwd(a) ==
    LET b == [a EXCEPT !.cur = @ + 1] IN
    IF b.cur = b.end THEN LET n == Incr(b.w) IN SyncFwd([b EXCEPT !.w = n.w], n.ok)
    ELSE b

\* After yielding keyToId[--cur]: at the start of the run go to the previous word.
StepBwd(a) ==
    LET b == [a EXCEPT !.cur = @ - 1] IN
    IF b.cur = b.end THEN LET n == Decr(b.w) IN SyncBwd([b EXCEPT !.w = n.w], n.ok)
    ELSE b

\* A unique cursor keeps just the word position.
UniqAt(w, hn) == [w |-> w, cur |-> -1, end |-> -1, hasNext |-> hn]

\* The constructors (and reset) of the four classes.
Begin(d) ==
    CASE isUnique /\ d = "fwd" -> UniqAt(0, Keys > 0)
      [] isUnique /\ d = "bwd" -> UniqAt(Keys - 1, Keys > 0)
      [] d = "fwd"             -> SyncFwd([Cleared EXCEPT !.w = 0], Keys > 0)
      [] OTHER                 -> SyncBwd([Cleared EXCEPT !.w = Keys - 1], Keys > 0)

CursorOnly == UNCHANGED <<data, built, isUnique, words, idToKey, keyToId, recBits, found, file>>

\* createIndexIterForward / createIndexIterBackward
CreateIter(d) ==
    /\ built
    /\ dir' = d
    /\ it' = Begin(d)
    /\ UNCHANGED ret
    /\ CursorOnly

Reset ==
    /\ dir # "none"
    /\ it' = Begin(dir)
    /\ UNCHANGED <<dir, ret>>
    /\ CursorOnly

\* increment() of each class, as a result/next-cursor pair: with no next
\* pair it returns false and leaves the cursor.
IncrUniqFwd(a) == LET n == Incr(a.w) IN [ret |-> Hit(a.w, keyToId[a.w], 1), it |-> UniqAt(n.w, n.ok)]
IncrUniqBwd(a) == LET n == Decr(a.w) IN [ret |-> Hit(a.w, keyToId[a.w], 1), it |-> UniqAt(n.w, n.ok)]
IncrDupFwd(a) == [ret |-> Hit(a.w, keyToId[a.cur], 1), it |-> StepFwd(a)]
IncrDupBwd(a) == [ret |-> Hit(a.w, keyToId[a.cur - 1], 1), it |-> StepBwd(a)]

IncrResult(a) ==
    CASE ~a.hasNext -> [ret |-> Miss, it |-> a]
      [] isUnique /\ dir = "fwd" -> IncrUniqFwd(a)
      [] isUnique -> IncrUniqBwd(a)
      [] dir = "fwd" -> IncrDupFwd(a)
      [] OTHER -> IncrDupBwd(a)

Increment ==
    /\ dir # "none"
    /\ ret' = IncrResult(it).ret
    /\ it' = IncrResult(it).it
    /\ UNCHANGED dir
    /\ CursorOnly

\* seekLowerBound(key) of each class; s is the trie's seek_lower_bound and
\* code the result (0 on the key itself, else 1).
SeekLowerUniqFwd(s, code) ==
    IF s.ok THEN LET n == Incr(s.w) IN [ret |-> Hit(s.w, keyToId[s.w], code), it |-> UniqAt(n.w, n.ok)]
    ELSE [ret |-> Miss, it |-> [it EXCEPT !.hasNext = FALSE]]

SeekLowerUniqBwd(s, code) ==
    IF s.ok /\ code = 0
    THEN LET n == Decr(s.w) IN [ret |-> Hit(s.w, keyToId[s.w], 0), it |-> UniqAt(n.w, n.ok)]
    ELSE IF s.ok THEN LET n == Decr(s.w) IN IncrResult(UniqAt(n.w, n.ok))
    ELSE IncrResult(UniqAt(Keys - 1, Keys > 0))

SeekLowerDupFwd(s, code) ==
    IF s.ok THEN LET a == SyncFwd([it EXCEPT !.w = s.w], TRUE) IN
                 [ret |-> Hit(a.w, keyToId[a.cur], code), it |-> StepFwd(a)]
    ELSE [ret |-> Miss, it |-> [it EXCEPT !.cur = -1, !.end = -1, !.hasNext = FALSE]]

SeekLowerDupBwd(s, code) ==
    IF s.ok /\ code = 0
    THEN LET a == SyncBwd([it EXCEPT !.w = s.w], TRUE) IN
         [ret |-> Hit(a.w, keyToId[a.cur - 1], 0), it |-> StepBwd(a)]
    ELSE IF s.ok THEN LET n == Decr(s.w) IN IncrResult(SyncBwd([it EXCEPT !.w = n.w], n.ok))
    ELSE IncrResult(SyncBwd([it EXCEPT !.w = Keys - 1], Keys > 0))

SeekLowerResult(k) ==
    LET s == SeekLB(k)
        code == IF s.ok /\ Word(s.w) = k THEN 0 ELSE 1
    IN  CASE isUnique /\ dir = "fwd" -> SeekLowerUniqFwd(s, code)
          [] isUnique -> SeekLowerUniqBwd(s, code)
          [] dir = "fwd" -> SeekLowerDupFwd(s, code)
          [] OTHER -> SeekLowerDupBwd(s, code)

SeekLowerBound(k) ==
    /\ dir # "none"
    /\ ret' = SeekLowerResult(k).ret
    /\ it' = SeekLowerResult(k).it
    /\ UNCHANGED dir
    /\ CursorOnly

\* seekUpperBound(key): only the dupable classes override it.
SeekUpperResult(k) ==
    LET s == SeekLB(k) IN
    IF dir = "fwd"
    THEN LET n == IF s.ok /\ Word(s.w) = k THEN Incr(s.w) ELSE [ok |-> s.ok, w |-> s.w] IN
         IF n.ok THEN LET a == SyncFwd([it EXCEPT !.w = n.w], TRUE) IN
                      [ret |-> Hit(a.w, keyToId[a.cur], 1), it |-> StepFwd(a)]
         ELSE [ret |-> Miss, it |-> [it EXCEPT !.cur = -1, !.end = -1, !.hasNext = FALSE]]
    ELSE IF s.ok
         THEN LET n == Decr(s.w) IN
              IF ~n.ok
              THEN [ret |-> Miss, it |-> [it EXCEPT !.cur = -1, !.end = -1, !.hasNext = FALSE]]
              ELSE LET a == SyncBwd([it EXCEPT !.w = n.w], TRUE) IN
                   [ret |-> Hit(a.w, keyToId[a.cur - 1], 1), it |-> StepBwd(a)]
         ELSE IncrResult(Begin("bwd"))

SeekUpperBound(k) ==
    /\ dir # "none" /\ ~isUnique
    /\ ret' = SeekUpperResult(k).ret
    /\ it' = SeekUpperResult(k).it
    /\ UNCHANGED dir
    /\ CursorOnly

(* seekMaxPrefix(key) of the four classes.  m_iter->seek_max_prefix(key) *)
(* is the trie's prefix walk (external): it leaves the iterator on a word  *)
(* w and returns the matched length, which the order abstraction of keys *)
(* drops (2 stands for it).  Each class then reads the recId of w and    *)
(* steps as its increment does.                                          *)

\* UniqueIndexIterForward: keyToId[dawgIdx], m_hasNext = incr().
MaxPrefixUniqFwd(w) ==
    LET n == Incr(w) IN [ret |-> Hit(w, keyToId[w], 2), it |-> UniqAt(n.w, n.ok)]

\* UniqueIndexIterBackward: keyToId[dawgIdx], m_hasNext = decr().
MaxPrefixUniqBwd(w) ==
    LET n == Decr(w) IN [ret |-> Hit(w, keyToId[w], 2), it |-> UniqAt(n.w, n.ok)]

\* DupableIndexIterForward: syncBitPos(true); keyToId[m_bitPosCur++], and
\* at m_bitPosUpp syncBitPos(incr()).
MaxPrefixDupFwd(w) ==
    LET a == SyncFwd([it EXCEPT !.w = w], TRUE) IN
    [ret |-> Hit(w, keyToId[a.cur], 2), it |-> StepFwd(a)]

\* DupableIndexIterBackward: syncBitPos(true); keyToId[--m_bitPosCur], and
\* at m_bitPosLow syncBitPos(decr()).
MaxPrefixDupBwd(w) ==
    LET a == SyncBwd([it EXCEPT !.w = w], TRUE) IN
    [ret |-> Hit(w, keyToId[a.cur - 1], 2), it |-> StepBwd(a)]

\* The call through IndexIterator: seek_max_prefix lands on some word w of
\* the (non-empty) trie.
SeekMaxPrefix(w) ==
    LET r == CASE isUnique /\ dir = "fwd" -> MaxPrefixUniqFwd(w)
               [] isUnique                -> MaxPrefixUniqBwd(w)
               [] dir = "fwd"             -> MaxPrefixDupFwd(w)
               [] OTHER                   -> MaxPrefixDupBwd(w)
    IN /\ dir # "none"
       /\ ret' = r.ret
       /\ it' = r.it
       /\ UNCHANGED dir
       /\ CursorOnly

-----------------------------------------------------------------------------
Init ==
    /\ data \in Inputs
    /\ built = FALSE
    /\ isUnique = FALSE
    /\ words = <<>>
    /\ idToKey = <<>>
    /\ keyToId = <<>>
    /\ recBits = <<>>
    /\ dir = "none"
    /\ it = Cleared
    /\ ret = Miss
    /\ found = {}
    /\ file = NoFile

Next ==
    \/ Build
    \/ \E d \in {"fwd", "bwd"} : CreateIter(d)
    \/ Reset
    \/ Increment
    \/ \E k \in KeyVals : SearchExact(k) \/ SeekLowerBound(k) \/ SeekUpperBound(k)
    \/ \E w \in 0 .. Keys - 1 : SeekMaxPrefix(w)
    \/ save \/ load

Spec == Init /\ [][Next]_vars

-----------------------------------------------------------------------------
\* Types; and a cursor with a next pair has m_bitPosCur inside m_keyToId
\* (forward: the slot it reads next; backward: the slot after it).
TypeOK ==
    /\ data \in Inputs
    /\ built \in BOOLEAN /\ isUnique \in BOOLEAN
    /\ dir \in {"none", "fwd", "bwd"}
    /\ it \in [w : 0 .. MaxRows, cur : -1 .. MaxRows, end : -1 .. MaxRows,
               hasNext : BOOLEAN]
    /\ (it.hasNext /\ ~isUnique) =>
          it.cur \in IF dir = "fwd" THEN 0 .. Rows - 1 ELSE 1 .. Rows
    /\ found \subseteq 0 .. MaxRows - 1

\* The cursor mapped onto the abstract ordered index: a unique cursor is
\* at word w, which is entry w+1; a dupable one at m_bitPosCur, the slot
\* of the next recId forward and the slot after it backward.
AbsPos ==
    CASE dir = "none"  -> 1
      [] dir = "fwd"   -> IF ~it.hasNext THEN Rows + 1
                          ELSE IF isUnique THEN it.w + 1 ELSE it.cur + 1
      [] OTHER         -> IF ~it.hasNext THEN 0
                          ELSE IF isUnique THEN it.w + 1 ELSE it.cur

Abs == INSTANCE OrderedIndex
         WITH dir <- IF dir = "none" THEN "fwd" ELSE dir, pos <- AbsPos

\* NestLoudsTrieIndex implements the ordered-index contract (spec 4.2, 8.3):
\* the unique and dupable cursors of both directions, with the bit-run
\* bookkeeping of syncBitPos, visit the (key, recId) pairs in order and
\* seek as the abstract index does; searchExactAppend returns the recIds
\* of the key.
Refinement == Abs!ASpec

\* The paths that read the index without a cursor give back the rows
\* build() was handed, also after a save() and load() of the index:
\* numDataRows() is the row count, getValueAppend(id) is row id's key, and
\* matchRegexAppend, for every set of words a regex can accept, appends
\* each recId whose key it accepts exactly once (the bitPosLow/bitPosHig
\* run bounds over recBits, and load's rebuilt unique flag and bit count).
ReadPathsExact ==
    built =>
        /\ NumDataRows = Rows
        /\ \A id \in 0 .. Rows - 1 : GetValueAppend(id) = data[id + 1]
        /\ \A S \in SUBSET ToSet(words) :
              LET m == matchRegexAppend(S) IN
              /\ IsInjective(m)
              /\ ToSet(m) = {i \in 0 .. Rows - 1 : data[i + 1] \in S}
=============================================================================
