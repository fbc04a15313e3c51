------------------------ MODULE MCNestLoudsTrieIndex ------------------------
EXTENDS NestLoudsTrieIndex

\* Three ordered keys: enough for runs, gaps between words, and seeks
\* below, between, on and above the words of the trie.
MCKeyVals == 1 .. 3
=============================================================================
