------------------------------- MODULE Merkle -------------------------------
(***************************************************************************)
(* The Merkle tree over the event log.  The first half is the tlog library *)
(* as audit.rs uses it (tlog_tiles, not part of this repository): hashes   *)
(* of complete subtrees are kept under one index each, and a tree hash or  *)
(* a proof is put together from them.  The second half is the reference:   *)
(* what RFC 6962 says a tree hash is and where a proof must lead, from the *)
(* leaves alone.                                                           *)
(*                                                                         *)
(* A hash is the term that was hashed, so two are equal only when the same *)
(* leaves went in in the same order (collision freedom).  A range <<lo,    *)
(* hi>> stands for the leaves lo..hi-1.                                    *)
(***************************************************************************)
EXTENDS Integers, Sequences

\* compute_event_hash covers the log_index and the actor, among others.
Leaf(index, actor) == <<"leaf", index, actor>>

\* tlog::node_hash.
Node(left, right) == <<"node", left, right>>

\* n >> level.
Shift(n, level) == n \div 2^level

\* The largest complete subtree that is smaller than a tree of n > 1 leaves:
\* its level and its size.
SplitLevel(n) == CHOOSE l \in 0..n : 2^l < n /\ n <= 2^(l + 1)
Split(n) == 2^SplitLevel(n)

\* tlog::stored_hash_index: subtrees in the order in which they are completed.
StoredHashIndex(level, n) ==
    LET last == n * 2^level + 2^level - 1
        before[m \in 0..last] == IF m = 0 THEN 0 ELSE m + before[m \div 2]
    IN  before[last] + level

\* The largest complete subtree at the left end of a range: its level, its
\* stored index and where it ends.
LeftLevel(lo, hi) == SplitLevel(hi - lo + 1)
LeftIndex(lo, hi) == StoredHashIndex(LeftLevel(lo, hi), Shift(lo, LeftLevel(lo, hi)))
LeftEnd(lo, hi) == lo + 2^LeftLevel(lo, hi)

\* The stored hashes that make up a range: the largest subtrees, left to right.
Subtrees(range) ==
    LET hi == range[2]
        from[lo \in 0..hi] ==
            IF lo = hi THEN {} ELSE {LeftIndex(lo, hi)} \cup from[LeftEnd(lo, hi)]
    IN  from[range[1]]

\* HashReader::read_hashes fails when a hash is missing.
Readable(h, range) == Subtrees(range) \subseteq DOMAIN h

\* The hash of a range from stored hashes, combined from the right.
SubTreeHash(h, range) ==
    LET hi == range[2]
        hash[lo \in 0..(hi - 1)] ==
            LET left == h[LeftIndex(lo, hi)] IN
            IF LeftEnd(lo, hi) = hi THEN left ELSE Node(left, hash[LeftEnd(lo, hi)])
    IN  hash[range[1]]

SubTreeHashes(h, ranges) == [i \in DOMAIN ranges |-> SubTreeHash(h, ranges[i])]

\* tlog::tree_hash hashes the whole tree.
WholeTree(size) == <<0, size>>

\* The ranges in a tree, and the two parts of one of two leaves or more.
Ranges(size) == (0..size) \X (0..size)
IsLeaf(range) == range[2] <= range[1] + 1
Mid(range) == range[1] + Split(range[2] - range[1])
LeftPart(range) == <<range[1], Mid(range)>>
RightPart(range) == <<Mid(range), range[2]>>

\* tlog::prove_record, for index < size: the ranges beside the way from the
\* leaf to the root.
RecordPath(size, index) ==
    LET path[r \in Ranges(size)] ==
            IF IsLeaf(r) THEN <<>>
            ELSE IF index < Mid(r) THEN Append(path[LeftPart(r)], RightPart(r))
            ELSE Append(path[RightPart(r)], LeftPart(r))
    IN  path[WholeTree(size)]

\* The way from the end of the old tree to the root ends at a range that the old
\* tree fills.
Filled(r, old) == old = r[2] \/ IsLeaf(r)

\* tlog::prove_tree, for 1 <= old <= size: the ranges beside that way.
TreePath(size, old) ==
    LET path[r \in Ranges(size)] ==
            IF Filled(r, old) THEN IF r[1] = 0 THEN <<>> ELSE <<r>>
            ELSE IF old <= Mid(r) THEN Append(path[LeftPart(r)], RightPart(r))
            ELSE Append(path[RightPart(r)], LeftPart(r))
    IN  path[WholeTree(size)]

-----------------------------------------------------------------------------
\* The reference.

\* RFC 6962 2.1: the hash of a range of leaves (leaf i is leaves[i + 1]).
RangeHash(leaves, range) ==
    LET hash[r \in Ranges(Len(leaves))] ==
            IF IsLeaf(r) THEN leaves[r[2]] ELSE Node(hash[LeftPart(r)], hash[RightPart(r)])
    IN  hash[range]

\* The root that an inclusion proof of a leaf leads to.  The last hash of a proof
\* is beside the root's child, the first beside the leaf.
RecordRoot(proof, size, index, leaf) ==
    LET root[s \in Int \X Ranges(size)] ==
            LET p == s[1]
                r == s[2]
            IN  IF IsLeaf(r) THEN leaf
                ELSE IF index < Mid(r) THEN Node(root[<<p - 1, LeftPart(r)>>], proof[p])
                ELSE Node(proof[p], root[<<p - 1, RightPart(r)>>])
    IN  root[<<Len(proof), WholeTree(size)>>]

\* The old and the new root that a consistency proof leads to.
TreeRoots(proof, size, old, oldRoot) ==
    LET roots[s \in Int \X Ranges(size)] ==
            LET p == s[1]
                r == s[2]
                left == roots[<<p - 1, LeftPart(r)>>]
                right == roots[<<p - 1, RightPart(r)>>]
            IN  IF Filled(r, old)
                THEN IF r[1] = 0 THEN <<oldRoot, oldRoot>> ELSE <<proof[1], proof[1]>>
                ELSE IF old <= Mid(r) THEN <<left[1], Node(left[2], proof[p])>>
                ELSE <<Node(proof[p], right[1]), Node(proof[p], right[2])>>
    IN  roots[<<Len(proof), WholeTree(size)>>]
=============================================================================
