------------------------------ MODULE AuditLog ------------------------------
(***************************************************************************)
(* The verifiable history: the events table (state/event_log.rs), the      *)
(* stored tree hashes and the checkpoints (audit.rs), and the read queries *)
(* of kernel.rs that page through the log, make a checkpoint when the last *)
(* one is stale, and hand out proofs.                                      *)
(*                                                                         *)
(* An append is one transaction.  A query is a chain of reads and at most  *)
(* one transaction, with an await between any two, so events are appended  *)
(* and other queries make checkpoints while it runs.  Store shows why a    *)
(* transaction may be one step.                                            *)
(***************************************************************************)
EXTENDS Integers, Sequences, FiniteSets, Merkle

CONSTANTS
    Writers,    \* the actors whose events are appended
    Readers,    \* one per read request in flight
    Queries,    \* the read requests clients send
    MaxEvents,  \* bound: the length of the log
    MaxPage,    \* the largest page (500 in the code)
    None

VARIABLES
    events,      \* table events: the actor of each, in log_index order from 0
    hashes,      \* table audit_hashes
    checkpoints, \* table audit_checkpoints: the root hash of each tree_size
    reader       \* the read_query calls

vars == <<events, hashes, checkpoints, reader>>

-----------------------------------------------------------------------------
\* Requests and rows.  What a request leaves out is None.

\* A consistency proof names both sizes; an inclusion proof may leave its tree
\* size to the kernel; a walk through the log is a filter and a page length.
QueryOK(q) ==
    \/ q.kind = "audit_checkpoint"
    \/ /\ q.kind = "audit_inclusion_proof"
       /\ q.index \in Nat /\ q.size \in Nat \cup {None}
    \/ /\ q.kind = "audit_consistency_proof"
       /\ q.old \in Nat /\ q.size \in Nat
    \/ /\ q.kind = "events"
       /\ q.actor \in Writers \cup {None} /\ q.after \in Nat \cup {None} /\ q.limit \in Int

ASSUME QueriesAssumption == \A q \in Queries : QueryOK(q)
ASSUME AuditBoundsAssumption == MaxEvents \in Nat /\ MaxPage \in Nat \ {0}
ASSUME AuditNoneAssumption == None \notin Nat \cup Writers \cup Queries

\* A read_query call: where it stands, its request, the event count it has
\* read, the tree size it answers for, the hashes it answers with (a root, or
\* a proof).  For a walk: the before_index of the next page, the indices
\* received, and in count the length of the log at the first page.
Idle ==
    [pc |-> "idle", query |-> None, count |-> 0, size |-> 0, answer |-> <<>>,
     before |-> None, seen |-> <<>>]

Stands == {"idle", "count", "ensure", "make", "latest", "prove", "page", "answered"}

-----------------------------------------------------------------------------
\* append_in_tx and append_leaf_in_tx.

\* assign_and_insert: MAX(log_index) + 1 inside the transaction.
NextIndex == Len(events)

\* The carry loop runs while the bits of n from the lowest on are set.
Carries(n) == CHOOSE l \in 0..(n + 1) :
    /\ Shift(n, l) % 2 = 0
    /\ \A k \in 0..(l - 1) : Shift(n, k) % 2 = 1

\* Fault: the subtree itself is taken for its left sibling.
LeftSiblingSelf(n, level) == StoredHashIndex(level, Shift(n, level))

\* The stored index of the left sibling at a level of the carry.
LeftSibling(n, level) == StoredHashIndex(level, Shift(n, level) - 1)

\* What the carry loop stores: the leaf, and the parent at each level it closes.
ToStore(h, n, leaf) ==
    LET hash[level \in 0..Carries(n)] ==
            IF level = 0 THEN leaf
            ELSE Node(h[LeftSibling(n, level - 1)], hash[level - 1])
        index(level) == StoredHashIndex(level, Shift(n, level))
    IN  [i \in {index(level) : level \in 0..Carries(n)} |->
            hash[CHOOSE level \in 0..Carries(n) : index(level) = i]]

\* INSERT OR REPLACE.
Overwrite(table, rows) ==
    [i \in DOMAIN table \cup DOMAIN rows |-> IF i \in DOMAIN rows THEN rows[i] ELSE table[i]]

SiblingsStored ==
    \A level \in 0..(Carries(NextIndex) - 1) : LeftSibling(NextIndex, level) \in DOMAIN hashes

\* The tail of every transaction that commits an event.  It fails as a whole
\* when a left sibling is missing.
AppendEvent(a) ==
    /\ NextIndex < MaxEvents
    /\ SiblingsStored
    /\ events' = Append(events, a)
    /\ hashes' = Overwrite(hashes, ToStore(hashes, NextIndex, Leaf(NextIndex, a)))
    /\ UNCHANGED <<checkpoints, reader>>

-----------------------------------------------------------------------------
\* read_query.

tables == <<events, hashes, checkpoints>>

Step(r, row) == reader' = [reader EXCEPT ![r] = row]

\* tree_size: the size of the latest checkpoint, or 0.
TreeSize == CHOOSE n \in DOMAIN checkpoints \cup {0} : \A m \in DOMAIN checkpoints : m <= n

\* Where a request starts: only those that leave the tree size to the kernel
\* need a current checkpoint.
FirstStep(q) ==
    CASE q.kind = "events" -> "page"
      [] q.kind = "audit_checkpoint" -> "count"
      [] q.kind = "audit_inclusion_proof" /\ q.size = None -> "count"
      [] OTHER -> "prove"

Ask(r) ==
    /\ reader[r].pc = "idle"
    /\ \E q \in Queries :
        Step(r, [Idle EXCEPT !.pc = FirstStep(q), !.query = q,
                             !.size = IF FirstStep(q) = "prove" THEN q.size ELSE 0])
    /\ UNCHANGED tables

Count(r) ==
    /\ reader[r].pc = "count"
    /\ Step(r, [reader[r] EXCEPT !.pc = "ensure", !.count = Len(events)])
    /\ UNCHANGED tables

\* Fault: a checkpoint of one event less will do.
UpToDateAlmost(count) == TreeSize + 1 >= count

\* ensure_checkpoint: nothing to do without events, or with a checkpoint that
\* covers the count.
UpToDate(count) == count = 0 \/ TreeSize >= count

Ensure(r) ==
    /\ reader[r].pc = "ensure"
    /\ Step(r, [reader[r] EXCEPT !.pc = IF UpToDate(reader[r].count) THEN "latest" ELSE "make"])
    /\ UNCHANGED tables

\* Fault: the tree as it is now, under the size that was counted.
CheckpointTreeNow(count) == WholeTree(Len(events))

\* The tree a checkpoint is made of.
CheckpointTree(count) == WholeTree(count)

\* make_checkpoint: one transaction.
MakeCheckpoint(r) ==
    LET count == reader[r].count
        tree == CheckpointTree(count)
    IN
    /\ reader[r].pc = "make"
    /\ Readable(hashes, tree)
    /\ checkpoints' = Overwrite(checkpoints, [n \in {count} |-> SubTreeHash(hashes, tree)])
    /\ Step(r, [reader[r] EXCEPT !.pc = "latest"])
    /\ UNCHANGED <<events, hashes>>

\* latest_checkpoint, which is the largest one by now (none is an error); or
\* the tree size once more, for the proof.
ReadLatest(r) ==
    /\ reader[r].pc = "latest"
    /\ IF reader[r].query.kind = "audit_checkpoint"
       THEN /\ TreeSize > 0
            /\ Step(r, [reader[r] EXCEPT !.pc = "answered", !.size = TreeSize,
                                         !.answer = <<checkpoints[TreeSize]>>])
       ELSE Step(r, [reader[r] EXCEPT !.pc = "prove", !.size = TreeSize])
    /\ UNCHANGED tables

\* Fault: the proof is made in the tree of the latest checkpoint.
ProofTreeLatest(size) == TreeSize

\* The tree a proof is made in.
ProofTree(size) == size

\* inclusion_proof and consistency_proof read all hashes at once.  The hashes
\* beside the leaf are read, not the leaf: the size need not be that of a
\* checkpoint, nor of a tree that exists.
Prove(r) ==
    LET q == reader[r].query
        size == ProofTree(reader[r].size)
        inclusion == q.kind = "audit_inclusion_proof"
        path == IF inclusion THEN RecordPath(size, q.index) ELSE TreePath(size, q.old)
    IN
    /\ reader[r].pc = "prove"
    /\ IF inclusion THEN q.index < size ELSE 1 <= q.old /\ q.old <= size
    /\ \A i \in DOMAIN path : Readable(hashes, path[i])
    /\ Step(r, [reader[r] EXCEPT !.pc = "answered", !.answer = SubTreeHashes(hashes, path)])
    /\ UNCHANGED tables

\* limit.clamp(1, 500).
PageLength(q) == IF q.limit < 1 THEN 1 ELSE IF q.limit > MaxPage THEN MaxPage ELSE q.limit

\* EventLog::query: the filters, combined with AND ...
Matching(q, before) ==
    {i \in 0..(Len(events) - 1) :
        /\ before # None => i < before
        /\ q.after # None => i > q.after
        /\ q.actor # None => events[i + 1] = q.actor}

\* ... newest first, at most limit of them.
NewestFirst(S) ==
    [n \in 1..Cardinality(S) |-> CHOOSE i \in S : Cardinality({j \in S : j >= i}) = n]

Page(q, before) ==
    LET S == Matching(q, before)
        length == PageLength(q)
    IN  NewestFirst({i \in S : Cardinality({j \in S : j >= i}) <= length})

\* Fault: the cursor skips one event.
NextCursorOff(page) == page[Len(page)] - 1

\* next_cursor: the smallest index of the page.
NextCursor(page) == page[Len(page)]

\* One page; a client passes next_cursor as the next before_index as long as
\* has_more says so.
ReadPage(r) ==
    LET row == reader[r]
        page == Page(row.query, row.before)
        more == Len(page) = PageLength(row.query)
        next == [row EXCEPT !.seen = @ \o page,
                            !.count = IF row.before = None THEN Len(events) ELSE @]
    IN
    /\ row.pc = "page"
    /\ Step(r, IF more THEN [next EXCEPT !.before = NextCursor(page)]
                       ELSE [next EXCEPT !.pc = "answered"])
    /\ UNCHANGED tables

\* The answer is delivered; or the call ends in an error: a database call that
\* fails, a missing hash, no checkpoint, a daemon that stops.
Finish(r) ==
    /\ reader[r].pc # "idle"
    /\ Step(r, Idle)
    /\ UNCHANGED tables

-----------------------------------------------------------------------------
Init ==
    /\ events = <<>>
    /\ hashes = [i \in {} |-> None]
    /\ checkpoints = [n \in {} |-> None]
    /\ reader = [r \in Readers |-> Idle]

Query(r) ==
    \/ Ask(r) \/ Count(r) \/ Ensure(r) \/ MakeCheckpoint(r) \/ ReadLatest(r)
    \/ Prove(r) \/ ReadPage(r) \/ Finish(r)

Next == (\E a \in Writers : AppendEvent(a)) \/ (\E r \in Readers : Query(r))

Spec == Init /\ [][Next]_vars

-----------------------------------------------------------------------------
\* Properties.

Answered(r, kind) == reader[r].pc = "answered" /\ reader[r].query.kind = kind

Leaves == [i \in DOMAIN events |-> Leaf(i - 1, events[i])]

\* append_leaf_in_tx keeps exactly the hashes of the complete subtrees, each
\* under the index tlog will look for it, whatever bits the log index has: the
\* carry overwrites nothing, and the next one finds every left sibling it needs.
StoredSubtrees ==
    LET complete == {s \in (0..MaxEvents) \X (0..MaxEvents) :
                        (s[2] + 1) * 2^s[1] <= Len(events)}
        range(s) == <<s[2] * 2^s[1], (s[2] + 1) * 2^s[1]>>
    IN  /\ DOMAIN hashes = 0..(Cardinality(complete) - 1)
        /\ \A s \in complete :
              hashes[StoredHashIndex(s[1], s[2])] = RangeHash(Leaves, range(s))
        /\ SiblingsStored

\* A persisted checkpoint is the RFC 6962 root of that prefix of the log, and
\* stays so: it is signed over a count that was read before other requests
\* appended events and made checkpoints.
CheckpointsAreRoots ==
    \A n \in DOMAIN checkpoints :
        n \in 1..Len(events) /\ checkpoints[n] = RangeHash(Leaves, WholeTree(n))

\* A client that asks for a checkpoint gets one that covers every event it could
\* have seen when it asked, although ensure_checkpoint, the transaction and
\* latest_checkpoint each look at a different moment.
AnswersCover ==
    \A r \in Readers :
        Answered(r, "audit_checkpoint") =>
            reader[r].count <= reader[r].size /\ reader[r].size <= Len(events)

\* A proof the kernel hands out leads from the leaf, or from the old root, to
\* the root of the tree of the size it names, if that tree exists.
ProofsVerify ==
    \A r \in Readers :
        LET q == reader[r].query
            size == reader[r].size
            proof == reader[r].answer
            root(n) == RangeHash(Leaves, WholeTree(n))
        IN
        /\ Answered(r, "audit_inclusion_proof") /\ size <= Len(events) =>
              /\ Len(proof) = Len(RecordPath(size, q.index))
              /\ RecordRoot(proof, size, q.index, Leaves[q.index + 1]) = root(size)
        /\ Answered(r, "audit_consistency_proof") /\ size <= Len(events) =>
              /\ Len(proof) = Len(TreePath(size, q.old))
              /\ TreeRoots(proof, size, q.old, root(q.old)) = <<root(q.old), root(size)>>

\* A walk through the log by next_cursor and has_more yields every event that
\* matched when it began, each once and newest first, however many events are
\* appended between two pages.
WalksComplete ==
    \A r \in Readers :
        Answered(r, "events") =>
            reader[r].seen =
                NewestFirst({i \in Matching(reader[r].query, None) : i < reader[r].count})
=============================================================================
