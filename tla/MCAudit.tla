------------------------------ MODULE MCAudit -------------------------------
(***************************************************************************)
(* An instance of AuditLog for TLC: up to MaxEvents events of two actors,  *)
(* proofs in every tree size up to one beyond, pages of one and of two.    *)
(***************************************************************************)
EXTENDS AuditLog, TLC

CONSTANTS a, b

\* punkgo-cli audit checkpoint / proof / consistency, and a client that pages.
CheckpointQuery == [kind |-> "audit_checkpoint"]
ProofQuery(index, size) == [kind |-> "audit_inclusion_proof", index |-> index, size |-> size]
ConsistencyQuery(old, size) == [kind |-> "audit_consistency_proof", old |-> old, size |-> size]
WalkQuery(actor, after, limit) ==
    [kind |-> "events", actor |-> actor, after |-> after, limit |-> limit]

\* The tree sizes 3, 5 and 6 are not powers of two; the tree of size 6 never
\* exists.  The limit 0 is clamped to 1 and the limit 9 to MaxPage.
AuditQueries ==
    {CheckpointQuery, ProofQuery(1, None), ProofQuery(2, 3), ProofQuery(5, 6),
     ConsistencyQuery(3, 5), ConsistencyQuery(3, 4),
     WalkQuery(a, None, 0), WalkQuery(None, 0, 9)}

\* Bound: one event of b among those of a is enough for a filter to skip.
OneOfB == Cardinality({i \in DOMAIN events : events[i] = b}) <= 1

AuditSymmetry == Permutations(Readers)
=============================================================================
