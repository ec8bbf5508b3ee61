CONSTANTS
    a = a
    b = b
    None = None
    Writers = {a, b}
    Readers = {r1, r2}
    Queries <- AuditQueries
    MaxEvents = 5
    MaxPage = 2
SPECIFICATION Spec
INVARIANTS
    StoredSubtrees
    CheckpointsAreRoots
    AnswersCover
    ProofsVerify
    WalksComplete
SYMMETRY AuditSymmetry
CONSTRAINT OneOfB
