---------------------------- MODULE AuditProofs -----------------------------
(***************************************************************************)
(* For any number of readers, writers and requests and a log of any        *)
(* length: a checkpoint that is handed out covers what the reader had      *)
(* counted; a walk through the log misses nothing; the stored hashes are   *)
(* those of the complete subtrees; a checkpoint is, and stays, the RFC     *)
(* 6962 root; and every proof that is handed out verifies.                 *)
(***************************************************************************)
EXTENDS MerkleProofs

\* The calls are records, whatever they answer with.
ReaderRow(row) ==
    row \in [pc : Stands, query : {row.query}, count : Nat, size : {row.size},
             answer : {row.answer}, before : {row.before}, seen : {row.seen}]

Covered(count) == count = 0 \/ \E n \in DOMAIN checkpoints : count <= n

\* What a read_query call knows at each of its steps.
ReaderOK(row) ==
    /\ ReaderRow(row)
    /\ row.count <= Len(events)
    /\ row.pc = "page" => row.query.kind = "events"
    /\ row.pc = "prove" => row.query.kind # "audit_checkpoint"
    /\ row.pc = "make" => row.count > 0
    /\ row.pc = "latest" => Covered(row.count)
    /\ row.pc = "answered" /\ row.query.kind = "audit_checkpoint" =>
          row.size \in Nat /\ row.count <= row.size /\ row.size <= Len(events)

\* No checkpoint is ahead of the log, and there is a largest one.
CheckpointsOK ==
    /\ DOMAIN checkpoints \subseteq 1..Len(events)
    /\ \E n \in DOMAIN checkpoints \cup {0} : \A m \in DOMAIN checkpoints : m <= n

AuditInv ==
    /\ events \in Seq(Writers)
    /\ CheckpointsOK
    /\ DOMAIN reader = Readers /\ reader = [r \in Readers |-> reader[r]]
    /\ \A r \in Readers : ReaderOK(reader[r])

\* tree_size() is that of the largest checkpoint.
LEMMA TreeSizeIsLargest ==
    ASSUME AuditInv
    PROVE  /\ TreeSize \in DOMAIN checkpoints \cup {0}
           /\ \A m \in DOMAIN checkpoints : m <= TreeSize
           /\ TreeSize \in Nat /\ TreeSize <= Len(events)
  <1>1. \E n \in DOMAIN checkpoints \cup {0} : \A m \in DOMAIN checkpoints : m <= n
    BY DEF AuditInv, CheckpointsOK
  <1>2. /\ TreeSize \in DOMAIN checkpoints \cup {0}
        /\ \A m \in DOMAIN checkpoints : m <= TreeSize
    BY <1>1 DEF TreeSize
  <1>3. Len(events) \in Nat /\ DOMAIN checkpoints \subseteq 1..Len(events)
    BY DEF AuditInv, CheckpointsOK
  <1> QED BY <1>2, <1>3

\* A step of one call that leaves the tables alone.
LEMMA ReaderStep ==
    ASSUME AuditInv, NEW r \in Readers, NEW row, ReaderOK(row), Step(r, row), UNCHANGED tables
    PROVE  AuditInv'
  <1>1. /\ events' = events /\ checkpoints' = checkpoints
        /\ Len(events) \in Nat
    BY DEF tables, AuditInv
  <1>2. /\ DOMAIN reader' = Readers /\ reader' = [q \in Readers |-> reader'[q]]
        /\ \A q \in Readers : reader'[q] = IF q = r THEN row ELSE reader[q]
    BY DEF Step, AuditInv
  <1>3. ASSUME NEW q \in Readers PROVE ReaderOK(reader'[q])
    BY <1>2 DEF AuditInv
  <1>4. ASSUME NEW q \in Readers PROVE ReaderOK(reader[q])'
    BY <1>1, <1>3 DEF ReaderOK, ReaderRow, Covered
  <1>5. events' \in Seq(Writers) /\ CheckpointsOK'
    BY <1>1 DEF AuditInv, CheckpointsOK
  <1> QED BY <1>2, <1>4, <1>5 DEF AuditInv

\* append_in_tx: the log grows by one.
LEMMA AppendKeeps ==
    ASSUME AuditInv, NEW a \in Writers, AppendEvent(a)
    PROVE  AuditInv'
  <1>1. /\ events' \in Seq(Writers) /\ checkpoints' = checkpoints /\ reader' = reader
        /\ Len(events) \in Nat /\ Len(events') = Len(events) + 1
    BY DEF AppendEvent, AuditInv
  <1>2. ASSUME NEW r \in Readers PROVE ReaderOK(reader[r])'
    <2>1. ReaderOK(reader[r])
      BY DEF AuditInv
    <2> QED BY <1>1, <2>1 DEF ReaderOK, ReaderRow, Covered
  <1>3. CheckpointsOK'
    BY <1>1 DEF AuditInv, CheckpointsOK
  <1> QED BY <1>1, <1>2, <1>3 DEF AuditInv

\* make_checkpoint: the size that was counted becomes a checkpoint, whether or
\* not a larger one was made in the meantime.
LEMMA MakeKeeps ==
    ASSUME AuditInv, NEW r \in Readers, MakeCheckpoint(r)
    PROVE  AuditInv'
  <1> DEFINE count == reader[r].count
             row == [reader[r] EXCEPT !.pc = "latest"]
  <1>1. /\ ReaderOK(reader[r]) /\ reader[r].pc = "make"
        /\ Len(events) \in Nat /\ events' = events
    BY DEF AuditInv, MakeCheckpoint
  <1>2. count \in 1..Len(events)
    BY <1>1 DEF ReaderOK, ReaderRow
  <1>3. DOMAIN checkpoints' = DOMAIN checkpoints \cup {count}
    BY DEF MakeCheckpoint, Overwrite
  <1>4. CheckpointsOK'
    <2>1. DOMAIN checkpoints' \subseteq 1..Len(events')
      BY <1>1, <1>2, <1>3 DEF AuditInv, CheckpointsOK
    <2>2. PICK n \in DOMAIN checkpoints \cup {0} : \A m \in DOMAIN checkpoints : m <= n
      BY DEF AuditInv, CheckpointsOK
    <2>3. n \in Nat /\ DOMAIN checkpoints \subseteq Nat /\ count \in Nat
      BY <1>2, <2>2 DEF AuditInv, CheckpointsOK
    <2>4. \E k \in DOMAIN checkpoints' \cup {0} : \A m \in DOMAIN checkpoints' : m <= k
      <3>1. CASE n <= count
        BY <1>3, <2>2, <2>3, <3>1
      <3>2. CASE count < n
        BY <1>3, <2>2, <2>3, <3>2
      <3> QED BY <2>3, <3>1, <3>2
    <2> QED BY <2>1, <2>4 DEF CheckpointsOK
  <1>5. /\ DOMAIN reader' = Readers /\ reader' = [q \in Readers |-> reader'[q]]
        /\ \A q \in Readers : reader'[q] = IF q = r THEN row ELSE reader[q]
    BY DEF MakeCheckpoint, Step, AuditInv
  <1>6. ASSUME NEW q \in Readers PROVE ReaderOK(reader[q])'
    <2>1. CASE q = r
      <3>1. /\ ReaderRow(row) /\ row.pc = "latest"
            /\ row.query = reader[r].query /\ row.count = count
        BY <1>1 DEF ReaderOK, ReaderRow, Stands
      <3>2. row.count \in Nat /\ row.count <= row.count /\ row.count \in DOMAIN checkpoints'
        BY <1>2, <1>3, <3>1
      <3>3. reader'[q] = row
        BY <1>5, <2>1
      <3> HIDE DEF row
      <3> QED BY <1>1, <1>2, <3>1, <3>2, <3>3 DEF ReaderOK, ReaderRow, Covered
    <2>2. CASE q # r
      <3>1. ReaderOK(reader[q]) /\ reader'[q] = reader[q]
        BY <1>5, <2>2 DEF AuditInv
      <3> QED BY <1>1, <1>3, <3>1 DEF ReaderOK, ReaderRow, Covered
    <2> QED BY <2>1, <2>2
  <1> QED BY <1>1, <1>4, <1>5, <1>6 DEF AuditInv

\* One step of the specification.
LEMMA AuditStep == AuditInv /\ [Next]_vars => AuditInv'
  <1> SUFFICES ASSUME AuditInv, [Next]_vars PROVE AuditInv'
    OBVIOUS
  <1>1. CASE UNCHANGED vars
    BY <1>1 DEF vars, AuditInv, CheckpointsOK, ReaderOK, Covered, ReaderRow
  <1>2. ASSUME NEW a \in Writers, AppendEvent(a) PROVE AuditInv'
    BY <1>2, AppendKeeps
  <1>3. ASSUME NEW r \in Readers, Query(r) PROVE AuditInv'
    <2>1. ReaderOK(reader[r]) /\ Len(events) \in Nat
      BY DEF AuditInv
    <2>2. CASE Ask(r)
      <3>1. PICK q \in Queries :
              Step(r, [Idle EXCEPT !.pc = FirstStep(q), !.query = q,
                                   !.size = IF FirstStep(q) = "prove" THEN q.size ELSE 0])
        BY <2>2 DEF Ask
      <3> DEFINE row == [Idle EXCEPT !.pc = FirstStep(q), !.query = q,
                                     !.size = IF FirstStep(q) = "prove" THEN q.size ELSE 0]
      <3>2. /\ FirstStep(q) \in {"page", "count", "prove"}
            /\ FirstStep(q) = "page" => q.kind = "events"
            /\ FirstStep(q) = "prove" => q.kind # "audit_checkpoint"
        BY DEF FirstStep
      <3>3. /\ ReaderRow(row) /\ row.pc = FirstStep(q)
            /\ row.query = q /\ row.count = 0
        BY <3>2 DEF ReaderRow, Idle, Stands
      <3> HIDE DEF row
      <3>4. ReaderOK(row)
        BY <2>1, <3>2, <3>3 DEF ReaderOK
      <3> QED BY <2>2, <3>1, <3>4, ReaderStep DEF Ask, row
    <2>3. CASE Count(r)
      <3> DEFINE row == [reader[r] EXCEPT !.pc = "ensure", !.count = Len(events)]
      <3>1. /\ ReaderRow(row) /\ row.pc = "ensure"
            /\ row.query = reader[r].query /\ row.count = Len(events)
        BY <2>1 DEF ReaderOK, ReaderRow, Stands
      <3> HIDE DEF row
      <3>2. ReaderOK(row)
        BY <2>1, <3>1 DEF ReaderOK
      <3> QED BY <2>3, <3>2, ReaderStep DEF Count, row
    <2>4. CASE Ensure(r)
      <3> DEFINE pc == IF UpToDate(reader[r].count) THEN "latest" ELSE "make"
                 row == [reader[r] EXCEPT !.pc = pc]
      <3>1. UpToDate(reader[r].count) => Covered(reader[r].count)
        BY <2>1, TreeSizeIsLargest DEF UpToDate, Covered, ReaderOK, ReaderRow
      <3>2. ~UpToDate(reader[r].count) => reader[r].count > 0
        BY <2>1 DEF UpToDate, ReaderOK, ReaderRow
      <3>3. ReaderOK(row)
        BY <2>1, <3>1, <3>2 DEF ReaderOK, ReaderRow, Stands
      <3> QED BY <2>4, <3>3, ReaderStep DEF Ensure
    <2>5. CASE MakeCheckpoint(r)
      BY <2>5, MakeKeeps
    <2>6. CASE ReadLatest(r)
      <3>1. CASE reader[r].query.kind = "audit_checkpoint"
        <4> DEFINE row == [reader[r] EXCEPT !.pc = "answered", !.size = TreeSize,
                                            !.answer = <<checkpoints[TreeSize]>>]
        <4>1. /\ Covered(reader[r].count) /\ reader[r].count \in Nat
              /\ DOMAIN checkpoints \subseteq Nat
          BY <2>1, <2>6 DEF ReadLatest, ReaderOK, ReaderRow, AuditInv, CheckpointsOK
        <4>2. reader[r].count <= TreeSize /\ TreeSize \in Nat /\ TreeSize <= Len(events)
          BY <4>1, TreeSizeIsLargest DEF Covered
        <4>3. ReaderOK(row)
          BY <2>1, <4>2 DEF ReaderOK, ReaderRow, Stands
        <4> QED BY <2>6, <3>1, <4>3, ReaderStep DEF ReadLatest
      <3>2. CASE reader[r].query.kind # "audit_checkpoint"
        <4> DEFINE row == [reader[r] EXCEPT !.pc = "prove", !.size = TreeSize]
        <4>1. ReaderOK(row)
          BY <2>1, <3>2 DEF ReaderOK, ReaderRow, Stands
        <4> QED BY <2>6, <3>2, <4>1, ReaderStep DEF ReadLatest
      <3> QED BY <3>1, <3>2
    <2>7. CASE Prove(r)
      <3>1. PICK proof : Step(r, [reader[r] EXCEPT !.pc = "answered", !.answer = proof])
        BY <2>7 DEF Prove
      <3> DEFINE row == [reader[r] EXCEPT !.pc = "answered", !.answer = proof]
      <3>2. reader[r].pc = "prove"
        BY <2>7 DEF Prove
      <3>3. ReaderOK(row)
        BY <2>1, <3>2 DEF ReaderOK, ReaderRow, Stands
      <3> QED BY <2>7, <3>1, <3>3, ReaderStep DEF Prove
    <2>8. CASE ReadPage(r)
      <3> DEFINE page == Page(reader[r].query, reader[r].before)
                 next == [reader[r] EXCEPT
                            !.seen = @ \o page,
                            !.count = IF reader[r].before = None THEN Len(events) ELSE @]
                 count == IF reader[r].before = None THEN Len(events) ELSE reader[r].count
                 seen == reader[r].seen \o page
                 goOn == [next EXCEPT !.before = NextCursor(page)]
                 last == [next EXCEPT !.pc = "answered"]
      <3>1. reader[r].pc = "page" /\ (Step(r, goOn) \/ Step(r, last)) /\ UNCHANGED tables
        BY <2>8 DEF ReadPage
      <3> HIDE DEF page
      <3>2. /\ ReaderRow(next) /\ next.pc = "page"
            /\ next.query = reader[r].query /\ next.count <= Len(events)
        <4>1. count \in Nat /\ count <= Len(events)
          BY <2>1 DEF ReaderOK, ReaderRow
        <4>2. next = [reader[r] EXCEPT !.seen = seen, !.count = count]
          OBVIOUS
        <4> HIDE DEF next, seen, count
        <4> QED BY <2>1, <3>1, <4>1, <4>2 DEF ReaderOK, ReaderRow, Stands
      <3>3. reader[r].query.kind = "events"
        BY <2>1, <3>1 DEF ReaderOK
      <3>4. ReaderOK(goOn) /\ ReaderOK(last)
        <4> HIDE DEF next
        <4>1. /\ ReaderRow(goOn) /\ goOn.pc = "page"
              /\ goOn.query = next.query /\ goOn.count = next.count
          BY <3>2 DEF ReaderRow, Stands
        <4>2. /\ ReaderRow(last) /\ last.pc = "answered"
              /\ last.query = next.query /\ last.count = next.count
          BY <3>2 DEF ReaderRow, Stands
        <4> HIDE DEF goOn, last
        <4> QED BY <3>2, <3>3, <4>1, <4>2 DEF ReaderOK
      <3> QED BY <3>1, <3>4, ReaderStep
    <2>9. CASE Finish(r)
      <3>1. ReaderOK(Idle)
        BY <2>1 DEF ReaderOK, ReaderRow, Idle, Stands
      <3> QED BY <2>9, <3>1, ReaderStep DEF Finish
    <2> QED
      BY <1>3, <2>2, <2>3, <2>4, <2>5, <2>6, <2>7, <2>8, <2>9 DEF Query
  <1> QED BY <1>1, <1>2, <1>3 DEF Next

\* Before the first request.
LEMMA AuditInit == Init => AuditInv
  BY DEF Init, AuditInv, CheckpointsOK, ReaderOK, ReaderRow, Idle, Stands

\* However appends and other requests interleave with count, ensure_checkpoint,
\* make_checkpoint and latest_checkpoint, the checkpoint a client receives
\* covers every event that was committed when its request counted them.
THEOREM AnswersAlwaysCover == Spec => []AnswersCover
  <1>1. AuditInv => AnswersCover
    BY DEF AuditInv, ReaderOK, AnswersCover, Answered
  <1> QED BY <1>1, AuditInit, AuditStep, PTL DEF Spec

-----------------------------------------------------------------------------
\* Pages.  The rank of an event in a set of matches: how many are as new as it.

FiniteLog(S) == S \subseteq Nat /\ IsFiniteSet(S)

Newer(S, i) == {j \in S : j >= i}

Rank(S, i) == Cardinality(Newer(S, i))

\* Newer events have smaller ranks.
LEMMA RankOrder ==
    ASSUME NEW S, FiniteLog(S), NEW i \in S
    PROVE  /\ Rank(S, i) \in 1..Cardinality(S)
           /\ \A j \in S : i < j => Rank(S, j) < Rank(S, i)
  <1>0. IsFiniteSet(S) /\ S \subseteq Nat /\ i \in Nat /\ Cardinality(S) \in Nat
    BY FS_CardinalityType DEF FiniteLog
  <1>1. ASSUME NEW j \in S
        PROVE  /\ Newer(S, j) \in SUBSET S /\ IsFiniteSet(Newer(S, j))
               /\ Cardinality(Newer(S, j)) \in Nat
               /\ Cardinality(Newer(S, j)) <= Cardinality(S)
    <2>1. Newer(S, j) \in SUBSET S
      BY DEF Newer
    <2> QED BY <1>0, <2>1, FS_Subset, FS_CardinalityType
  <1>2. Cardinality(Newer(S, i)) # 0
    <2>1. i \in Newer(S, i)
      BY <1>0 DEF Newer
    <2> QED BY <1>1, <2>1, FS_EmptySet
  <1>3. ASSUME NEW j \in S, i < j PROVE Rank(S, j) < Rank(S, i)
    <2>0. j \in Nat /\ \A k \in S : k \in Nat
      BY <1>0, <1>3
    <2>1. Newer(S, j) \in SUBSET Newer(S, i) /\ i \in Newer(S, i) /\ i \notin Newer(S, j)
      <3>1. \A k \in S : k >= j => k >= i
        BY <1>0, <1>3, <2>0
      <3>2. i >= i /\ ~(i >= j)
        BY <1>0, <1>3, <2>0
      <3> QED BY <3>1, <3>2 DEF Newer
    <2>2. /\ Cardinality(Newer(S, j)) <= Cardinality(Newer(S, i))
          /\ Cardinality(Newer(S, j)) # Cardinality(Newer(S, i))
      BY <1>1, <2>1, FS_Subset
    <2> QED BY <1>1, <2>2 DEF Rank
  <1> QED BY <1>0, <1>1, <1>2, <1>3 DEF Rank

\* Different events have different ranks.
LEMMA RankUnique ==
    ASSUME NEW S, FiniteLog(S), NEW i \in S, NEW j \in S, Rank(S, i) = Rank(S, j)
    PROVE  i = j
  <1>0. i \in Nat /\ j \in Nat /\ Cardinality(S) \in Nat
    BY FS_CardinalityType DEF FiniteLog
  <1>1. Rank(S, i) \in 1..Cardinality(S)
    BY RankOrder
  <1>2. ~(i < j) /\ ~(j < i)
    BY <1>0, <1>1, RankOrder
  <1> QED BY <1>0, <1>2

\* Every rank is taken: n matches have the ranks 1..n.
LEMMA RankTaken ==
    ASSUME NEW S, FiniteLog(S), NEW n \in 1..Cardinality(S)
    PROVE  \E i \in S : Rank(S, i) = n
  <1> DEFINE T == 1..Cardinality(S)
             f == [i \in S |-> Rank(S, i)]
  <1>1. f \in [S -> T]
    BY RankOrder
  <1>2. \A i, j \in S : f[i] = f[j] => i = j
    BY RankUnique
  <1>3. IsFiniteSet(S) /\ Cardinality(S) \in Nat
    BY FS_CardinalityType DEF FiniteLog
  <1>4. IsFiniteSet(T) /\ Cardinality(T) = Cardinality(S)
    BY <1>3, FS_Interval
  <1> HIDE DEF f, T
  <1>5. f \in Injection(S, T)
    BY <1>1, <1>2, Fun_IsInj
  <1>6. f \in Surjection(S, T)
    BY <1>4, <1>5, FS_Injection
  <1>7. \A m \in T : \E i \in S : f[i] = m
    BY <1>6 DEF Surjection
  <1> QED BY <1>7 DEF f, T

\* NewestFirst lists a set by rank.
LEMMA NewestFirstLists ==
    ASSUME NEW S, FiniteLog(S)
    PROVE  /\ NewestFirst(S) \in Seq(S) /\ Len(NewestFirst(S)) = Cardinality(S)
           /\ \A n \in 1..Cardinality(S) :
                 NewestFirst(S)[n] \in S /\ Rank(S, NewestFirst(S)[n]) = n
  <1>1. Cardinality(S) \in Nat
    BY FS_CardinalityType DEF FiniteLog
  <1>2. ASSUME NEW n \in 1..Cardinality(S)
        PROVE  NewestFirst(S)[n] \in S /\ Rank(S, NewestFirst(S)[n]) = n
    <2>1. NewestFirst(S)[n] = CHOOSE i \in S : Rank(S, i) = n
      BY DEF NewestFirst, Rank, Newer
    <2>2. \E i \in S : Rank(S, i) = n
      BY RankTaken
    <2> QED BY <2>1, <2>2
  <1>3. NewestFirst(S) = [n \in 1..Cardinality(S) |-> NewestFirst(S)[n]]
    <2> DEFINE newest(n) == CHOOSE i \in S : Cardinality({j \in S : j >= i}) = n
    <2>1. NewestFirst(S) = [n \in 1..Cardinality(S) |-> newest(n)]
      BY DEF NewestFirst
    <2> HIDE DEF newest
    <2> QED BY <2>1
  <1> QED BY <1>1, <1>2, <1>3

\* A list with the ranks of a set is its NewestFirst.
LEMMA NewestFirstIs ==
    ASSUME NEW S, FiniteLog(S), NEW s \in Seq(S), Len(s) = Cardinality(S),
           \A n \in 1..Len(s) : Rank(S, s[n]) = n
    PROVE  s = NewestFirst(S)
  <1>1. /\ NewestFirst(S) \in Seq(S) /\ Len(NewestFirst(S)) = Len(s)
        /\ \A n \in 1..Len(s) : NewestFirst(S)[n] \in S /\ Rank(S, NewestFirst(S)[n]) = n
    BY NewestFirstLists
  <1>2. ASSUME NEW n \in 1..Len(s) PROVE s[n] = NewestFirst(S)[n]
    BY <1>1, RankUnique
  <1> HIDE DEF NewestFirst
  <1> QED BY <1>1, <1>2

\* Older matches follow newer ones.
LEMMA NewestFirstConcat ==
    ASSUME NEW S, NEW T, FiniteLog(S), FiniteLog(T), \A i \in S, j \in T : j < i
    PROVE  NewestFirst(S) \o NewestFirst(T) = NewestFirst(S \cup T)
  <1> DEFINE U == S \cup T
             s == NewestFirst(S)
             t == NewestFirst(T)
             u == s \o t
  <1>0. /\ S \subseteq Nat /\ T \subseteq Nat /\ IsFiniteSet(S) /\ IsFiniteSet(T)
        /\ Cardinality(S) \in Nat /\ Cardinality(T) \in Nat
    BY FS_CardinalityType DEF FiniteLog
  <1>1. S \cap T = {} /\ Cardinality(S \cap T) = 0
    <2>1. \A i \in S : i \notin T
      <3>1. \A i \in S : i \in Nat /\ ~(i < i)
        BY <1>0
      <3> QED BY <3>1
    <2> QED BY <2>1, FS_EmptySet
  <1>2. FiniteLog(U) /\ Cardinality(U) = Cardinality(S) + Cardinality(T)
    BY <1>0, <1>1, FS_Union DEF FiniteLog
  <1>3. /\ s \in Seq(S) /\ Len(s) = Cardinality(S)
        /\ \A n \in 1..Len(s) : s[n] \in S /\ Rank(S, s[n]) = n
    BY NewestFirstLists
  <1>4. /\ t \in Seq(T) /\ Len(t) = Cardinality(T)
        /\ \A n \in 1..Len(t) : t[n] \in T /\ Rank(T, t[n]) = n
    BY NewestFirstLists
  <1>5. ASSUME NEW i \in S PROVE Rank(U, i) = Rank(S, i)
    <2>1. \A j \in T : ~(j >= i)
      BY <1>0
    <2>2. Newer(U, i) = Newer(S, i)
      BY <2>1 DEF Newer
    <2> QED BY <2>2 DEF Rank
  <1>6. ASSUME NEW j \in T PROVE Rank(U, j) = Cardinality(S) + Rank(T, j)
    <2>1. \A i \in S : i >= j
      BY <1>0
    <2>2. Newer(U, j) = S \cup Newer(T, j) /\ Newer(T, j) \in SUBSET T
      BY <2>1 DEF Newer
    <2>3. IsFiniteSet(Newer(T, j)) /\ S \cap Newer(T, j) = {}
      BY <1>0, <1>1, <2>2, FS_Subset
    <2>4. Cardinality(Newer(T, j)) \in Nat
      BY <2>3, FS_CardinalityType
    <2>5. Cardinality(S \cup Newer(T, j)) = Cardinality(S) + Cardinality(Newer(T, j)) - 0
      BY <1>0, <2>3, FS_Union, FS_EmptySet
    <2>6. Cardinality(Newer(U, j)) = Cardinality(S) + Cardinality(Newer(T, j))
      <3> HIDE DEF U
      <3> QED BY <1>0, <2>2, <2>4, <2>5
    <2> QED BY <2>6 DEF Rank
  <1> HIDE DEF s, t
  <1>7. /\ u \in Seq(U) /\ Len(u) = Cardinality(U)
        /\ \A n \in 1..Len(s) : u[n] = s[n]
        /\ \A n \in 1..Len(u) : n > Len(s) => u[n] = t[n - Len(s)] /\ n - Len(s) \in 1..Len(t)
    BY <1>0, <1>2, <1>3, <1>4
  <1> HIDE DEF u, U
  <1>8. ASSUME NEW n \in 1..Len(u) PROVE Rank(U, u[n]) = n
    <2>0. Len(s) \in Nat /\ n \in Nat
      BY <1>3, <1>7
    <2>1. CASE n <= Len(s)
      <3>1. n \in 1..Len(s)
        BY <2>0, <2>1
      <3>2. u[n] = s[n] /\ s[n] \in S /\ Rank(S, s[n]) = n
        BY <1>3, <1>7, <3>1
      <3> QED BY <1>5, <3>2
    <2>2. CASE n > Len(s)
      <3>1. u[n] = t[n - Len(s)] /\ n - Len(s) \in 1..Len(t)
        BY <1>7, <2>2
      <3>2. t[n - Len(s)] \in T /\ Rank(T, t[n - Len(s)]) = n - Len(s)
        BY <1>4, <3>1
      <3>3. Rank(U, u[n]) = Cardinality(S) + (n - Len(s))
        BY <1>6, <3>1, <3>2
      <3> QED BY <1>0, <1>3, <2>0, <3>3
    <2> QED BY <2>0, <2>1, <2>2
  <1>9. u = NewestFirst(U)
    BY <1>2, <1>7, <1>8, NewestFirstIs
  <1> QED BY <1>9 DEF u, U, s, t

\* The newest matches, at most length of them: a full page ends at its smallest
\* index, and one that is not full holds every match.
LEMMA NewestCut ==
    ASSUME NEW S, FiniteLog(S), NEW length \in Nat \ {0}
    PROVE  LET P == {i \in S : Rank(S, i) <= length}
               page == NewestFirst(P)
           IN  /\ FiniteLog(P) /\ page \in Seq(P)
               /\ Len(page) # length => P = S
               /\ Len(page) = length =>
                     /\ page[Len(page)] \in S
                     /\ P = {i \in S : i >= page[Len(page)]}
  <1> DEFINE P == {i \in S : Rank(S, i) <= length}
             page == NewestFirst(P)
  <1>0. S \subseteq Nat /\ IsFiniteSet(S) /\ Cardinality(S) \in Nat
    BY FS_CardinalityType DEF FiniteLog
  <1>1. P \in SUBSET S /\ IsFiniteSet(P) /\ FiniteLog(P) /\ Cardinality(P) \in Nat
    <2>1. P \in SUBSET S
      OBVIOUS
    <2>2. IsFiniteSet(P)
      BY <1>0, <2>1, FS_Subset
    <2> QED BY <1>0, <2>1, <2>2, FS_CardinalityType DEF FiniteLog
  <1>2. ASSUME NEW i \in P, NEW j \in S, j >= i PROVE j \in P
    <2>1. i \in Nat /\ j \in Nat /\ i \in S /\ Rank(S, i) <= length
      BY <1>0, <1>1
    <2>2. Rank(S, i) \in 1..Cardinality(S) /\ Rank(S, j) \in 1..Cardinality(S)
      BY <2>1, RankOrder
    <2>3. i # j => Rank(S, j) < Rank(S, i)
      BY <1>2, <2>1, RankOrder
    <2>4. Rank(S, j) <= length
      BY <1>0, <2>1, <2>2, <2>3
    <2> QED BY <2>4
  <1>3. /\ page \in Seq(P) /\ Len(page) = Cardinality(P)
        /\ \A n \in 1..Cardinality(P) : page[n] \in P /\ Rank(P, page[n]) = n
    BY <1>1, NewestFirstLists
  <1>4. ASSUME Len(page) # length, NEW i \in S, i \notin P PROVE FALSE
    <2>1. Rank(S, i) \in 1..Cardinality(S) /\ ~(Rank(S, i) <= length)
      BY <1>4, RankOrder
    <2>2. length \in 1..Cardinality(S)
      BY <1>0, <2>1
    <2>3. PICK k \in S : Rank(S, k) = length
      BY <2>2, RankTaken
    <2>4. k \in P
      BY <2>3
    <2>5. ASSUME NEW j \in P PROVE j >= k
      <3>1. j \in S /\ j \in Nat /\ k \in Nat /\ Rank(S, j) <= length
        BY <1>0, <1>1
      <3>2. Rank(S, j) \in 1..Cardinality(S) /\ (j < k => Rank(S, k) < Rank(S, j))
        BY <3>1, RankOrder
      <3> QED BY <1>0, <2>3, <3>1, <3>2
    <2>6. P = Newer(S, k)
      <3>1. \A j \in S : j >= k <=> j \in P
        BY <1>2, <2>4, <2>5
      <3> HIDE DEF P
      <3> QED BY <1>1, <3>1 DEF Newer
    <2> QED BY <1>3, <1>4, <2>3, <2>6 DEF Rank
  <1>5. ASSUME Len(page) = length
        PROVE  page[Len(page)] \in S /\ P = {i \in S : i >= page[Len(page)]}
    <2>1. length \in 1..Cardinality(P) /\ length = Cardinality(P)
      BY <1>1, <1>3, <1>5
    <2>2. PICK last \in P : page[Len(page)] = last /\ Rank(P, last) = Cardinality(P)
      BY <1>3, <1>5, <2>1
    <2> HIDE DEF P, page
    <2>3. Newer(P, last) \in SUBSET P
      BY DEF Newer
    <2>4. Newer(P, last) = P
      BY <1>1, <2>2, <2>3, FS_Subset DEF Rank
    <2>5. \A j \in P : j >= last
      BY <2>4 DEF Newer
    <2>6. P = {i \in S : i >= last}
      BY <1>1, <1>2, <2>5
    <2> QED BY <1>1, <2>2, <2>6
  <1>6. Len(page) # length => P = S
    <2>1. Len(page) # length => \A i \in S : i \in P
      BY <1>4
    <2> HIDE DEF P, page
    <2> QED BY <1>1, <2>1
  <1> HIDE DEF P, page
  <1>7. /\ FiniteLog(P) /\ page \in Seq(P)
        /\ Len(page) # length => P = S
        /\ Len(page) = length =>
              page[Len(page)] \in S /\ P = {i \in S : i >= page[Len(page)]}
    BY <1>1, <1>3, <1>5, <1>6
  <1> QED BY <1>7 DEF P, page

-----------------------------------------------------------------------------
\* Walks.

\* The matches of a walk with an index in from..to-1.
Between(q, from, to) == {i \in Matching(q, None) : from <= i /\ i < to}

\* What a walk has received: nothing, the matches down to its cursor, or all.
\* WalksComplete alone does not say where an unfinished walk stands.
WalkOK(row) ==
    row.pc # "idle" /\ row.query.kind = "events" =>
        /\ row.query \in Queries /\ row.pc \in {"page", "answered"}
        /\ row.pc = "page" /\ row.before = None => row.seen = <<>>
        /\ row.pc = "page" /\ row.before # None =>
              /\ row.before \in Nat /\ row.before <= row.count
              /\ row.seen = NewestFirst(Between(row.query, row.before, row.count))
        /\ row.pc = "answered" => row.seen = NewestFirst(Between(row.query, 0, row.count))

WalkInv == \A r \in Readers : WalkOK(reader[r])

\* A filter selects finitely many events.
LEMMA MatchingFinite ==
    ASSUME AuditInv, NEW q, NEW before
    PROVE  /\ FiniteLog(Matching(q, before))
           /\ \A i \in Matching(q, before) : i < Len(events)
  <1>1. Len(events) \in Nat
    BY DEF AuditInv
  <1>2. Matching(q, before) \in SUBSET (0..(Len(events) - 1))
    BY DEF Matching
  <1>3. IsFiniteSet(0..(Len(events) - 1))
    BY <1>1, FS_Interval
  <1>4. IsFiniteSet(Matching(q, before))
    BY <1>2, <1>3, FS_Subset
  <1> HIDE DEF Matching
  <1> QED BY <1>1, <1>2, <1>4 DEF FiniteLog

\* The limit of a request is clamped to a page of at least one event.
LEMMA PageLengthPositive ==
    ASSUME NEW q \in Queries, q.kind = "events"
    PROVE  PageLength(q) \in Nat \ {0}
  <1>1. q.limit \in Int
    BY QueriesAssumption DEF QueryOK
  <1> QED BY <1>1, AuditBoundsAssumption DEF PageLength

\* The pages of a walk before this one and this one, up to the count of events
\* at its first page, are the matches down to the new cursor, or all of them.
LEMMA PageContinues ==
    ASSUME AuditInv, NEW q \in Queries, q.kind = "events", NEW before, NEW count \in Nat, NEW seen,
           \/ before = None /\ count = Len(events) /\ seen = <<>>
           \/ /\ before \in Nat /\ before <= count /\ count <= Len(events)
              /\ seen = NewestFirst(Between(q, before, count))
    PROVE  LET page == Page(q, before) IN
           /\ Len(page) = PageLength(q) =>
                 /\ NextCursor(page) \in Nat /\ NextCursor(page) <= count
                 /\ seen \o page = NewestFirst(Between(q, NextCursor(page), count))
           /\ Len(page) # PageLength(q) =>
                 seen \o page = NewestFirst(Between(q, 0, count))
  <1> DEFINE S == Matching(q, before)
             length == PageLength(q)
             P == {i \in S : Rank(S, i) <= length}
             page == NewestFirst(P)
             bound == IF before = None THEN count ELSE before
             B == IF before = None THEN {} ELSE Between(q, before, count)
             M == Matching(q, None)
  <1>0. Len(events) \in Nat /\ None \notin Nat
    BY AuditNoneAssumption DEF AuditInv
  <1>1. Page(q, before) = page
    BY DEF Page, Rank, Newer
  <1>2. FiniteLog(M) /\ FiniteLog(S) /\ \A i \in M : i < Len(events)
    BY MatchingFinite
  <1>3. length \in Nat \ {0}
    BY PageLengthPositive
  <1>4. bound \in Nat /\ bound <= count
    BY <1>0
  <1>5. S = {i \in M : i < bound}
    <2>1. CASE before = None
      <3>1. bound = Len(events) /\ S = M
        BY <1>0, <2>1
      <3> HIDE DEF M
      <3> QED BY <1>2, <3>1
    <2>2. CASE before # None
      BY <2>2 DEF Matching
    <2> QED BY <2>1, <2>2
  <1>6. FiniteLog(B) /\ seen = NewestFirst(B) /\ B = {i \in M : bound <= i /\ i < count}
    <2>1. CASE before = None
      <3>1. B = {} /\ seen = <<>> /\ bound = count
        BY <1>0, <2>1
      <3>2. NewestFirst({}) = <<>>
        BY FS_EmptySet DEF NewestFirst
      <3>3. FiniteLog({})
        BY FS_EmptySet DEF FiniteLog
      <3>4. \A i \in M : i \in Nat
        BY <1>2 DEF FiniteLog
      <3>5. {i \in M : bound <= i /\ i < count} = {}
        <4> HIDE DEF M, bound
        <4> QED BY <1>4, <3>1, <3>4
      <3> QED BY <3>1, <3>2, <3>3, <3>5
    <2>2. CASE before # None
      <3>1. B = Between(q, before, count) /\ seen = NewestFirst(B) /\ bound = before
        BY <2>2
      <3>2. B \in SUBSET M
        BY <3>1 DEF Between
      <3>3. FiniteLog(B)
        <4> HIDE DEF B, M
        <4> QED BY <1>2, <3>2, FS_Subset DEF FiniteLog
      <3> QED BY <3>1, <3>3 DEF Between
    <2> QED BY <2>1, <2>2
  <1>7. /\ FiniteLog(P) /\ page \in Seq(P)
        /\ Len(page) # length => P = S
        /\ Len(page) = length =>
              /\ page[Len(page)] \in S
              /\ P = {i \in S : i >= page[Len(page)]}
    <2> HIDE DEF S, length
    <2> QED BY <1>2, <1>3, NewestCut
  <1>8. P \in SUBSET S
    OBVIOUS
  <1> HIDE DEF S, P, page, B, M, bound, length
  <1>9. \A i \in M : i \in Nat
    BY <1>2 DEF FiniteLog
  <1>10. \A i \in B, j \in P : j < i
    BY <1>4, <1>5, <1>6, <1>8, <1>9
  <1>11. seen \o page = NewestFirst(B \cup P)
    BY <1>6, <1>7, <1>10, NewestFirstConcat DEF page
  <1>12. ASSUME Len(page) = length
         PROVE  /\ NextCursor(page) \in Nat /\ NextCursor(page) <= count
                /\ B \cup P = Between(q, NextCursor(page), count)
    <2>1. /\ NextCursor(page) \in S /\ P = {i \in S : i >= NextCursor(page)}
      BY <1>7, <1>12 DEF NextCursor
    <2> DEFINE c == NextCursor(page)
    <2> HIDE DEF c
    <2>2. c \in Nat /\ c < bound
      BY <1>5, <1>9, <2>1 DEF c
    <2>3. \A i \in M : i \in B \cup P <=> c <= i /\ i < count
      BY <1>4, <1>5, <1>6, <1>9, <2>1, <2>2 DEF c
    <2>4. B \cup P \subseteq M
      BY <1>5, <1>6, <1>8
    <2>5. B \cup P = Between(q, c, count)
      BY <2>3, <2>4 DEF Between, M
    <2> QED BY <1>4, <2>2, <2>5 DEF c
  <1>13. ASSUME Len(page) # length
         PROVE  B \cup P = Between(q, 0, count)
    <2>1. P = S
      BY <1>7, <1>13
    <2>2. \A i \in M : i \in B \cup P <=> 0 <= i /\ i < count
      BY <1>4, <1>5, <1>6, <1>9, <2>1
    <2>3. B \cup P \subseteq M
      BY <1>5, <1>6, <1>8
    <2> QED BY <2>2, <2>3 DEF Between, M
  <1>14. /\ Len(page) = length =>
              /\ NextCursor(page) \in Nat /\ NextCursor(page) <= count
              /\ seen \o page = NewestFirst(Between(q, NextCursor(page), count))
         /\ Len(page) # length =>
              seen \o page = NewestFirst(Between(q, 0, count))
    BY <1>11, <1>12, <1>13
  <1> QED BY <1>1, <1>14 DEF length

\* A step of one call that appends nothing.
LEMMA WalkStep ==
    ASSUME AuditInv, WalkInv, NEW r \in Readers, NEW row, WalkOK(row), Step(r, row), UNCHANGED events
    PROVE  WalkInv'
  <1>1. \A q \in Readers : reader'[q] = IF q = r THEN row ELSE reader[q]
    BY DEF Step, AuditInv
  <1>2. ASSUME NEW q \in Readers PROVE WalkOK(reader'[q])
    BY <1>1 DEF WalkInv
  <1>3. ASSUME NEW q \in Readers PROVE WalkOK(reader[q])'
    BY <1>2 DEF WalkOK, Between, Matching
  <1> QED BY <1>3 DEF WalkInv

\* An event that is appended is behind the walks that have begun.
LEMMA AppendBehindWalks ==
    ASSUME AuditInv, NEW a \in Writers, AppendEvent(a), NEW q, NEW from, NEW count \in Nat,
           count <= Len(events)
    PROVE  Between(q, from, count)' = Between(q, from, count)
  <1>1. /\ Len(events) \in Nat /\ Len(events') = Len(events) + 1
        /\ \A i \in 1..Len(events) : events'[i] = events[i]
    BY DEF AppendEvent, AuditInv
  <1>2. \A i \in 0..(Len(events) - 1) : i + 1 \in 1..Len(events) /\ i \in 0..(Len(events') - 1)
    BY <1>1
  <1>3. \A i \in 0..(Len(events') - 1) : i < count => i \in 0..(Len(events) - 1)
    BY <1>1
  <1> QED BY <1>1, <1>2, <1>3 DEF Between, Matching

\* An append does not disturb a walk.
LEMMA AppendKeepsWalks ==
    ASSUME AuditInv, WalkInv, NEW a \in Writers, AppendEvent(a)
    PROVE  WalkInv'
  <1>1. reader' = reader
    BY DEF AppendEvent
  <1>2. ASSUME NEW r \in Readers PROVE WalkOK(reader[r])'
    <2>1. WalkOK(reader[r]) /\ ReaderOK(reader[r])
      BY DEF WalkInv, AuditInv
    <2>2. reader[r].count \in Nat /\ reader[r].count <= Len(events)
      BY <2>1 DEF ReaderOK, ReaderRow
    <2>3. \A from : Between(reader[r].query, from, reader[r].count)'
                       = Between(reader[r].query, from, reader[r].count)
      BY <1>1, <2>2, AppendBehindWalks
    <2>4. \A S : NewestFirst(S)' = NewestFirst(S)
      OBVIOUS
    <2> QED BY <1>1, <2>1, <2>3, <2>4 DEF WalkOK
  <1> QED BY <1>2 DEF WalkInv

\* One page more.
LEMMA PageKeepsWalks ==
    ASSUME AuditInv, WalkInv, NEW r \in Readers, ReadPage(r)
    PROVE  WalkInv'
  <1> DEFINE old == reader[r]
             q == old.query
             page == Page(q, old.before)
             count == IF old.before = None THEN Len(events) ELSE old.count
             seen == old.seen \o page
             next == [old EXCEPT !.seen = @ \o page,
                                 !.count = IF old.before = None THEN Len(events) ELSE @]
             goOn == [next EXCEPT !.before = NextCursor(page)]
             last == [next EXCEPT !.pc = "answered"]
             row == IF Len(page) = PageLength(q) THEN goOn ELSE last
  <1>1. old.pc = "page" /\ Step(r, row) /\ UNCHANGED events
    BY DEF ReadPage, tables
  <1>2. ReaderOK(old) /\ WalkOK(old) /\ q.kind = "events"
    BY <1>1 DEF AuditInv, WalkInv, ReaderOK
  <1>3. q \in Queries
    BY <1>1, <1>2 DEF WalkOK
  <1>4. /\ count \in Nat /\ Len(events) \in Nat
        /\ \/ old.before = None /\ count = Len(events) /\ old.seen = <<>>
           \/ /\ old.before \in Nat /\ old.before <= count /\ count <= Len(events)
              /\ old.seen = NewestFirst(Between(q, old.before, count))
    <2>1. Len(events) \in Nat /\ old.count \in Nat /\ old.count <= Len(events)
      BY <1>2 DEF AuditInv, ReaderOK, ReaderRow
    <2>2. CASE old.before = None
      BY <1>1, <1>2, <2>1, <2>2 DEF WalkOK
    <2>3. CASE old.before # None
      BY <1>1, <1>2, <2>1, <2>3 DEF WalkOK
    <2> QED BY <2>2, <2>3
  <1>5. next = [old EXCEPT !.seen = seen, !.count = count]
    OBVIOUS
  <1> HIDE DEF next, seen, count
  <1>6. /\ next.pc = "page" /\ next.query = q /\ next.seen = seen /\ next.count = count
        /\ ReaderRow(next)
    BY <1>1, <1>2, <1>4, <1>5 DEF ReaderOK, ReaderRow
  <1>7. /\ Len(page) = PageLength(q) =>
              /\ NextCursor(page) \in Nat /\ NextCursor(page) <= count
              /\ seen = NewestFirst(Between(q, NextCursor(page), count))
        /\ Len(page) # PageLength(q) => seen = NewestFirst(Between(q, 0, count))
    <2> HIDE DEF old, q
    <2> QED BY <1>2, <1>3, <1>4, PageContinues DEF seen
  <1> HIDE DEF page
  <1>8. /\ goOn.pc = "page" /\ goOn.query = q /\ goOn.seen = seen /\ goOn.count = count
        /\ goOn.before = NextCursor(page)
    BY <1>6 DEF ReaderRow
  <1>9. last.pc = "answered" /\ last.query = q /\ last.seen = seen /\ last.count = count
    BY <1>6 DEF ReaderRow
  <1>10. None \notin Nat
    BY AuditNoneAssumption
  <1> HIDE DEF goOn, last, q
  <1>11. CASE Len(page) = PageLength(q)
    <2>1. WalkOK(goOn)
      BY <1>3, <1>7, <1>8, <1>10, <1>11 DEF WalkOK
    <2> QED BY <1>1, <1>11, <2>1, WalkStep
  <1>12. CASE Len(page) # PageLength(q)
    <2>1. WalkOK(last)
      BY <1>3, <1>7, <1>9, <1>12 DEF WalkOK
    <2> QED BY <1>1, <1>12, <2>1, WalkStep
  <1> QED BY <1>11, <1>12

\* One step of the specification.
LEMMA WalkNext == AuditInv /\ WalkInv /\ [Next]_vars => WalkInv'
  <1> SUFFICES ASSUME AuditInv, WalkInv, [Next]_vars PROVE WalkInv'
    OBVIOUS
  <1>1. CASE UNCHANGED vars
    <2>1. UNCHANGED <<events, reader>>
      BY <1>1 DEF vars
    <2>2. ASSUME NEW r \in Readers PROVE WalkOK(reader[r])'
      <3>1. WalkOK(reader[r])
        BY DEF WalkInv
      <3> QED BY <2>1, <3>1 DEF WalkOK, Between, Matching
    <2> QED BY <2>2 DEF WalkInv
  <1>2. ASSUME NEW a \in Writers, AppendEvent(a) PROVE WalkInv'
    BY <1>2, AppendKeepsWalks
  <1>3. ASSUME NEW r \in Readers, Query(r) PROVE WalkInv'
    <2>1. ReaderOK(reader[r]) /\ WalkOK(reader[r])
      BY DEF AuditInv, WalkInv
    <2>2. CASE Ask(r)
      <3>1. PICK q \in Queries :
              Step(r, [Idle EXCEPT !.pc = FirstStep(q), !.query = q,
                                   !.size = IF FirstStep(q) = "prove" THEN q.size ELSE 0])
        BY <2>2 DEF Ask
      <3> DEFINE row == [Idle EXCEPT !.pc = FirstStep(q), !.query = q,
                                     !.size = IF FirstStep(q) = "prove" THEN q.size ELSE 0]
      <3>2. q.kind = "events" => FirstStep(q) = "page"
        BY DEF FirstStep
      <3>3. /\ row.pc = FirstStep(q) /\ row.query = q
            /\ row.before = None /\ row.seen = <<>>
        BY DEF Idle
      <3> HIDE DEF row
      <3>4. WalkOK(row)
        BY <3>2, <3>3 DEF WalkOK
      <3>5. UNCHANGED events
        BY <2>2 DEF Ask, tables
      <3> QED BY <3>1, <3>4, <3>5, WalkStep DEF row
    <2>3. CASE ReadPage(r)
      BY <2>3, PageKeepsWalks
    <2>4. CASE Finish(r)
      <3>1. WalkOK(Idle) /\ Step(r, Idle) /\ UNCHANGED events
        BY <2>4 DEF WalkOK, Idle, Finish, tables
      <3> QED BY <3>1, WalkStep
    <2>5. CASE Count(r) \/ Ensure(r) \/ MakeCheckpoint(r) \/ ReadLatest(r) \/ Prove(r)
      <3>1. reader[r].pc \in {"count", "ensure", "make", "latest", "prove"} /\ UNCHANGED events
        BY <2>5 DEF Count, Ensure, MakeCheckpoint, ReadLatest, Prove, tables
      <3>2. reader[r].query.kind # "events"
        BY <2>1, <3>1 DEF WalkOK
      <3>3. PICK row : Step(r, row) /\ row.query = reader[r].query
        <4>1. CASE Count(r)
          <5> DEFINE row == [reader[r] EXCEPT !.pc = "ensure", !.count = Len(events)]
          <5>1. Step(r, row)
            BY <4>1 DEF Count
          <5>2. row.query = reader[r].query
            BY <2>1 DEF ReaderOK, ReaderRow
          <5> QED BY <5>1, <5>2
        <4>2. CASE Ensure(r)
          <5> DEFINE pc == IF UpToDate(reader[r].count) THEN "latest" ELSE "make"
          <5>1. Step(r, [reader[r] EXCEPT !.pc = pc])
            BY <4>2 DEF Ensure
          <5> HIDE DEF pc
          <5>2. [reader[r] EXCEPT !.pc = pc].query = reader[r].query
            BY <2>1 DEF ReaderOK, ReaderRow
          <5> QED BY <5>1, <5>2
        <4>3. CASE MakeCheckpoint(r)
          <5>1. [reader[r] EXCEPT !.pc = "latest"].query = reader[r].query
            BY <2>1 DEF ReaderOK, ReaderRow
          <5>2. Step(r, [reader[r] EXCEPT !.pc = "latest"])
            BY <4>3 DEF MakeCheckpoint
          <5> QED BY <5>1, <5>2
        <4>4. CASE ReadLatest(r)
          <5> DEFINE answer == [reader[r] EXCEPT !.pc = "answered", !.size = TreeSize,
                                                 !.answer = <<checkpoints[TreeSize]>>]
                     prove == [reader[r] EXCEPT !.pc = "prove", !.size = TreeSize]
          <5>1. Step(r, answer) \/ Step(r, prove)
            BY <4>4 DEF ReadLatest
          <5>2. answer.query = reader[r].query /\ prove.query = reader[r].query
            BY <2>1 DEF ReaderOK, ReaderRow
          <5> HIDE DEF answer, prove
          <5> QED BY <5>1, <5>2
        <4>5. CASE Prove(r)
          <5>1. PICK proof : Step(r, [reader[r] EXCEPT !.pc = "answered", !.answer = proof])
            BY <4>5 DEF Prove
          <5>2. [reader[r] EXCEPT !.pc = "answered", !.answer = proof].query = reader[r].query
            BY <2>1 DEF ReaderOK, ReaderRow
          <5> QED BY <5>1, <5>2
        <4> QED BY <2>5, <4>1, <4>2, <4>3, <4>4, <4>5
      <3>4. WalkOK(row)
        BY <3>2, <3>3 DEF WalkOK
      <3> QED BY <3>1, <3>3, <3>4, WalkStep
    <2> QED BY <1>3, <2>2, <2>3, <2>4, <2>5 DEF Query
  <1> QED BY <1>1, <1>2, <1>3 DEF Next

\* A walk through the log by next_cursor and has_more yields every event that
\* matched when it began, each once and newest first, for a log, a page length
\* and a number of concurrent readers and writers of any size.
THEOREM WalksAlwaysComplete == Spec => []WalksComplete
  <1>1. Init => WalkInv
    BY DEF Init, WalkInv, WalkOK, Idle
  <1>2. AuditInv /\ WalkInv => WalksComplete
    <2> SUFFICES ASSUME AuditInv, WalkInv, NEW r \in Readers, Answered(r, "events")
                 PROVE  reader[r].seen =
                          NewestFirst({i \in Matching(reader[r].query, None) : i < reader[r].count})
      BY DEF WalksComplete
    <2>1. reader[r].seen = NewestFirst(Between(reader[r].query, 0, reader[r].count))
      BY DEF WalkInv, WalkOK, Answered
    <2>2. Between(reader[r].query, 0, reader[r].count)
            = {i \in Matching(reader[r].query, None) : i < reader[r].count}
      BY DEF Between, Matching
    <2> QED BY <2>1, <2>2
  <1> QED BY <1>1, <1>2, AuditInit, AuditStep, WalkNext, PTL DEF Spec

-----------------------------------------------------------------------------
\* The stored tree.

\* The leaves of a log.
LeavesOf(es) == [i \in DOMAIN es |-> Leaf(i - 1, es[i])]

\* There is one for each event, in order.
LEMMA LeavesFacts ==
    ASSUME NEW es \in Seq(Writers)
    PROVE  /\ Len(LeavesOf(es)) = Len(es) /\ Len(es) \in Nat
           /\ \A i \in 1..Len(es) : LeavesOf(es)[i] = Leaf(i - 1, es[i])
  <1> DEFINE S == {Leaf(i - 1, es[i]) : i \in DOMAIN es}
             n == Len(es)
             f == LeavesOf(es)
  <1>1. n \in Nat /\ DOMAIN es = 1..n
    OBVIOUS
  <1>2. f \in [1..n -> S]
    BY <1>1 DEF LeavesOf
  <1> HIDE DEF S, n
  <1>3. f \in Seq(S) /\ DOMAIN f = 1..n
    <2> HIDE DEF f
    <2> QED BY <1>1, <1>2
  <1>4. Len(f) = n
    <2> HIDE DEF f
    <2> QED BY <1>1, <1>3
  <1>5. \A i \in 1..n : f[i] = Leaf(i - 1, es[i])
    BY <1>1 DEF LeavesOf
  <1> HIDE DEF f
  <1> QED BY <1>1, <1>4, <1>5 DEF f, n

\* An append adds one and keeps the others.
LEMMA LeavesAppend ==
    ASSUME NEW es \in Seq(Writers), NEW a \in Writers
    PROVE  /\ Append(es, a) \in Seq(Writers)
           /\ Len(LeavesOf(es)) = Len(es) /\ Len(LeavesOf(Append(es, a))) = Len(es) + 1
           /\ Len(es) \in Nat
           /\ \A i \in 1..Len(es) : LeavesOf(es)[i] = LeavesOf(Append(es, a))[i]
           /\ LeavesOf(Append(es, a))[Len(es) + 1] = Leaf(Len(es), a)
  <1> DEFINE fs == Append(es, a)
             n == Len(es)
  <1>1. /\ fs \in Seq(Writers) /\ Len(fs) = n + 1 /\ n \in Nat
        /\ \A i \in 1..n : fs[i] = es[i]
        /\ fs[n + 1] = a
    OBVIOUS
  <1> HIDE DEF fs
  <1>2. /\ Len(LeavesOf(es)) = n
        /\ \A i \in 1..n : LeavesOf(es)[i] = Leaf(i - 1, es[i])
    BY LeavesFacts
  <1>3. /\ Len(LeavesOf(fs)) = n + 1
        /\ \A i \in 1..(n + 1) : LeavesOf(fs)[i] = Leaf(i - 1, fs[i])
    BY <1>1, LeavesFacts
  <1> HIDE DEF n
  <1>4. \A i \in 1..n : LeavesOf(es)[i] = LeavesOf(fs)[i]
    BY <1>1, <1>2, <1>3
  <1>5. LeavesOf(fs)[n + 1] = Leaf(n, a)
    <2>1. n + 1 \in 1..(n + 1) /\ (n + 1) - 1 = n
      BY <1>1
    <2> QED BY <1>1, <1>3, <2>1
  <1> QED BY <1>1, <1>2, <1>3, <1>4, <1>5 DEF fs, n

\* The hashes of the complete subtrees are what is stored, and nothing else.
TreeInv ==
    /\ Len(events) <= MaxEvents
    /\ DOMAIN hashes = 0..(Stored(Len(events)) - 1)
    /\ \A s \in Complete(Len(events)) :
          hashes[StoredHashIndex(s[1], s[2])] = RangeHash(Leaves, SubtreeRange(s[1], s[2]))

\* The left siblings of a carry are complete.
LEMMA SiblingsComplete ==
    ASSUME NEW n \in Nat, NEW l \in Nat, l < Carries(n)
    PROVE  /\ Shift(n, l + 1) \in Nat /\ Shift(n, l) = 2 * Shift(n, l + 1) + 1
           /\ <<l, 2 * Shift(n, l + 1)>> \in Complete(n)
           /\ LeftSibling(n, l) = StoredHashIndex(l, 2 * Shift(n, l + 1))
           /\ LeftSibling(n, l) \in 0..(Stored(n) - 1)
  <1> DEFINE k == Shift(n, l + 1)
             s == Shift(n, l)
  <1>1. s % 2 = 1
    BY CarriesFacts
  <1>2. s \in Nat /\ s * 2^l <= n /\ k = s \div 2 /\ k \in Nat
    <2>1. k = s \div 2
      BY ShiftStep
    <2>2. s \in Nat /\ s * 2^l <= n
      BY ShiftBounds
    <2> HIDE DEF s, k
    <2> QED BY <2>1, <2>2
  <1> HIDE DEF s, k
  <1>3. s = 2 * k + 1 /\ s - 1 = 2 * k /\ 2 * k \in Nat
    BY <1>1, <1>2
  <1>4. (2 * k + 1) * 2^l <= n
    BY <1>2, <1>3
  <1>5. <<l, 2 * k>> \in Complete(n)
    BY <1>3, <1>4 DEF Complete
  <1>6. LeftSibling(n, l) = StoredHashIndex(l, 2 * k)
    BY <1>3 DEF LeftSibling, s
  <1>7. StoredHashIndex(l, 2 * k) \in Nat /\ StoredHashIndex(l, 2 * k) < Stored(n) /\ Stored(n) \in Nat
    BY <1>3, <1>4, IndexBounds, CompleteFinite
  <1> QED BY <1>2, <1>3, <1>5, <1>6, <1>7 DEF k, s

\* What the carry loop computes are the hashes of the subtrees that it completes.
LEMMA CarryHashes ==
    ASSUME NEW h, NEW n \in Nat, NEW leaves, NEW more, Len(leaves) = n, Len(more) = n + 1,
           \A i \in 1..n : leaves[i] = more[i],
           \A s \in Complete(n) : h[StoredHashIndex(s[1], s[2])] = RangeHash(leaves, SubtreeRange(s[1], s[2]))
    PROVE  CarryOK([l \in 0..Carries(n) |-> RangeHash(more, SubtreeRange(l, Shift(n, l)))],
                   h, n, more[n + 1])
  <1> DEFINE c == Carries(n)
             f == [l \in 0..c |-> RangeHash(more, SubtreeRange(l, Shift(n, l)))]
             g == [l \in 0..c |-> IF l = 0 THEN more[n + 1] ELSE Node(h[LeftSibling(n, l - 1)], f[l - 1])]
  <1>1. c \in Nat
    BY CarriesFacts
  <1>2. ASSUME NEW l \in 0..c PROVE f[l] = g[l]
    <2>1. CASE l = 0
      <3>1. f[l] = RangeHash(more, SubtreeRange(0, n))
        BY <2>1, ShiftZero
      <3>2. RangeHash(more, SubtreeRange(0, n)) = more[n + 1]
        BY LeafHash
      <3> QED BY <2>1, <3>1, <3>2
    <2>2. CASE l # 0
      <3> DEFINE j == l - 1
                 k == Shift(n, l)
      <3>1. j \in Nat /\ j \in 0..c /\ j < c /\ l = j + 1
        BY <1>1, <2>2
      <3>2. /\ k \in Nat /\ Shift(n, j) = 2 * k + 1
            /\ <<j, 2 * k>> \in Complete(n)
            /\ LeftSibling(n, j) = StoredHashIndex(j, 2 * k)
        BY <3>1, SiblingsComplete
      <3>3. (k + 1) * 2^l = n + 1
        BY <1>1, CarryEnds
      <3> HIDE DEF k
      <3>4. RangeHash(more, SubtreeRange(l, k)) =
              Node(RangeHash(more, SubtreeRange(j, 2 * k)), RangeHash(more, SubtreeRange(j, 2 * k + 1)))
        BY <3>1, <3>2, <3>3, ParentHash
      <3>5. RangeHash(more, SubtreeRange(j, 2 * k)) = h[LeftSibling(n, j)]
        <4>1. h[LeftSibling(n, j)] = RangeHash(leaves, SubtreeRange(j, 2 * k))
          BY <3>2
        <4>2. ((2 * k) + 1) * 2^j <= n
          BY <3>2 DEF Complete
        <4>3. /\ SubtreeRange(j, 2 * k) \in Ranges(n)
              /\ SubtreeRange(j, 2 * k)[1] < SubtreeRange(j, 2 * k)[2]
          <5>1. 2 * k \in Nat
            BY <3>2
          <5> QED BY <3>1, <4>2, <5>1, SubtreeRangeFacts
        <4>4. RangeHash(leaves, SubtreeRange(j, 2 * k)) = RangeHash(more, SubtreeRange(j, 2 * k))
          BY <4>3, RangeHashPrefix
        <4> QED BY <4>1, <4>4
      <3>6. f[j] = RangeHash(more, SubtreeRange(j, 2 * k + 1))
        BY <3>1, <3>2
      <3>7. f[l] = RangeHash(more, SubtreeRange(l, k))
        BY DEF k
      <3>8. g[l] = Node(h[LeftSibling(n, j)], f[j])
        BY <2>2
      <3> HIDE DEF f, g
      <3> QED BY <3>4, <3>5, <3>6, <3>7, <3>8
    <2> QED BY <2>1, <2>2
  <1>3. f = [l \in 0..c |-> f[l]] /\ g = [l \in 0..c |-> g[l]]
    OBVIOUS
  <1>4. f = g
    <2> HIDE DEF f, g
    <2> QED BY <1>2, <1>3
  <1> HIDE DEF f
  <1>5. CarryOK(f, h, n, more[n + 1])
    BY <1>4 DEF CarryOK
  <1> QED BY <1>5 DEF f

\* append_leaf_in_tx: the tree of n leaves becomes the tree of n + 1.
LEMMA AppendKeepsTree ==
    ASSUME AuditInv, TreeInv, NEW a \in Writers, AppendEvent(a)
    PROVE  TreeInv'
  <1> DEFINE n == Len(events)
             c == Carries(n)
             leaves == LeavesOf(events)
             more == LeavesOf(Append(events, a))
             rows == ToStore(hashes, n, Leaf(n, a))
             f == [l \in 0..c |-> RangeHash(more, SubtreeRange(l, Shift(n, l)))]
  <1>1. /\ events' = Append(events, a) /\ n < MaxEvents
        /\ hashes' = Overwrite(hashes, rows)
    BY DEF AppendEvent, NextIndex
  <1>2. /\ n \in Nat /\ Len(leaves) = n /\ Len(more) = n + 1
        /\ \A i \in 1..n : leaves[i] = more[i]
        /\ more[n + 1] = Leaf(n, a)
        /\ Len(events') = n + 1
    BY <1>1, LeavesAppend DEF AuditInv
  <1>3. Leaves = leaves /\ Leaves' = more
    BY <1>1 DEF Leaves, LeavesOf
  <1>4. c \in Nat /\ Stored(n) \in Nat /\ Stored(n + 1) = Stored(n) + c + 1
    BY <1>2, CarriesFacts, CompleteFinite, CompleteStep
  <1>5. /\ DOMAIN hashes = 0..(Stored(n) - 1)
        /\ \A s \in Complete(n) :
              hashes[StoredHashIndex(s[1], s[2])] = RangeHash(leaves, SubtreeRange(s[1], s[2]))
    BY <1>3 DEF TreeInv
  <1> HIDE DEF leaves, more
  <1>6. CarryOK(f, hashes, n, Leaf(n, a))
    <2>1. CarryOK(f, hashes, n, more[n + 1])
      <3> HIDE DEF n
      <3> QED BY <1>2, <1>5, CarryHashes
    <2> QED BY <1>2, <2>1
  <1>7. /\ DOMAIN rows = Stored(n)..(Stored(n) + c)
        /\ \A l \in 0..c : rows[Stored(n) + l] = f[l]
    <2> HIDE DEF f, n
    <2> QED BY <1>2, <1>6, ToStoreIs
  <1> HIDE DEF rows
  <1>8. hashes' = [i \in DOMAIN hashes \cup DOMAIN rows |->
                     IF i \in DOMAIN rows THEN rows[i] ELSE hashes[i]]
    BY <1>1 DEF Overwrite
  <1>9. DOMAIN hashes' = 0..(Stored(n + 1) - 1)
    <2>1. DOMAIN hashes' = DOMAIN hashes \cup DOMAIN rows
      BY <1>8
    <2>2. (0..(Stored(n) - 1)) \cup (Stored(n)..(Stored(n) + c)) = 0..(Stored(n) + c)
      <3> HIDE DEF n, c
      <3> QED BY <1>4
    <2>3. Stored(n + 1) - 1 = Stored(n) + c
      <3> HIDE DEF n, c
      <3> QED BY <1>4
    <2> HIDE DEF n, c
    <2> QED BY <1>5, <1>7, <2>1, <2>2, <2>3
  <1> HIDE DEF n, c
  <1>10. ASSUME NEW s \in Complete(n + 1)
         PROVE  hashes'[StoredHashIndex(s[1], s[2])] = RangeHash(more, SubtreeRange(s[1], s[2]))
    <2>1. s[1] \in Nat /\ s[2] \in Nat
      BY <1>2, CompleteBounds
    <2>2. CASE s \in Complete(n)
      <3>1. (s[2] + 1) * 2^s[1] <= n
        BY <2>2 DEF Complete
      <3>2. StoredHashIndex(s[1], s[2]) \in Nat /\ StoredHashIndex(s[1], s[2]) < Stored(n)
        BY <1>2, <2>1, <3>1, IndexBounds
      <3>3. StoredHashIndex(s[1], s[2]) \in DOMAIN hashes /\ StoredHashIndex(s[1], s[2]) \notin DOMAIN rows
        BY <1>4, <1>5, <1>7, <3>2
      <3>4. hashes'[StoredHashIndex(s[1], s[2])] = hashes[StoredHashIndex(s[1], s[2])]
        BY <1>8, <3>3
      <3>5. RangeHash(leaves, SubtreeRange(s[1], s[2])) = RangeHash(more, SubtreeRange(s[1], s[2]))
        <4>1. /\ SubtreeRange(s[1], s[2]) \in Ranges(n)
              /\ SubtreeRange(s[1], s[2])[1] < SubtreeRange(s[1], s[2])[2]
          BY <1>2, <2>1, <3>1, SubtreeRangeFacts
        <4> QED BY <1>2, <4>1, RangeHashPrefix
      <3> QED BY <1>5, <2>2, <3>4, <3>5
    <2>3. CASE s \notin Complete(n)
      <3>1. PICK l \in 0..c : s = <<l, Shift(n, l)>>
        BY <1>2, <2>3, CompleteStep DEF c
      <3>2. s[1] = l /\ s[2] = Shift(n, l) /\ l \in Nat /\ l <= Carries(n)
        BY <1>4, <3>1 DEF c
      <3>3. StoredHashIndex(s[1], s[2]) = Stored(n) + l
        BY <1>2, <3>2, CarryIndex
      <3>4. Stored(n) + l \in DOMAIN rows
        BY <1>4, <1>7
      <3>5. hashes'[Stored(n) + l] = f[l]
        <4> HIDE DEF f
        <4> QED BY <1>7, <1>8, <3>4
      <3>6. f[l] = RangeHash(more, SubtreeRange(l, Shift(n, l)))
        OBVIOUS
      <3> HIDE DEF f
      <3> QED BY <3>2, <3>3, <3>5, <3>6
    <2> QED BY <2>2, <2>3
  <1>11. Len(events') <= MaxEvents
    BY <1>1, <1>2, AuditBoundsAssumption DEF n
  <1> QED BY <1>2, <1>3, <1>9, <1>10, <1>11 DEF TreeInv

\* One step of the specification.
LEMMA TreeNext == AuditInv /\ TreeInv /\ [Next]_vars => TreeInv'
  <1> SUFFICES ASSUME AuditInv, TreeInv, [Next]_vars PROVE TreeInv'
    OBVIOUS
  <1>1. ASSUME NEW a \in Writers, AppendEvent(a) PROVE TreeInv'
    BY <1>1, AppendKeepsTree
  <1>2. CASE UNCHANGED <<events, hashes>>
    BY <1>2 DEF TreeInv, Leaves
  <1>3. ASSUME NEW r \in Readers, Query(r) PROVE UNCHANGED <<events, hashes>>
    BY <1>3 DEF Query, Ask, Count, Ensure, MakeCheckpoint, ReadLatest, Prove, ReadPage, Finish, tables
  <1>4. CASE UNCHANGED vars
    BY <1>2, <1>4 DEF vars
  <1> QED BY <1>1, <1>2, <1>3, <1>4 DEF Next

\* An empty log.
LEMMA TreeInit == Init => TreeInv
  <1> SUFFICES ASSUME Init PROVE TreeInv
    OBVIOUS
  <1>1. events = <<>> /\ DOMAIN hashes = {} /\ Len(events) = 0
    BY DEF Init
  <1>2. Stored(0) = 0 /\ Complete(0) = {}
    <2>1. ASSUME NEW s \in Complete(0) PROVE FALSE
      <3>1. s[1] \in Nat /\ s[1] < 0
        BY CompleteBounds
      <3> QED BY <3>1
    <2> QED BY <2>1, StoredNone
  <1>3. 0..(0 - 1) = {}
    OBVIOUS
  <1> QED BY <1>1, <1>2, <1>3, AuditBoundsAssumption DEF TreeInv

\* This is what StoredSubtrees says.
LEMMA TreeIsStored ==
    ASSUME AuditInv, TreeInv
    PROVE  StoredSubtrees
  <1> DEFINE n == Len(events)
             complete == {s \in (0..MaxEvents) \X (0..MaxEvents) : (s[2] + 1) * 2^s[1] <= n}
  <1>1. n \in Nat /\ n <= MaxEvents /\ MaxEvents \in Nat
    BY AuditBoundsAssumption DEF AuditInv, TreeInv
  <1> HIDE DEF n
  <1>2. complete = Complete(n)
    <2>1. ASSUME NEW s \in Complete(n) PROVE s \in complete
      <3>1. s = <<s[1], s[2]>> /\ s[1] \in 0..MaxEvents /\ s[2] \in 0..MaxEvents
        BY <1>1, CompleteBounds
      <3>2. (s[2] + 1) * 2^s[1] <= n
        BY DEF Complete
      <3>3. s \in (0..MaxEvents) \X (0..MaxEvents)
        BY <3>1
      <3> QED BY <3>2, <3>3
    <2>2. ASSUME NEW s \in complete PROVE s \in Complete(n)
      BY <1>1 DEF Complete
    <2> HIDE DEF complete
    <2> QED BY <2>1, <2>2
  <1>3. SiblingsStored
    <2> SUFFICES ASSUME NEW l \in 0..(Carries(n) - 1) PROVE LeftSibling(n, l) \in DOMAIN hashes
      BY DEF SiblingsStored, NextIndex, n
    <2>1. l \in Nat /\ l < Carries(n)
      BY <1>1, CarriesFacts
    <2>2. LeftSibling(n, l) \in 0..(Stored(n) - 1)
      BY <1>1, <2>1, SiblingsComplete
    <2> QED BY <2>2 DEF TreeInv, n
  <1>4. /\ DOMAIN hashes = 0..(Cardinality(complete) - 1)
        /\ \A s \in complete :
              hashes[StoredHashIndex(s[1], s[2])] = RangeHash(Leaves, <<s[2] * 2^s[1], (s[2] + 1) * 2^s[1]>>)
    <2> HIDE DEF complete
    <2> QED BY <1>2 DEF TreeInv, Stored, SubtreeRange, n
  <1> QED BY <1>3, <1>4 DEF StoredSubtrees, n

\* append_leaf_in_tx keeps exactly the hashes of the complete subtrees, each under
\* the index at which tlog looks for it, and every carry finds the left siblings
\* it needs, for a log of any length.
THEOREM StoredTreeIsComplete == Spec => []StoredSubtrees
  <1>1. Init => AuditInv /\ TreeInv
    BY AuditInit, TreeInit
  <1>2. AuditInv /\ TreeInv /\ [Next]_vars => (AuditInv /\ TreeInv)'
    BY AuditStep, TreeNext
  <1>3. AuditInv /\ TreeInv => StoredSubtrees
    BY TreeIsStored
  <1> QED BY <1>1, <1>2, <1>3, PTL DEF Spec

-----------------------------------------------------------------------------
\* Checkpoints.

\* The table as the lemmas about the tree need it.
LEMMA TreeHolds ==
    ASSUME AuditInv, TreeInv
    PROVE  /\ Len(Leaves) = Len(events) /\ Len(events) \in Nat
           /\ HoldsTree(hashes, Leaves)
           /\ DOMAIN hashes = 0..(Stored(Len(events)) - 1)
  <1>1. Leaves = LeavesOf(events)
    BY DEF Leaves, LeavesOf
  <1>2. Len(Leaves) = Len(events) /\ Len(events) \in Nat
    BY <1>1, LeavesFacts DEF AuditInv
  <1> QED BY <1>2 DEF TreeInv, HoldsTree

\* Appending keeps the hash of every range of the log.
LEMMA AppendKeepsHashes ==
    ASSUME AuditInv, NEW a \in Writers, AppendEvent(a),
           NEW r \in Ranges(Len(events)), r[1] < r[2]
    PROVE  RangeHash(Leaves, r) = RangeHash(Leaves', r)
  <1>1. events' = Append(events, a)
    BY DEF AppendEvent
  <1>2. Leaves = LeavesOf(events) /\ Leaves' = LeavesOf(Append(events, a))
    BY <1>1 DEF Leaves, LeavesOf
  <1>3. /\ Len(events) \in Nat /\ Len(Leaves) = Len(events) /\ Len(Leaves') = Len(events) + 1
        /\ \A i \in 1..Len(events) : Leaves[i] = Leaves'[i]
    BY <1>2, LeavesAppend DEF AuditInv
  <1> QED BY <1>3, RangeHashPrefix

\* Every checkpoint is the hash of its prefix of the log.
RootsInv == \A n \in DOMAIN checkpoints : checkpoints[n] = RangeHash(Leaves, <<0, n>>)

\* append_in_tx: the prefixes stay what they are.
LEMMA AppendKeepsRoots ==
    ASSUME AuditInv, RootsInv, NEW a \in Writers, AppendEvent(a)
    PROVE  RootsInv'
  <1>1. checkpoints' = checkpoints
    BY DEF AppendEvent
  <1>2. ASSUME NEW n \in DOMAIN checkpoints PROVE checkpoints[n] = RangeHash(Leaves', <<0, n>>)
    <2>1. n \in 1..Len(events) /\ Len(events) \in Nat
      BY DEF AuditInv, CheckpointsOK
    <2>2. <<0, n>> \in Ranges(Len(events)) /\ <<0, n>>[1] < <<0, n>>[2]
      BY <2>1 DEF Ranges
    <2>3. RangeHash(Leaves, <<0, n>>) = RangeHash(Leaves', <<0, n>>)
      BY <2>2, AppendKeepsHashes
    <2> QED BY <2>3 DEF RootsInv
  <1> QED BY <1>1, <1>2 DEF RootsInv

\* make_checkpoint: the hash is that of the prefix that was counted, whatever has
\* been appended since.
LEMMA MakeKeepsRoots ==
    ASSUME AuditInv, TreeInv, RootsInv, NEW r \in Readers, MakeCheckpoint(r)
    PROVE  RootsInv'
  <1> DEFINE count == reader[r].count
             root == SubTreeHash(hashes, <<0, count>>)
             rows == [n \in {count} |-> root]
  <1>1. /\ reader[r].pc = "make" /\ UNCHANGED <<events, hashes>>
        /\ checkpoints' = Overwrite(checkpoints, rows)
    BY DEF MakeCheckpoint, CheckpointTree, WholeTree
  <1>2. count \in Nat /\ count > 0 /\ count <= Len(events)
    BY <1>1 DEF AuditInv, ReaderOK, ReaderRow
  <1>3. root = RangeHash(Leaves, <<0, count>>)
    <2>1. Aligned(0, count)
      BY <1>2, WholeAligned
    <2> HIDE DEF count
    <2> QED BY <1>2, <2>1, TreeHolds, SubTreeIsRange
  <1>4. Leaves' = Leaves
    BY <1>1 DEF Leaves
  <1> HIDE DEF root, count
  <1>5. checkpoints' = [n \in DOMAIN checkpoints \cup {count} |->
                          IF n \in {count} THEN root ELSE checkpoints[n]]
    BY <1>1 DEF Overwrite
  <1> QED BY <1>3, <1>4, <1>5 DEF RootsInv

\* One step of the specification.
LEMMA RootsNext == AuditInv /\ TreeInv /\ RootsInv /\ [Next]_vars => RootsInv'
  <1> SUFFICES ASSUME AuditInv, TreeInv, RootsInv, [Next]_vars PROVE RootsInv'
    OBVIOUS
  <1>1. ASSUME NEW a \in Writers, AppendEvent(a) PROVE RootsInv'
    BY <1>1, AppendKeepsRoots
  <1>2. CASE UNCHANGED tables
    BY <1>2 DEF RootsInv, Leaves, tables
  <1>3. ASSUME NEW r \in Readers, Query(r) PROVE UNCHANGED tables \/ MakeCheckpoint(r)
    BY <1>3 DEF Query, Ask, Count, Ensure, ReadLatest, Prove, ReadPage, Finish
  <1>4. ASSUME NEW r \in Readers, MakeCheckpoint(r) PROVE RootsInv'
    BY <1>4, MakeKeepsRoots
  <1>5. CASE UNCHANGED vars
    BY <1>2, <1>5 DEF vars, tables
  <1> QED BY <1>1, <1>2, <1>3, <1>4, <1>5 DEF Next

\* No checkpoint.
LEMMA RootsInit == Init => RootsInv
BY DEF Init, RootsInv

\* A persisted checkpoint is the RFC 6962 root of that prefix of the log, and stays
\* so, whatever other requests append and checkpoint between the count and
\* make_checkpoint, for a log of any length.
THEOREM CheckpointsStayRoots == Spec => []CheckpointsAreRoots
  <1>1. Init => AuditInv /\ TreeInv /\ RootsInv
    BY AuditInit, TreeInit, RootsInit
  <1>2. AuditInv /\ TreeInv /\ RootsInv /\ [Next]_vars => (AuditInv /\ TreeInv /\ RootsInv)'
    BY AuditStep, TreeNext, RootsNext
  <1>3. AuditInv /\ TreeInv /\ RootsInv => CheckpointsAreRoots
    BY DEF AuditInv, CheckpointsOK, RootsInv, CheckpointsAreRoots, WholeTree
  <1> QED BY <1>1, <1>2, <1>3, PTL DEF Spec

-----------------------------------------------------------------------------
\* Proofs.

\* What a request for a proof knows at each of its steps.
ProofOK(row, leaves) ==
    /\ row.pc # "idle" => row.query \in Queries
    /\ row.pc \in {"count", "ensure", "make", "latest"} =>
          row.query.kind \in {"audit_checkpoint", "audit_inclusion_proof"}
    /\ row.pc = "prove" =>
          /\ row.query.kind \in {"audit_inclusion_proof", "audit_consistency_proof"}
          /\ row.size \in Nat
    /\ row.pc = "answered" /\ row.query.kind = "audit_inclusion_proof" =>
          /\ row.size \in Nat /\ row.query.index < row.size
          /\ Proves(row.answer, RecordPath(row.size, row.query.index), leaves)
    /\ row.pc = "answered" /\ row.query.kind = "audit_consistency_proof" =>
          /\ row.size \in Nat /\ 1 <= row.query.old /\ row.query.old <= row.size
          /\ Proves(row.answer, TreePath(row.size, row.query.old), leaves)

\* All of them.
ProofInv == \A r \in Readers : ProofOK(reader[r], Leaves)

\* The fields of a request, by its kind.
LEMMA QueryFields ==
    ASSUME NEW q \in Queries
    PROVE  /\ q.kind = "audit_inclusion_proof" => q.index \in Nat /\ q.size \in Nat \cup {None}
           /\ q.kind = "audit_consistency_proof" => q.old \in Nat /\ q.size \in Nat
           /\ q.kind \in {"audit_checkpoint", "audit_inclusion_proof", "audit_consistency_proof", "events"}
  <1>1. QueryOK(q)
    BY QueriesAssumption
  <1> QED BY <1>1 DEF QueryOK

\* A path in the tree of a size leads through parts of that tree.
LEMMA PathsParts ==
    ASSUME NEW size \in Nat, NEW k, size > 0
    PROVE  RecordPath(size, k) \in Seq(Parts(size)) /\ TreePath(size, k) \in Seq(Parts(size))
  <1>1. WholeTree(size) \in Parts(size)
    BY WholePart
  <1>2. RecordPath(size, k) = RecordPaths(size, k)[WholeTree(size)]
    BY RecordUnfold
  <1>3. TreePath(size, k) = TreePaths(size, k)[WholeTree(size)]
    BY OldUnfold
  <1>4. RecordPaths(size, k)[WholeTree(size)] \in Seq(Parts(size))
    BY <1>1, RecordPathParts
  <1>5. TreePaths(size, k)[WholeTree(size)] \in Seq(Parts(size))
    BY <1>1, TreePathParts
  <1> QED BY <1>2, <1>3, <1>4, <1>5

\* What is proved of a log is proved of a longer one.
LEMMA ProvesGrows ==
    ASSUME NEW answer, NEW path, NEW leaves, NEW more, Len(leaves) \in Nat, Len(more) \in Nat,
           Len(leaves) <= Len(more), \A i \in 1..Len(leaves) : leaves[i] = more[i],
           Proves(answer, path, leaves)
    PROVE  Proves(answer, path, more)
  <1> SUFFICES ASSUME NEW i \in 1..Len(path)
               PROVE  path[i] \in Parts(Len(more)) /\ answer[i] = RangeHash(more, path[i])
    BY DEF Proves
  <1>1. path[i] \in Parts(Len(leaves)) /\ answer[i] = RangeHash(leaves, path[i])
    BY DEF Proves
  <1> DEFINE p == path[i]
  <1>2. p \in Parts(Len(leaves))
    BY <1>1
  <1> HIDE DEF p
  <1>3. /\ p \in Ranges(Len(leaves)) /\ p = <<p[1], p[2]>> /\ p[1] \in Nat /\ p[2] \in Nat
        /\ p[1] < p[2] /\ p[2] <= Len(leaves) /\ Aligned(p[1], p[2])
    BY <1>2, PartFacts
  <1>4. p \in Ranges(Len(more))
    <2>1. p[1] \in 0..Len(more) /\ p[2] \in 0..Len(more)
      BY <1>3
    <2> QED BY <1>3, <2>1 DEF Ranges
  <1>5. RangeHash(leaves, p) = RangeHash(more, p)
    BY <1>3, RangeHashPrefix
  <1>6. p \in Parts(Len(more))
    BY <1>3, <1>4 DEF Parts
  <1> QED BY <1>1, <1>5, <1>6 DEF p

\* A request keeps what it knows while others append.
LEMMA ProofGrows ==
    ASSUME NEW row, NEW leaves, NEW more, Len(leaves) \in Nat, Len(more) \in Nat,
           Len(leaves) <= Len(more), \A i \in 1..Len(leaves) : leaves[i] = more[i],
           ProofOK(row, leaves)
    PROVE  ProofOK(row, more)
  <1>1. \A answer, path : Proves(answer, path, leaves) => Proves(answer, path, more)
    BY ProvesGrows
  <1> QED BY <1>1 DEF ProofOK

\* What read_hashes returns for the ranges of a path, if all are there.
LEMMA HashesProve ==
    ASSUME AuditInv, TreeInv, NEW size \in Nat, NEW path \in Seq(Parts(size)),
           \A i \in DOMAIN path : Readable(hashes, path[i])
    PROVE  Proves(SubTreeHashes(hashes, path), path, Leaves)
  <1> DEFINE n == Len(path)
             answer == SubTreeHashes(hashes, path)
             S == {SubTreeHash(hashes, path[i]) : i \in 1..n}
  <1>1. n \in Nat /\ DOMAIN path = 1..n /\ \A i \in 1..n : path[i] \in Parts(size)
    OBVIOUS
  <1>2. /\ Len(Leaves) = Len(events) /\ Len(events) \in Nat
        /\ HoldsTree(hashes, Leaves) /\ DOMAIN hashes = 0..(Stored(Len(events)) - 1)
    BY TreeHolds
  <1>3. answer = [i \in 1..n |-> SubTreeHash(hashes, path[i])]
    BY <1>1 DEF SubTreeHashes
  <1> HIDE DEF n
  <1>4. Len(answer) = n
    <2>1. answer \in [1..n -> S]
      BY <1>3
    <2> HIDE DEF answer, S
    <2>2. answer \in Seq(S) /\ DOMAIN answer = 1..n
      BY <1>1, <2>1
    <2> QED BY <1>1, <2>2
  <1>5. ASSUME NEW i \in 1..n
        PROVE  path[i] \in Parts(Len(Leaves)) /\ answer[i] = RangeHash(Leaves, path[i])
    <2> DEFINE p == path[i]
    <2>1. p \in Parts(size) /\ Readable(hashes, p) /\ answer[i] = SubTreeHash(hashes, p)
      BY <1>1, <1>3
    <2> HIDE DEF p, answer
    <2>2. /\ p = <<p[1], p[2]>> /\ p[1] \in Nat /\ p[2] \in Nat
          /\ p[1] < p[2] /\ Aligned(p[1], p[2])
      BY <2>1, PartFacts
    <2>3. Subtrees(<<p[1], p[2]>>) \subseteq 0..(Stored(Len(events)) - 1)
      BY <1>2, <2>1, <2>2 DEF Readable
    <2>4. p[2] <= Len(events)
      BY <1>2, <2>2, <2>3, ReadableInTree
    <2>5. SubTreeHash(hashes, <<p[1], p[2]>>) = RangeHash(Leaves, <<p[1], p[2]>>)
      BY <1>2, <2>2, <2>4, SubTreeIsRange
    <2>6. p \in Ranges(Len(Leaves))
      <3>1. p[1] \in 0..Len(Leaves) /\ p[2] \in 0..Len(Leaves)
        BY <1>2, <2>2, <2>4
      <3> QED BY <2>2, <3>1 DEF Ranges
    <2>7. p \in Parts(Len(Leaves))
      BY <2>2, <2>6 DEF Parts
    <2>8. answer[i] = RangeHash(Leaves, p)
      BY <2>1, <2>2, <2>5
    <2> QED BY <2>7, <2>8 DEF p
  <1> HIDE DEF answer
  <1> QED BY <1>4, <1>5 DEF Proves, answer, n

\* A step of one call that appends nothing.
LEMMA ProofStep ==
    ASSUME AuditInv, ProofInv, NEW r \in Readers, NEW row, ProofOK(row, Leaves), Step(r, row),
           UNCHANGED events
    PROVE  ProofInv'
  <1>1. Leaves' = Leaves
    BY DEF Leaves
  <1>2. \A q \in Readers : reader'[q] = IF q = r THEN row ELSE reader[q]
    BY DEF Step, AuditInv
  <1>3. \A q \in Readers : ProofOK(reader'[q], Leaves)
    BY <1>2 DEF ProofInv
  <1> QED BY <1>1, <1>3 DEF ProofInv

\* append_in_tx: the answers on their way stay proofs.
LEMMA AppendKeepsProofs ==
    ASSUME AuditInv, ProofInv, NEW a \in Writers, AppendEvent(a)
    PROVE  ProofInv'
  <1>1. events' = Append(events, a) /\ reader' = reader
    BY DEF AppendEvent
  <1>2. Leaves = LeavesOf(events) /\ Leaves' = LeavesOf(Append(events, a))
    BY <1>1 DEF Leaves, LeavesOf
  <1>3. /\ Len(events) \in Nat /\ Len(Leaves) = Len(events) /\ Len(Leaves') = Len(events) + 1
        /\ \A i \in 1..Len(events) : Leaves[i] = Leaves'[i]
    BY <1>2, LeavesAppend DEF AuditInv
  <1>4. ASSUME NEW r \in Readers PROVE ProofOK(reader[r], Leaves')
    <2>1. ProofOK(reader[r], Leaves)
      BY DEF ProofInv
    <2>2. Len(Leaves) \in Nat /\ Len(Leaves') \in Nat /\ Len(Leaves) <= Len(Leaves')
      BY <1>3
    <2>3. \A i \in 1..Len(Leaves) : Leaves[i] = Leaves'[i]
      BY <1>3
    <2> QED BY <2>1, <2>2, <2>3, ProofGrows
  <1> QED BY <1>1, <1>4 DEF ProofInv

\* inclusion_proof and consistency_proof.
LEMMA ProveKeepsProofs ==
    ASSUME AuditInv, TreeInv, ProofInv, NEW r \in Readers, Prove(r)
    PROVE  ProofInv'
  <1> DEFINE q == reader[r].query
             size == reader[r].size
             inclusion == q.kind = "audit_inclusion_proof"
             path == IF inclusion THEN RecordPath(size, q.index) ELSE TreePath(size, q.old)
             answer == SubTreeHashes(hashes, path)
             row == [reader[r] EXCEPT !.pc = "answered", !.answer = answer]
  <1>1. /\ reader[r].pc = "prove"
        /\ IF inclusion THEN q.index < size ELSE 1 <= q.old /\ q.old <= size
        /\ \A i \in DOMAIN path : Readable(hashes, path[i])
        /\ Step(r, row) /\ UNCHANGED events
    BY DEF Prove, ProofTree, tables
  <1>2. /\ q \in Queries /\ size \in Nat
        /\ q.kind \in {"audit_inclusion_proof", "audit_consistency_proof"}
    BY <1>1 DEF ProofInv, ProofOK
  <1>3. /\ row.pc = "answered" /\ row.query = q /\ row.size = size /\ row.answer = answer
    BY DEF AuditInv, ReaderOK, ReaderRow
  <1>4. /\ inclusion => q.index \in Nat
        /\ ~inclusion => q.old \in Nat
    BY <1>2, QueryFields
  <1>5. size > 0
    BY <1>1, <1>2, <1>4
  <1>6. path \in Seq(Parts(size))
    BY <1>2, <1>5, PathsParts
  <1>7. Proves(answer, path, Leaves)
    <2> HIDE DEF path, size
    <2> QED BY <1>1, <1>2, <1>6, HashesProve
  <1>8. ProofOK(row, Leaves)
    <2>1. CASE inclusion
      <3>1. Proves(answer, RecordPath(size, q.index), Leaves)
        BY <1>7, <2>1
      <3> HIDE DEF row, answer, size, q
      <3> QED BY <1>1, <1>2, <1>3, <2>1, <3>1 DEF ProofOK
    <2>2. CASE ~inclusion
      <3>1. Proves(answer, TreePath(size, q.old), Leaves)
        BY <1>7, <2>2
      <3> HIDE DEF row, answer, size, q
      <3> QED BY <1>1, <1>2, <1>3, <2>2, <3>1 DEF ProofOK
    <2> QED BY <2>1, <2>2
  <1> HIDE DEF row
  <1> QED BY <1>1, <1>8, ProofStep

\* One step of the specification.
LEMMA ProofNext == AuditInv /\ TreeInv /\ ProofInv /\ [Next]_vars => ProofInv'
  <1> SUFFICES ASSUME AuditInv, TreeInv, ProofInv, [Next]_vars PROVE ProofInv'
    OBVIOUS
  <1>1. CASE UNCHANGED vars
    BY <1>1 DEF vars, ProofInv, Leaves
  <1>2. ASSUME NEW a \in Writers, AppendEvent(a) PROVE ProofInv'
    BY <1>2, AppendKeepsProofs
  <1>3. ASSUME NEW r \in Readers, Query(r) PROVE ProofInv'
    <2>1. ReaderOK(reader[r]) /\ ProofOK(reader[r], Leaves)
      BY DEF AuditInv, ProofInv
    <2>2. CASE Ask(r)
      <3>1. PICK q \in Queries :
              Step(r, [Idle EXCEPT !.pc = FirstStep(q), !.query = q,
                                   !.size = IF FirstStep(q) = "prove" THEN q.size ELSE 0])
        BY <2>2 DEF Ask
      <3> DEFINE row == [Idle EXCEPT !.pc = FirstStep(q), !.query = q,
                                     !.size = IF FirstStep(q) = "prove" THEN q.size ELSE 0]
      <3>2. /\ row.pc = FirstStep(q) /\ row.query = q
            /\ FirstStep(q) = "prove" => row.size = q.size
        BY DEF Idle
      <3>3. /\ FirstStep(q) \in {"page", "count", "prove"}
            /\ FirstStep(q) = "count" => q.kind \in {"audit_checkpoint", "audit_inclusion_proof"}
            /\ FirstStep(q) = "prove" => /\ q.kind \notin {"events", "audit_checkpoint"}
                                         /\ q.kind = "audit_inclusion_proof" => q.size # None
        BY DEF FirstStep
      <3>4. FirstStep(q) = "prove" =>
              /\ q.kind \in {"audit_inclusion_proof", "audit_consistency_proof"}
              /\ q.size \in Nat
        BY <3>3, QueryFields
      <3> HIDE DEF row
      <3>5. ProofOK(row, Leaves)
        BY <3>2, <3>3, <3>4 DEF ProofOK
      <3>6. UNCHANGED events
        BY <2>2 DEF Ask, tables
      <3> QED BY <3>1, <3>5, <3>6, ProofStep DEF row
    <2>3. CASE Count(r)
      <3> DEFINE row == [reader[r] EXCEPT !.pc = "ensure", !.count = Len(events)]
      <3>1. Step(r, row) /\ reader[r].pc = "count" /\ UNCHANGED events
        BY <2>3 DEF Count, tables
      <3>2. row.pc = "ensure" /\ row.query = reader[r].query
        BY <2>1 DEF ReaderOK, ReaderRow
      <3> HIDE DEF row
      <3>3. ProofOK(row, Leaves)
        BY <2>1, <3>1, <3>2 DEF ProofOK
      <3> QED BY <3>1, <3>3, ProofStep
    <2>4. CASE Ensure(r)
      <3> DEFINE pc == IF UpToDate(reader[r].count) THEN "latest" ELSE "make"
                 row == [reader[r] EXCEPT !.pc = pc]
      <3>1. Step(r, row) /\ reader[r].pc = "ensure" /\ UNCHANGED events
        BY <2>4 DEF Ensure, tables
      <3>2. pc \in {"latest", "make"}
        OBVIOUS
      <3> HIDE DEF pc
      <3>3. row.pc = pc /\ row.query = reader[r].query
        BY <2>1 DEF ReaderOK, ReaderRow
      <3> HIDE DEF row
      <3>4. ProofOK(row, Leaves)
        BY <2>1, <3>1, <3>2, <3>3 DEF ProofOK
      <3> QED BY <3>1, <3>4, ProofStep
    <2>5. CASE MakeCheckpoint(r)
      <3> DEFINE row == [reader[r] EXCEPT !.pc = "latest"]
      <3>1. Step(r, row) /\ reader[r].pc = "make" /\ UNCHANGED events
        BY <2>5 DEF MakeCheckpoint
      <3>2. row.pc = "latest" /\ row.query = reader[r].query
        BY <2>1 DEF ReaderOK, ReaderRow
      <3> HIDE DEF row
      <3>3. ProofOK(row, Leaves)
        BY <2>1, <3>1, <3>2 DEF ProofOK
      <3> QED BY <3>1, <3>3, ProofStep
    <2>6. CASE ReadLatest(r)
      <3> DEFINE answer == [reader[r] EXCEPT !.pc = "answered", !.size = TreeSize,
                                             !.answer = <<checkpoints[TreeSize]>>]
                 prove == [reader[r] EXCEPT !.pc = "prove", !.size = TreeSize]
      <3>1. /\ reader[r].pc = "latest" /\ UNCHANGED events
            /\ \/ reader[r].query.kind = "audit_checkpoint" /\ Step(r, answer)
               \/ reader[r].query.kind # "audit_checkpoint" /\ Step(r, prove)
        BY <2>6 DEF ReadLatest, tables
      <3>2. TreeSize \in Nat
        BY TreeSizeIsLargest
      <3>3. /\ answer.pc = "answered" /\ answer.query = reader[r].query
            /\ prove.pc = "prove" /\ prove.query = reader[r].query /\ prove.size = TreeSize
        BY <2>1 DEF ReaderOK, ReaderRow
      <3> HIDE DEF answer, prove
      <3>4. CASE reader[r].query.kind = "audit_checkpoint"
        <4>1. ProofOK(answer, Leaves)
          BY <2>1, <3>1, <3>3, <3>4 DEF ProofOK
        <4> QED BY <3>1, <3>4, <4>1, ProofStep
      <3>5. CASE reader[r].query.kind # "audit_checkpoint"
        <4>1. ProofOK(prove, Leaves)
          BY <2>1, <3>1, <3>2, <3>3, <3>5 DEF ProofOK
        <4> QED BY <3>1, <3>5, <4>1, ProofStep
      <3> QED BY <3>4, <3>5
    <2>7. CASE Prove(r)
      BY <2>7, ProveKeepsProofs
    <2>8. CASE ReadPage(r)
      <3>1. reader[r].pc = "page" /\ reader[r].query.kind = "events" /\ UNCHANGED events
        BY <2>1, <2>8 DEF ReadPage, tables, ReaderOK
      <3>2. PICK row : Step(r, row) /\ row.query = reader[r].query /\ row.pc \in {"page", "answered"}
        <4> DEFINE page == Page(reader[r].query, reader[r].before)
                   count == IF reader[r].before = None THEN Len(events) ELSE reader[r].count
                   next == [reader[r] EXCEPT !.seen = @ \o page, !.count = count]
        <4>1. \/ Step(r, [next EXCEPT !.before = NextCursor(page)])
              \/ Step(r, [next EXCEPT !.pc = "answered"])
          BY <2>8 DEF ReadPage
        <4> HIDE DEF page, count
        <4>2. /\ [next EXCEPT !.before = NextCursor(page)].query = reader[r].query
              /\ [next EXCEPT !.before = NextCursor(page)].pc = "page"
              /\ [next EXCEPT !.pc = "answered"].query = reader[r].query
              /\ [next EXCEPT !.pc = "answered"].pc = "answered"
          BY <2>1, <3>1 DEF ReaderOK, ReaderRow
        <4> HIDE DEF next
        <4> QED BY <4>1, <4>2
      <3>3. ProofOK(row, Leaves)
        BY <2>1, <3>1, <3>2 DEF ProofOK
      <3> QED BY <3>1, <3>2, <3>3, ProofStep
    <2>9. CASE Finish(r)
      <3>1. ProofOK(Idle, Leaves) /\ Step(r, Idle) /\ UNCHANGED events
        BY <2>9 DEF ProofOK, Idle, Finish, tables
      <3> QED BY <3>1, ProofStep
    <2> QED BY <1>3, <2>2, <2>3, <2>4, <2>5, <2>6, <2>7, <2>8, <2>9 DEF Query
  <1> QED BY <1>1, <1>2, <1>3 DEF Next

\* No request.
LEMMA ProofInit == Init => ProofInv
BY DEF Init, ProofInv, ProofOK, Idle

\* Verifying such an answer leads to the root.
LEMMA ProofsLead ==
    ASSUME AuditInv, TreeInv, ProofInv
    PROVE  ProofsVerify
  <1> SUFFICES ASSUME NEW r \in Readers
               PROVE  LET q == reader[r].query
                          size == reader[r].size
                          proof == reader[r].answer
                          root(n) == RangeHash(Leaves, WholeTree(n))
                      IN
                      /\ Answered(r, "audit_inclusion_proof") /\ size <= Len(events) =>
                            /\ Len(proof) = Len(RecordPath(size, q.index))
                            /\ RecordRoot(proof, size, q.index, Leaves[q.index + 1]) = root(size)
                      /\ Answered(r, "audit_consistency_proof") /\ size <= Len(events) =>
                            /\ Len(proof) = Len(TreePath(size, q.old))
                            /\ TreeRoots(proof, size, q.old, root(q.old)) = <<root(q.old), root(size)>>
    BY DEF ProofsVerify
  <1> DEFINE q == reader[r].query
             size == reader[r].size
             proof == reader[r].answer
             root(n) == RangeHash(Leaves, WholeTree(n))
  <1>1. ProofOK(reader[r], Leaves)
    BY DEF ProofInv
  <1>2. Len(Leaves) = Len(events) /\ Len(events) \in Nat
    BY TreeHolds
  <1>3. ASSUME Answered(r, "audit_inclusion_proof"), size <= Len(events)
        PROVE  /\ Len(proof) = Len(RecordPath(size, q.index))
               /\ RecordRoot(proof, size, q.index, Leaves[q.index + 1]) = root(size)
    <2>1. /\ q \in Queries /\ q.kind = "audit_inclusion_proof" /\ size \in Nat /\ q.index < size
          /\ Proves(proof, RecordPath(size, q.index), Leaves)
      BY <1>1, <1>3 DEF Answered, ProofOK
    <2>2. q.index \in Nat /\ size <= Len(Leaves) /\ Len(Leaves) \in Nat
      BY <1>2, <1>3, <2>1, QueryFields
    <2> HIDE DEF q, size, proof
    <2> QED BY <2>1, <2>2, InclusionVerifies
  <1>4. ASSUME Answered(r, "audit_consistency_proof"), size <= Len(events)
        PROVE  /\ Len(proof) = Len(TreePath(size, q.old))
               /\ TreeRoots(proof, size, q.old, root(q.old)) = <<root(q.old), root(size)>>
    <2>1. /\ q \in Queries /\ q.kind = "audit_consistency_proof" /\ size \in Nat
          /\ 1 <= q.old /\ q.old <= size
          /\ Proves(proof, TreePath(size, q.old), Leaves)
      BY <1>1, <1>4 DEF Answered, ProofOK
    <2>2. q.old \in Nat /\ size <= Len(Leaves) /\ Len(Leaves) \in Nat
      BY <1>2, <1>4, <2>1, QueryFields
    <2> HIDE DEF q, size, proof
    <2> QED BY <2>1, <2>2, ConsistencyVerifies
  <1> QED BY <1>3, <1>4

\* A proof that inclusion_proof or consistency_proof hands out leads from the leaf,
\* or from the old root, to the RFC 6962 root of the tree of the size it names, if
\* that tree exists, for every size, index and old size, while others append.
THEOREM ProofsAlwaysVerify == Spec => []ProofsVerify
  <1>1. Init => AuditInv /\ TreeInv /\ ProofInv
    BY AuditInit, TreeInit, ProofInit
  <1>2. AuditInv /\ TreeInv /\ ProofInv /\ [Next]_vars => (AuditInv /\ TreeInv /\ ProofInv)'
    BY AuditStep, TreeNext, ProofNext
  <1>3. AuditInv /\ TreeInv /\ ProofInv => ProofsVerify
    BY ProofsLead
  <1> QED BY <1>1, <1>2, <1>3, PTL DEF Spec
=============================================================================
