---------------------------- MODULE StoreProofs -----------------------------
(***************************************************************************)
(* Committed transactions are serial, for any number of calls and any size *)
(* of the pool.                                                            *)
(***************************************************************************)
EXTENDS Store, TLAPS

Writing == {"writing", "descend", "cascade"}

\* Exactly the writer is past its first write.
OneWriter == \A c \in Calls : call[c].pc \in Writing <=> writer = c

\* The snapshot of the writer is the database: nobody commits before it does.
WriterCurrent == \A c \in Calls : writer = c => call[c].snapshot = Version

\* So is what a freeze has listed; nobody else has listed anything.
ListCurrent ==
    \A c \in Calls :
        call[c].listed = IF call[c].pc = "cascade" THEN Version ELSE None

StoreInv ==
    /\ StoreTypeOK
    /\ OneWriter
    /\ WriterCurrent
    /\ ListCurrent
    /\ TransactionsSerial

\* Before the first call nobody writes and nothing is committed.
LEMMA StoreInit == Init => StoreInv
  BY StoreNoneAssumption, ConnsAssumption
  DEF Init, StoreInv, StoreTypeOK, OneWriter, WriterCurrent, ListCurrent, TransactionsSerial,
      NewCall, CallRow, Writing, Kinds

\* A call that ends in an error gives the write lock back and commits nothing.
LEMMA FailKeeps ==
    ASSUME StoreInv, NEW c \in Calls, Fail(c)
    PROVE  StoreInv'
  <1> USE DEF StoreInv, StoreTypeOK, CallRow, Kinds
  <1>1. call' = [call EXCEPT ![c] = [NewCall EXCEPT !.pc = "failed"]] /\ commits' = commits
    BY DEF Fail, End, Step
  <1>2. /\ writer' \in Calls \cup {None}
        /\ \A d \in Calls : writer' = d <=> writer = d /\ d # c
    BY StoreNoneAssumption DEF Fail
  <1>3. \A d \in Calls : d # c => call'[d] = call[d]
    BY <1>1
  <1>4. call'[c] = [pc |-> "failed", kind |-> None, snapshot |-> None, listed |-> None]
    BY <1>1 DEF NewCall
  <1>5. StoreTypeOK'
    <2>1. free' \in Nat
      BY DEF Fail
    <2>2. call' \in [Calls -> CallRow]
      BY <1>1 DEF NewCall
    <2> QED BY <1>1, <1>2, <2>1, <2>2
  <1>6. OneWriter'
    BY <1>2, <1>3, <1>4 DEF OneWriter, Writing
  <1>7. WriterCurrent'
    BY <1>1, <1>2, <1>3 DEF WriterCurrent, Version
  <1>8. ListCurrent'
    BY <1>1, <1>3, <1>4 DEF ListCurrent, Version
  <1>9. TransactionsSerial'
    BY <1>1 DEF TransactionsSerial
  <1> QED BY <1>5, <1>6, <1>7, <1>8, <1>9

\* A step that leaves lock and commits alone and moves one call, that was not
\* writing and does not write afterwards.
LEMMA QuietStep ==
    ASSUME StoreInv, NEW c \in Calls, NEW row \in CallRow, Step(c, row),
           free' \in Nat, UNCHANGED <<writer, commits>>,
           call[c].pc \notin Writing, row.pc \notin Writing, row.listed = None
    PROVE  StoreInv'
  <1> USE DEF StoreInv, StoreTypeOK
  <1>1. call' \in [Calls -> CallRow] /\ call'[c] = row
    BY DEF Step
  <1>2. \A d \in Calls : d # c => call'[d] = call[d]
    BY DEF Step
  <1>3. OneWriter'
    BY <1>1, <1>2 DEF OneWriter
  <1>4. WriterCurrent'
    BY <1>2 DEF WriterCurrent, OneWriter, Version
  <1>5. ListCurrent'
    BY <1>1, <1>2 DEF ListCurrent, Version, Writing
  <1>6. TransactionsSerial'
    BY DEF TransactionsSerial
  <1> QED BY <1>1, <1>3, <1>4, <1>5, <1>6

\* A step of one call that becomes, or stays, the writer.
LEMMA WriterStep ==
    ASSUME StoreInv, NEW c \in Calls, NEW row \in CallRow, Step(c, row),
           writer \in {None, c}, writer' = c, UNCHANGED <<free, commits>>,
           row.pc \in Writing, row.snapshot = Version,
           row.listed = IF row.pc = "cascade" THEN Version ELSE None
    PROVE  StoreInv'
  <1> USE DEF StoreInv, StoreTypeOK
  <1>1. call' \in [Calls -> CallRow] /\ call'[c] = row
    BY DEF Step
  <1>2. \A d \in Calls : d # c => call'[d] = call[d]
    BY DEF Step
  <1>3. OneWriter'
    BY <1>1, <1>2, StoreNoneAssumption DEF OneWriter
  <1>4. WriterCurrent'
    BY <1>1 DEF WriterCurrent, Version
  <1>5. ListCurrent'
    BY <1>1, <1>2 DEF ListCurrent, Version
  <1>6. TransactionsSerial'
    BY DEF TransactionsSerial
  <1> QED BY <1>1, <1>3, <1>4, <1>5, <1>6

\* The commit of the writer is computed from all commits before it.
LEMMA CommitKeeps ==
    ASSUME StoreInv, NEW c \in Calls, Commit(c)
    PROVE  StoreInv'
  <1> USE DEF StoreInv, StoreTypeOK
  <1> DEFINE row == [basis |-> call[c].snapshot, listed |-> call[c].listed]
  <1>1. writer = c
    BY DEF Commit, OneWriter, Writing
  <1>2. Version \in Nat /\ call[c].snapshot = Version /\ call[c].listed \in {None, Version}
    BY <1>1 DEF WriterCurrent, ListCurrent, Version
  <1>3. commits' = Append(commits, row) /\ row \in [basis : Nat, listed : Nat \cup {None}]
    BY <1>2 DEF Commit
  <1>4. call' = [call EXCEPT ![c] = [NewCall EXCEPT !.pc = "done"]] /\ writer' = None
    BY DEF Commit, End, Step
  <1>5. \A d \in Calls : d # c => call'[d] = call[d]
    BY <1>4
  <1>6. call'[c] = [pc |-> "done", kind |-> None, snapshot |-> None, listed |-> None]
    BY <1>4 DEF NewCall
  <1>7. StoreTypeOK'
    <2>1. free' \in Nat
      BY DEF Commit
    <2>2. call' \in [Calls -> CallRow]
      BY <1>4 DEF NewCall, CallRow, Kinds
    <2> QED BY <1>3, <1>4, <2>1, <2>2
  <1>8. OneWriter'
    BY <1>1, <1>4, <1>5, <1>6, StoreNoneAssumption DEF OneWriter, Writing
  <1>9. WriterCurrent'
    BY <1>4, StoreNoneAssumption DEF WriterCurrent
  <1>10. ListCurrent'
    BY <1>1, <1>5, <1>6 DEF ListCurrent, OneWriter, Writing
  <1>11. TransactionsSerial'
    <2>1. /\ DOMAIN commits' = 1..(Version + 1)
          /\ \A i \in 1..Version : commits'[i] = commits[i]
          /\ commits'[Version + 1] = row
      BY <1>3 DEF Version
    <2>2. DOMAIN commits = 1..Version
      BY DEF Version
    <2>3. ASSUME NEW i \in 1..(Version + 1)
          PROVE  commits'[i].basis = i - 1 /\ commits'[i].listed \in {None, i - 1}
      <3>1. CASE i \in 1..Version
        BY <2>1, <2>2, <3>1 DEF TransactionsSerial
      <3>2. CASE i = Version + 1
        BY <1>2, <2>1, <3>2
      <3> QED BY <1>2, <3>1, <3>2
    <2> QED BY <2>1, <2>3 DEF TransactionsSerial
  <1> QED BY <1>7, <1>8, <1>9, <1>10, <1>11

\* One step of any call.
LEMMA StoreStep == StoreInv /\ [Next]_vars => StoreInv'
  <1> SUFFICES ASSUME StoreInv, [Next]_vars PROVE StoreInv'
    OBVIOUS
  <1>1. CASE UNCHANGED vars
    BY <1>1
    DEF vars, StoreInv, StoreTypeOK, OneWriter, WriterCurrent, ListCurrent,
        TransactionsSerial, Version
  <1>2. CASE Next
    <2>1. PICK c \in Calls :
            Start(c) \/ Progress(c) \/ AcquireTimeout(c) \/ StatementFails(c)
      BY <1>2 DEF Next
    <2>2. /\ call[c] \in CallRow /\ free \in Nat /\ Version \in Nat
          /\ call[c].pc \notin Writing => call[c].listed = None
      BY DEF StoreInv, StoreTypeOK, Version, ListCurrent, Writing
    <2>3. CASE Start(c)
      <3>1. PICK k \in Kinds : Step(c, [call[c] EXCEPT !.pc = "acquire", !.kind = k])
        BY <2>3 DEF Start
      <3> QED BY <2>2, <2>3, <3>1, QuietStep DEF Start, CallRow, Writing
    <2>4. CASE Acquire(c)
      <3>1. free' \in Nat
        BY <2>2, <2>4 DEF Acquire
      <3> QED BY <2>2, <2>4, <3>1, QuietStep DEF Acquire, Goto, CallRow, Writing
    <2>5. CASE Read(c)
      <3>1. CASE call[c].kind = "read"
        <4>1. [NewCall EXCEPT !.pc = "done"] \in CallRow
          BY DEF NewCall, CallRow
        <4> QED BY <2>2, <2>5, <3>1, <4>1, QuietStep DEF Read, End, NewCall, Writing
      <3>2. CASE call[c].kind # "read"
        BY <2>2, <2>5, <3>2, QuietStep DEF Read, CallRow, Writing
      <3> QED BY <3>1, <3>2
    <2>6. CASE Upgrade(c)
      <3>1. CASE CanUpgrade(c)
        BY <2>2, <2>6, <3>1, WriterStep DEF Upgrade, CanUpgrade, Goto, CallRow, Writing
      <3>2. CASE ~CanUpgrade(c)
        BY <2>6, <3>2, FailKeeps DEF Upgrade
      <3> QED BY <3>1, <3>2
    <2>7. CASE WriteFirst(c)
      BY <2>2, <2>7, WriterStep DEF WriteFirst, CallRow, Writing
    <2>8. CASE BusyTimeout(c)
      BY <2>8, FailKeeps DEF BusyTimeout
    <2>9. CASE Descend(c)
      <3>1. writer = c /\ call[c].snapshot = Version /\ call[c].listed = None
        BY <2>9 DEF Descend, StoreInv, OneWriter, WriterCurrent, ListCurrent, Writing
      <3> QED BY <2>2, <2>9, <3>1, WriterStep DEF Descend, Goto, CallRow, Writing
    <2>10. CASE ListDescendants(c)
      <3>1. writer = c /\ call[c].snapshot = Version
        BY <2>10 DEF ListDescendants, StoreInv, OneWriter, WriterCurrent, Writing
      <3> QED BY <2>2, <2>10, <3>1, WriterStep DEF ListDescendants, CallRow, Writing
    <2>11. CASE Commit(c)
      BY <2>11, CommitKeeps
    <2>12. CASE AcquireTimeout(c)
      BY <2>12, FailKeeps DEF AcquireTimeout
    <2>13. CASE StatementFails(c)
      BY <2>13, FailKeeps DEF StatementFails
    <2> QED
      BY <2>1, <2>3, <2>4, <2>5, <2>6, <2>7, <2>8, <2>9, <2>10, <2>11, <2>12, <2>13
      DEF Progress
  <1> QED BY <1>1, <1>2

\* Whatever reads, writes, upgrades, timeouts and freezes are interleaved over
\* the pool, every committed transaction was computed from exactly what the
\* commits before it left (reserve, finalize, the carry of a leaf, a freeze).
THEOREM TransactionsAreSerial == Spec => []TransactionsSerial
  <1>1. StoreInv => TransactionsSerial
    BY DEF StoreInv
  <1> QED BY <1>1, StoreInit, StoreStep, PTL DEF Spec
=============================================================================
