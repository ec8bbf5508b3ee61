------------------------------- MODULE Store --------------------------------
(***************************************************************************)
(* The database under the kernel: the connection pool of state/store.rs    *)
(* and SQLite in WAL mode with a busy timeout, as the kernel's transactions *)
(* use them.  pool.begin() is BEGIN DEFERRED: a transaction that reads     *)
(* first works on the snapshot of its first read and must become the       *)
(* writer later; one that writes first waits for the write lock, with its  *)
(* connection in hand.  execute_freeze reads on a second connection while  *)
(* it is the writer.                                                       *)
(*                                                                         *)
(* The other modules take a transaction for one step.  TransactionsSerial  *)
(* is why they may.                                                        *)
(***************************************************************************)
EXTENDS Integers, Sequences

CONSTANTS
    Calls, \* one per database call in flight
    Conns, \* max_connections: at least 8 in the code
    None

\* A freeze needs a second connection.
ASSUME ConnsAssumption == Conns \in Nat /\ Conns >= 2
ASSUME StoreNoneAssumption == None \notin Calls \cup Nat

VARIABLES
    free,    \* connections in the pool
    writer,  \* the call that holds SQLite's write lock, or None
    call,    \* where each call stands
    commits  \* history: for each commit what it was computed from

vars == <<free, writer, call, commits>>

\* Read-first: reserve, the hold trigger, finalize_energy_and_event, the budget
\* charge, make_checkpoint.  Write-first: the resolution and the timeout of a
\* hold, unfreeze, the share, a production tick, the expiry of an envelope.
Kinds == {"read", "read_first", "write_first", "freeze"}

\* snapshot: the number of commits the call's transaction sees, None before its
\* first statement; listed: the same for the second connection of a freeze.
CallRow ==
    [pc : {"new", "acquire", "begun", "read", "writing", "descend", "cascade", "done", "failed"},
     kind : Kinds \cup {None}, snapshot : Nat \cup {None}, listed : Nat \cup {None}]

NewCall == [pc |-> "new", kind |-> None, snapshot |-> None, listed |-> None]

StoreTypeOK ==
    /\ free \in Nat
    /\ writer \in Calls \cup {None}
    /\ call \in [Calls -> CallRow]
    /\ commits \in Seq([basis : Nat, listed : Nat \cup {None}])

Version == Len(commits)

Step(c, row) == call' = [call EXCEPT ![c] = row]

Goto(c, pc) == Step(c, [call[c] EXCEPT !.pc = pc])

\* Nothing of a call is left but how it ended.
End(c, pc) == Step(c, [NewCall EXCEPT !.pc = pc])

-----------------------------------------------------------------------------
Start(c) ==
    /\ call[c].pc = "new"
    /\ \E k \in Kinds : Step(c, [call[c] EXCEPT !.pc = "acquire", !.kind = k])
    /\ UNCHANGED <<free, writer, commits>>

\* The pool hands out a connection; BEGIN itself takes no lock.
Acquire(c) ==
    /\ call[c].pc = "acquire"
    /\ free > 0
    /\ free' = free - 1
    /\ Goto(c, "begun")
    /\ UNCHANGED <<writer, commits>>

\* The first statement is a SELECT: the snapshot is taken.  A plain read is over.
Read(c) ==
    /\ call[c].pc = "begun"
    /\ call[c].kind \in {"read", "read_first"}
    /\ IF call[c].kind = "read"
       THEN End(c, "done") /\ free' = free + 1
       ELSE /\ Step(c, [call[c] EXCEPT !.pc = "read", !.snapshot = Version])
            /\ UNCHANGED free
    /\ UNCHANGED <<writer, commits>>

\* The call ends in an error: rollback, the lock and the connection given back.
Fail(c) ==
    /\ End(c, "failed")
    /\ writer' = IF writer = c THEN None ELSE writer
    /\ free' = IF call[c].pc = "acquire" THEN free ELSE free + 1
    /\ UNCHANGED commits

\* Fault: the snapshot is not compared with the database.
CanUpgradeStale(c) == writer = None

\* A read transaction becomes the writer only while nobody else is and nothing
\* was committed after its snapshot.
CanUpgrade(c) == writer = None /\ call[c].snapshot = Version

\* Otherwise SQLite says SQLITE_BUSY (or BUSY_SNAPSHOT) at once: waiting with a
\* snapshot in hand could not help.
Upgrade(c) ==
    /\ call[c].pc = "read"
    /\ IF CanUpgrade(c)
       THEN writer' = c /\ Goto(c, "writing") /\ UNCHANGED <<free, commits>>
       ELSE Fail(c)

WriteFirst(c) ==
    /\ call[c].pc = "begun"
    /\ call[c].kind \in {"write_first", "freeze"}
    /\ writer = None
    /\ writer' = c
    /\ Step(c, [call[c] EXCEPT !.pc = "writing", !.snapshot = Version])
    /\ UNCHANGED <<free, commits>>

\* Fault: a busy timeout that never ends.
BusyTimeoutNever(c) == FALSE /\ Fail(c)

\* busy_timeout, 5 s: the wait for the write lock ends in an error.
BusyTimeout(c) ==
    /\ call[c].pc = "begun"
    /\ call[c].kind \in {"write_first", "freeze"}
    /\ writer # None
    /\ Fail(c)

\* execute_freeze, between its first and its other updates: list_descendants
\* asks the pool for a connection of its own ...
Descend(c) ==
    /\ call[c].pc = "writing"
    /\ call[c].kind = "freeze"
    /\ Goto(c, "descend")
    /\ UNCHANGED <<free, writer, commits>>

\* ... reads what is committed, and gives it back.
ListDescendants(c) ==
    /\ call[c].pc = "descend"
    /\ free > 0
    /\ Step(c, [call[c] EXCEPT !.pc = "cascade", !.listed = Version])
    /\ UNCHANGED <<free, writer, commits>>

Commit(c) ==
    /\ call[c].pc = IF call[c].kind = "freeze" THEN "cascade" ELSE "writing"
    /\ commits' = Append(commits, [basis |-> call[c].snapshot, listed |-> call[c].listed])
    /\ writer' = None
    /\ free' = free + 1
    /\ End(c, "done")

\* sqlx gives up waiting for a connection after 30 s.
AcquireTimeout(c) ==
    /\ call[c].pc \in {"acquire", "descend"}
    /\ free = 0
    /\ Fail(c)

\* Any statement may fail (I/O, a constraint), and the request may be refused
\* by what it has read.
StatementFails(c) ==
    /\ call[c].pc \in {"begun", "read", "writing", "cascade"}
    /\ Fail(c)

-----------------------------------------------------------------------------
Init ==
    /\ free = Conns
    /\ writer = None
    /\ call = [c \in Calls |-> NewCall]
    /\ commits = <<>>

\* The steps a call takes by itself.
Progress(c) ==
    \/ Acquire(c) \/ Read(c) \/ Upgrade(c) \/ WriteFirst(c) \/ BusyTimeout(c)
    \/ Descend(c) \/ ListDescendants(c) \/ Commit(c)

Next == \E c \in Calls : Start(c) \/ Progress(c) \/ AcquireTimeout(c) \/ StatementFails(c)

Spec == Init /\ [][Next]_vars

\* Every call is polled; no wait for a connection is assumed to time out.
FairSpec == Spec /\ \A c \in Calls : WF_vars(Progress(c))

-----------------------------------------------------------------------------
\* Committed transactions are serial: each was computed from what all earlier
\* commits left, and nothing was committed between its first read and its
\* commit.  So reserve never checks a balance that another request has since
\* spent, MAX(log_index) + 1 is never given twice, the carry of a leaf never
\* misses a sibling, and a freeze lists every actor created before it, although
\* it lists them on another connection.
TransactionsSerial ==
    \A i \in DOMAIN commits :
        /\ commits[i].basis = i - 1
        /\ commits[i].listed \in {None, i - 1}

\* Every call ends, without a connection wait ever timing out: a freeze that
\* waits for its second connection is the writer, whoever waits for the writer
\* gives up after the busy timeout, and nobody else keeps a connection.
CallsEnd ==
    \A c \in Calls : call[c].pc # "new" ~> call[c].pc \in {"done", "failed"}
=============================================================================
