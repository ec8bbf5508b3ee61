---------------------------- MODULE DaemonProofs ----------------------------
(***************************************************************************)
(* A serving daemon is the only one, can be found, and signs with the key  *)
(* on disk, and that key is never replaced: for any number of processes.   *)
(***************************************************************************)
EXTENDS Daemon, TLAPS

\* The steps between taking the lock and giving it back, those after
\* daemon.addr was written, and those with the key in memory.
Holding ==
    {"open_addr", "write_pid", "write_endpoint", "load_key", "write_key", "bind", "bound",
     "serving", "remove_socket", "clear_addr", "release"}
Addressed ==
    {"load_key", "write_key", "bind", "bound", "serving", "remove_socket", "clear_addr"}
Keyed == {"bind", "bound", "serving"}

\* What a process may rely on, which is what it has done itself since it took
\* the lock.
ProcOK(p) ==
    /\ proc[p].pc \in Holding <=> lock = p
    /\ proc[p].pc = "write_endpoint" => addr = [pid |-> p, endpoint |-> FALSE]
    /\ proc[p].pc \in Addressed => addr = [pid |-> p, endpoint |-> TRUE]
    /\ proc[p].pc = "write_key" => key = "partial"
    /\ proc[p].pc \in Keyed => proc[p].signer = key /\ key \in Procs
    /\ Serving(p) => p \in sockets

DaemonInv == DaemonTypeOK /\ \A p \in Procs : ProcOK(p)

\* Before the first process starts.
LEMMA DaemonInit == Init => DaemonInv
  BY PidsAssumption
  DEF Init, DaemonInv, DaemonTypeOK, ProcOK, NoAddr, AddrRow, ProcRow, NewProc, Steps,
      Holding, Addressed, Keyed, Serving

\* A step of a process without the lock.
LEMMA OutsideStep ==
    ASSUME DaemonInv, NEW p \in Procs, NEW row \in ProcRow, Set(p, row),
           UNCHANGED <<lock, files>>, proc[p].pc \notin Holding, row.pc \notin Holding
    PROVE  DaemonInv'
  <1>1. /\ proc' \in [Procs -> ProcRow] /\ proc'[p] = row
        /\ \A q \in Procs \ {p} : proc'[q] = proc[q]
    BY DEF Set, DaemonInv, DaemonTypeOK
  <1>2. DaemonTypeOK'
    BY <1>1 DEF DaemonInv, DaemonTypeOK, files
  <1>3. ProcOK(p)'
    BY <1>1 DEF DaemonInv, ProcOK, files, Holding, Addressed, Keyed, Serving
  <1>4. ASSUME NEW q \in Procs \ {p} PROVE ProcOK(q)'
    BY <1>1 DEF DaemonInv, ProcOK, files, Serving
  <1> QED BY <1>2, <1>3, <1>4 DEF DaemonInv

\* A step that takes a process nowhere: only its flags change.
LEMMA FlagStep ==
    ASSUME DaemonInv, NEW p \in Procs, NEW row \in ProcRow, Set(p, row),
           UNCHANGED <<lock, files>>, row.pc = proc[p].pc, row.signer = proc[p].signer
    PROVE  DaemonInv'
  <1>1. /\ proc' \in [Procs -> ProcRow] /\ proc'[p] = row
        /\ \A q \in Procs \ {p} : proc'[q] = proc[q]
    BY DEF Set, DaemonInv, DaemonTypeOK
  <1>2. DaemonTypeOK'
    BY <1>1 DEF DaemonInv, DaemonTypeOK, files
  <1>3. ASSUME NEW q \in Procs PROVE ProcOK(q)'
    BY <1>1 DEF DaemonInv, ProcOK, files, Serving
  <1> QED BY <1>2, <1>3 DEF DaemonInv

\* A step of the process with the lock: nobody else relies on anything.
LEMMA HolderStep ==
    ASSUME DaemonInv, NEW p \in Procs, NEW row \in ProcRow, Set(p, row),
           lock \in {None, p}, lock' = p, DaemonTypeOK', ProcOK(p)'
    PROVE  DaemonInv'
  <1>1. \A q \in Procs \ {p} : proc'[q] = proc[q]
    BY DEF Set, DaemonInv, DaemonTypeOK
  <1>2. ASSUME NEW q \in Procs \ {p} PROVE ProcOK(q)'
    <2>1. proc[q].pc \notin Holding
      BY PidsAssumption DEF DaemonInv, ProcOK
    <2> QED BY <1>1, <2>1 DEF ProcOK, Holding, Addressed, Keyed, Serving
  <1> QED BY <1>2 DEF DaemonInv

\* A process ends, by itself, by a crash or by kill -9: its lock is released.
LEMMA EndStep ==
    ASSUME DaemonInv, NEW q \in Procs, Die(q), proc' \in [Procs -> ProcRow],
           proc'[q].pc \notin Holding,
           \A r \in Procs \ {q} :
              proc'[r] = proc[r] \/ (proc[r].pc \notin Holding /\ proc'[r].pc \notin Holding)
    PROVE  DaemonInv'
  <1>1. files' = files /\ lock' \in Procs \cup {None} /\ lock' # q
    BY PidsAssumption DEF Die, DaemonInv, DaemonTypeOK
  <1>2. DaemonTypeOK'
    BY <1>1 DEF DaemonInv, DaemonTypeOK, files
  <1>3. ProcOK(q)'
    BY <1>1 DEF ProcOK, Holding, Addressed, Keyed, Serving
  <1>4. ASSUME NEW r \in Procs \ {q} PROVE ProcOK(r)'
    <2>1. lock' = r <=> lock = r
      BY PidsAssumption DEF Die
    <2>2. ProcOK(r)
      BY DEF DaemonInv
    <2>3. CASE proc'[r] = proc[r]
      BY <1>1, <2>1, <2>2, <2>3 DEF ProcOK, Serving, files
    <2>4. CASE proc[r].pc \notin Holding /\ proc'[r].pc \notin Holding
      BY <1>1, <2>1, <2>2, <2>4 DEF ProcOK, Serving, Holding, Addressed, Keyed
    <2> QED BY <2>3, <2>4
  <1> QED BY <1>2, <1>3, <1>4 DEF DaemonInv

\* The lock is free, and everything in the directory but the sockets stays.
LEMMA TakeLockKeeps ==
    ASSUME DaemonInv, NEW p \in Procs, TakeLock(p)
    PROVE  DaemonInv'
  <1> DEFINE row == [proc[p] EXCEPT !.pc = "open_addr"]
  <1>1. row \in ProcRow /\ row.pc = "open_addr" /\ Set(p, row) /\ proc'[p] = row
    BY DEF TakeLock, Goto, Set, DaemonInv, DaemonTypeOK, ProcRow, Steps
  <1>2. DaemonTypeOK'
    BY <1>1 DEF TakeLock, Set, DaemonInv, DaemonTypeOK
  <1>3. ProcOK(p)'
    BY <1>1 DEF TakeLock, ProcOK, Holding, Addressed, Keyed, Serving
  <1> QED BY <1>1, <1>2, <1>3, HolderStep DEF TakeLock

\* A step of main between taking the lock and giving it back, by what it does
\* to the process and to the directory.
LEMMA MainStep ==
    ASSUME DaemonInv, NEW p \in Procs,
           \/ OpenAddr(p) \/ WritePid(p) \/ WriteEndpoint(p) \/ WriteKey(p) \/ Bind(p)
           \/ Subscribe(p) \/ Stop(p) \/ TaskFails(p) \/ RemoveSocket(p) \/ ClearAddr(p)
    PROVE  DaemonInv' /\ (key \in Procs => key' = key)
  <1> DEFINE row == proc'[p]
  <1> USE DEF DaemonInv
  <1>1. lock = p /\ lock' = p /\ ProcOK(p) /\ proc[p] \in ProcRow
    BY DEF OpenAddr, WritePid, WriteEndpoint, WriteKey, Bind, Subscribe, Stop, TaskFails,
           RemoveSocket, ClearAddr, ProcOK, Holding, DaemonTypeOK
  <1>2. row \in ProcRow /\ Set(p, row) /\ row.pc \in Holding
    <2>1. CASE WriteKey(p)
      BY <1>1, <2>1 DEF WriteKey, Set, ProcRow, Steps, Holding, DaemonTypeOK
    <2>2. CASE ~WriteKey(p)
      <3>1. \E pc \in Holding : Goto(p, pc)
        BY <2>2 DEF OpenAddr, WritePid, WriteEndpoint, Bind, Subscribe, Stop, TaskFails,
               RemoveSocket, ClearAddr, Holding
      <3>2. PICK pc \in Holding : proc' = [proc EXCEPT ![p] = [proc[p] EXCEPT !.pc = pc]]
        BY <3>1 DEF Goto, Set
      <3>3. pc \in Steps
        BY DEF Holding, Steps
      <3> QED BY <1>1, <3>2, <3>3 DEF Set, ProcRow, DaemonTypeOK
    <2> QED BY <2>1, <2>2
  <1>3. addr' \in AddrRow /\ sockets' \subseteq Procs
    <2>1. addr \in AddrRow /\ sockets \subseteq Procs /\ NoAddr \in AddrRow
      BY DEF DaemonTypeOK, AddrRow, NoAddr
    <2>2. [NoAddr EXCEPT !.pid = p] \in AddrRow /\ [addr EXCEPT !.endpoint = TRUE] \in AddrRow
      BY <2>1 DEF AddrRow, NoAddr
    <2> QED BY <2>1, <2>2
      DEF OpenAddr, WritePid, WriteEndpoint, WriteKey, Bind, Subscribe, Stop, TaskFails,
          RemoveSocket, ClearAddr, files
  <1>4. key' \in Procs \cup {None, "partial"} /\ (key \in Procs => key' = key)
    BY <1>1, PidsAssumption
    DEF OpenAddr, WritePid, WriteEndpoint, WriteKey, Bind, Subscribe, Stop, TaskFails,
           RemoveSocket, ClearAddr, files, DaemonTypeOK, ProcOK
  <1>5. DaemonTypeOK'
    BY <1>1, <1>2, <1>3, <1>4 DEF DaemonTypeOK, Set
  <1>6. ProcOK(p)'
    <2>1. CASE OpenAddr(p)
      <3>1. proc'[p].pc = "write_pid"
        BY <1>1, <2>1 DEF OpenAddr, Goto, Set, DaemonTypeOK, ProcRow
      <3> QED BY <1>1, <3>1 DEF ProcOK, Holding, Addressed, Keyed, Serving
    <2>2. CASE WritePid(p)
      <3>1. addr' = [pid |-> p, endpoint |-> FALSE] /\ proc'[p].pc = "write_endpoint"
        BY <1>1, <2>2 DEF WritePid, Goto, Set, DaemonTypeOK, ProcRow, NoAddr
      <3> QED BY <1>1, <3>1 DEF ProcOK, Holding, Addressed, Keyed, Serving
    <2>3. CASE WriteEndpoint(p)
      <3>1. proc'[p].pc = "load_key"
        BY <1>1, <2>3 DEF WriteEndpoint, Goto, Set, DaemonTypeOK, ProcRow
      <3>2. addr' = [pid |-> p, endpoint |-> TRUE]
        <4>1. addr = [pid |-> p, endpoint |-> FALSE]
          BY <1>1, <2>3 DEF WriteEndpoint, ProcOK
        <4>2. addr' = [addr EXCEPT !.endpoint = TRUE]
          BY <2>3 DEF WriteEndpoint
        <4>3. addr \in AddrRow /\ addr.pid = p
          BY <4>1 DEF AddrRow
        <4> QED BY <4>2, <4>3 DEF AddrRow
      <3> QED BY <1>1, <3>1, <3>2 DEF ProcOK, Holding, Addressed, Keyed, Serving
    <2>4. CASE WriteKey(p)
      BY <1>1, <2>4
      DEF WriteKey, Set, DaemonTypeOK, ProcRow, ProcOK, Holding, Addressed, Keyed, Serving
    <2>5. CASE Bind(p)
      BY <1>1, <2>5
      DEF Bind, Goto, Set, DaemonTypeOK, ProcRow, ProcOK, Holding, Addressed, Keyed, Serving
    <2>6. CASE Subscribe(p)
      BY <1>1, <2>6
      DEF Subscribe, Goto, Set, DaemonTypeOK, ProcRow, ProcOK, files,
          Holding, Addressed, Keyed, Serving
    <2>7. CASE Stop(p) \/ TaskFails(p)
      BY <1>1, <2>7
      DEF Stop, TaskFails, Goto, Set, DaemonTypeOK, ProcRow, ProcOK, files,
          Holding, Addressed, Keyed, Serving
    <2>8. CASE RemoveSocket(p)
      BY <1>1, <2>8
      DEF RemoveSocket, Goto, Set, DaemonTypeOK, ProcRow, ProcOK,
          Holding, Addressed, Keyed, Serving
    <2>9. CASE ClearAddr(p)
      BY <1>1, <2>9
      DEF ClearAddr, Goto, Set, DaemonTypeOK, ProcRow, ProcOK,
          Holding, Addressed, Keyed, Serving
    <2> QED BY <2>1, <2>2, <2>3, <2>4, <2>5, <2>6, <2>7, <2>8, <2>9
  <1> QED BY <1>1, <1>2, <1>4, <1>5, <1>6, HolderStep

\* The process is over and its row is Gone.
LEMMA GoneKeeps ==
    ASSUME DaemonInv, NEW p \in Procs, Set(p, Gone), Die(p)
    PROVE  DaemonInv' /\ key' = key
  <1>1. Gone \in ProcRow /\ Gone.pc = "gone"
    BY DEF Gone, NewProc, ProcRow, Steps, NoAddr, AddrRow
  <1>2. /\ proc' \in [Procs -> ProcRow] /\ proc'[p] = Gone
        /\ \A q \in Procs \ {p} : proc'[q] = proc[q]
    BY <1>1 DEF Set, DaemonInv, DaemonTypeOK
  <1>3. proc'[p].pc \notin Holding
    BY <1>1, <1>2 DEF Holding
  <1>4. \A r \in Procs \ {p} :
          proc'[r] = proc[r] \/ (proc[r].pc \notin Holding /\ proc'[r].pc \notin Holding)
    BY <1>2
  <1>5. DaemonInv'
    <2> HIDE DEF DaemonInv, Die, Holding
    <2> QED BY <1>2, <1>3, <1>4, EndStep
  <1> QED BY <1>5 DEF Die, files

\* load_or_generate writes only where there is no file.
LEMMA LoadKeyKeeps ==
    ASSUME DaemonInv, NEW p \in Procs, LoadKey(p)
    PROVE  DaemonInv' /\ (key \in Procs => key' = key)
  <1>1. lock = p /\ ProcOK(p) /\ proc[p] \in ProcRow /\ proc[p].pc = "load_key"
    BY DEF LoadKey, DaemonInv, ProcOK, Holding, DaemonTypeOK
  <1>2. CASE KeyMissing(key) /\ key' = "partial" /\ Goto(p, "write_key")
             /\ UNCHANGED <<lock, addr, sockets>>
    <2>1. proc'[p] \in ProcRow /\ Set(p, proc'[p]) /\ proc'[p].pc = "write_key"
      BY <1>1, <1>2 DEF Goto, Set, DaemonInv, DaemonTypeOK, ProcRow, Steps
    <2>2. DaemonTypeOK'
      BY <1>2, <2>1 DEF DaemonInv, DaemonTypeOK, Set
    <2>3. ProcOK(p)'
      BY <1>1, <1>2, <2>1 DEF ProcOK, Holding, Addressed, Keyed, Serving
    <2>4. DaemonInv'
      BY <1>1, <1>2, <2>1, <2>2, <2>3, HolderStep
    <2> QED BY <1>2, <2>4, PidsAssumption DEF KeyMissing
  <1>3. CASE key \in Procs /\ Set(p, [proc[p] EXCEPT !.pc = "bind", !.signer = key])
             /\ UNCHANGED <<lock, files>>
    <2>1. /\ proc'[p] \in ProcRow /\ Set(p, proc'[p])
          /\ proc'[p].pc = "bind" /\ proc'[p].signer = key
      BY <1>1, <1>3 DEF Set, DaemonInv, DaemonTypeOK, ProcRow, Steps
    <2>2. DaemonTypeOK'
      BY <1>3, <2>1 DEF DaemonInv, DaemonTypeOK, Set, files
    <2>3. ProcOK(p)'
      BY <1>1, <1>3, <2>1 DEF ProcOK, Holding, Addressed, Keyed, Serving, files
    <2>4. DaemonInv'
      BY <1>1, <1>3, <2>1, <2>2, <2>3, HolderStep
    <2> QED BY <1>3, <2>4 DEF files
  <1>4. CASE Set(p, Gone) /\ Die(p)
    BY <1>4, GoneKeeps
  <1> QED BY <1>2, <1>3, <1>4 DEF LoadKey

\* kill -9: whoever is meant loses the lock, and the replacer has none.
LEMMA KillKeeps ==
    ASSUME DaemonInv, NEW p \in Procs, Kill(p)
    PROVE  DaemonInv' /\ key' = key
  <1> DEFINE q == proc[p].target.pid
  <1>1. /\ proc \in [Procs -> ProcRow] /\ proc[p].pc = "kill" /\ Die(q)
        /\ proc' = [proc EXCEPT ![q] = Gone, ![p].pc = "block"]
        /\ q \in Procs \cup {None}
    BY DEF Kill, DaemonInv, DaemonTypeOK, ProcRow, AddrRow
  <1>2. Gone \in ProcRow /\ Gone.pc = "gone"
    BY DEF Gone, NewProc, ProcRow, Steps, NoAddr, AddrRow
  <1>3. proc' \in [Procs -> ProcRow]
    <2>1. [proc EXCEPT ![q] = Gone] \in [Procs -> ProcRow]
      BY <1>1, <1>2
    <2> QED BY <1>1, <2>1 DEF ProcRow, Steps
  <1>4. proc'[p].pc = "block"
    <2>1. p \in Procs /\ [proc EXCEPT ![q] = Gone][p] \in ProcRow
      BY <1>1, <1>2
    <2> QED BY <1>1, <2>1 DEF ProcRow
  <1>5. \A r \in Procs \ {p} : proc'[r] = IF r = q THEN Gone ELSE proc[r]
    BY <1>1
  <1>6. proc[p].pc \notin Holding /\ proc'[p].pc \notin Holding /\ Gone.pc \notin Holding
    BY <1>1, <1>2, <1>4 DEF Holding
  <1>7. CASE q \in Procs
    <2>1. proc'[q].pc \notin Holding
      BY <1>5, <1>6, <1>7
    <2>2. \A r \in Procs \ {q} :
            proc'[r] = proc[r] \/ (proc[r].pc \notin Holding /\ proc'[r].pc \notin Holding)
      BY <1>5, <1>6
    <2>3. DaemonInv'
      <3> HIDE DEF q
      <3> QED BY <1>1, <1>3, <1>7, <2>1, <2>2, EndStep
    <2> QED BY <1>1, <2>3 DEF Die, files
  <1>8. CASE q \notin Procs
    <2>1. UNCHANGED <<lock, files>>
      BY <1>1, <1>8 DEF Die, DaemonInv, DaemonTypeOK
    <2>2. Set(p, proc'[p])
      <3>1. \A r \in Procs \ {p} : proc'[r] = proc[r]
        BY <1>5, <1>8
      <3> QED BY <1>1, <1>3, <3>1 DEF Set
    <2>3. DaemonInv'
      BY <1>3, <1>6, <2>1, <2>2, OutsideStep
    <2> QED BY <2>1, <2>3 DEF files
  <1> QED BY <1>7, <1>8

\* The daemon that answers goes on; the replacer that asked holds no lock.
LEMMA AnswerKeeps ==
    ASSUME DaemonInv, NEW q \in Procs, NEW p \in Procs, AnswerShutdown(q, p)
    PROVE  DaemonInv' /\ key' = key
  <1>1. /\ proc \in [Procs -> ProcRow] /\ p # q /\ UNCHANGED <<lock, files>>
        /\ proc[p].pc = "reply"
    BY DEF AnswerShutdown, DaemonInv, DaemonTypeOK, Serving
  <1>2. PICK flag \in {"early", "yes"} :
          proc' = [proc EXCEPT ![p].pc = "wait", ![q].shutdown = flag]
    BY DEF AnswerShutdown
  <1>3. /\ proc' \in [Procs -> ProcRow]
        /\ proc'[p].pc = "wait"
        /\ proc'[q].pc = proc[q].pc /\ proc'[q].signer = proc[q].signer
        /\ \A r \in Procs \ {p, q} : proc'[r] = proc[r]
    <2>1. proc[p] \in ProcRow /\ proc[q] \in ProcRow
      BY <1>1
    <2>2. /\ proc'[p] = [proc[p] EXCEPT !.pc = "wait"]
          /\ proc'[q] = [proc[q] EXCEPT !.shutdown = flag]
          /\ \A r \in Procs \ {p, q} : proc'[r] = proc[r]
          /\ proc' = [r \in Procs |-> proc'[r]]
      BY <1>1, <1>2
    <2>3. proc'[p] \in ProcRow /\ proc'[q] \in ProcRow
      BY <2>1, <2>2 DEF ProcRow, Steps
    <2>4. \A r \in Procs : proc'[r] \in ProcRow
      BY <1>1, <2>2, <2>3
    <2>5. proc'[p].pc = "wait" /\ proc'[q].pc = proc[q].pc /\ proc'[q].signer = proc[q].signer
      BY <2>1, <2>2 DEF ProcRow
    <2> QED BY <2>2, <2>4, <2>5
  <1>4. DaemonTypeOK'
    BY <1>1, <1>3 DEF DaemonInv, DaemonTypeOK, files
  <1>5. ASSUME NEW r \in Procs PROVE ProcOK(r)'
    <2>1. ProcOK(r)
      BY DEF DaemonInv
    <2>2. CASE r = p
      BY <1>1, <1>3, <2>1, <2>2 DEF ProcOK, Serving, Holding, Addressed, Keyed, files
    <2>3. CASE r # p
      BY <1>1, <1>3, <2>1, <2>3 DEF ProcOK, Serving, files
    <2> QED BY <2>2, <2>3
  <1> QED BY <1>1, <1>4, <1>5 DEF DaemonInv, files

\* A process that starts, looks for the lock, or replaces another one.
LEMMA OutsideKeeps ==
    ASSUME DaemonInv, NEW p \in Procs,
           \/ Start(p) \/ ReadAddr(p) \/ SendShutdown(p) \/ ReplyEnds(p) \/ Wait(p)
           \/ CommandFails(p) \/ (TryLock(p) /\ lock # None)
    PROVE  DaemonInv' /\ key' = key
  <1>1. /\ proc \in [Procs -> ProcRow] /\ addr \in AddrRow /\ UNCHANGED <<lock, files>>
        /\ proc[p].pc \notin Holding
    BY DEF Start, ReadAddr, SendShutdown, ReplyEnds, Wait, CommandFails, TryLock, TakeLock,
           Holding, DaemonInv, DaemonTypeOK
  <1>2. \E row \in ProcRow : Set(p, row) /\ row.pc \notin Holding
    <2>1. CASE Start(p)
      <3>1. PICK b \in BOOLEAN :
              Set(p, [NewProc EXCEPT !.pc = "try_lock", !.replace = b])
        BY <2>1 DEF Start
      <3> DEFINE row == [NewProc EXCEPT !.pc = "try_lock", !.replace = b]
      <3>2. row \in ProcRow /\ row.pc = "try_lock"
        BY DEF NewProc, ProcRow, Steps, NoAddr, AddrRow
      <3> QED BY <3>1, <3>2 DEF Holding
    <2>2. CASE ReadAddr(p)
      <3> DEFINE pc == IF addr.endpoint THEN "send" ELSE "wait"
                 row == [proc[p] EXCEPT !.pc = pc, !.target = addr]
      <3>1. pc \in {"send", "wait"}
        OBVIOUS
      <3>2. Set(p, row)
        BY <2>2 DEF ReadAddr
      <3> HIDE DEF pc
      <3>3. row \in ProcRow /\ row.pc = pc
        BY <1>1, <3>1 DEF ProcRow, Steps
      <3> QED BY <3>1, <3>2, <3>3 DEF Holding
    <2>3. ASSUME NEW pc \in {"reply", "wait", "block", "kill", "read_addr"}, Goto(p, pc)
          PROVE  \E row \in ProcRow : Set(p, row) /\ row.pc \notin Holding
      <3> DEFINE row == [proc[p] EXCEPT !.pc = pc]
      <3>1. row \in ProcRow /\ row.pc = pc
        BY <1>1 DEF ProcRow, Steps
      <3>2. Set(p, row)
        BY <2>3 DEF Goto
      <3>3. pc \notin Holding
        BY DEF Holding
      <3> QED BY <3>1, <3>2, <3>3
    <2>4. CASE SendShutdown(p) \/ ReplyEnds(p)
      BY <2>3, <2>4 DEF SendShutdown, ReplyEnds
    <2>5. CASE Wait(p)
      <3>1. \A q : AfterWait(q) \subseteq {"block", "kill"}
        BY DEF AfterWait
      <3> QED BY <2>3, <2>5, <3>1 DEF Wait
    <2>6. CASE TryLock(p) /\ lock # None
      <3>1. Gone \in ProcRow /\ Gone.pc \notin Holding
        BY DEF Gone, NewProc, ProcRow, Steps, NoAddr, AddrRow, Holding
      <3>2. Goto(p, "read_addr") \/ Set(p, Gone)
        BY <2>6 DEF TryLock, TakeLock
      <3> QED BY <2>3, <3>1, <3>2
    <2>7. CASE CommandFails(p)
      <3> DEFINE row == [proc[p] EXCEPT !.pc = "block", !.blind = TRUE]
      <3>1. row \in ProcRow /\ row.pc = "block"
        BY <1>1 DEF ProcRow, Steps
      <3>2. Set(p, row)
        BY <2>7 DEF CommandFails
      <3> QED BY <3>1, <3>2 DEF Holding
    <2> QED BY <2>1, <2>2, <2>4, <2>5, <2>6, <2>7
  <1>3. DaemonInv'
    BY <1>1, <1>2, OutsideStep
  <1> QED BY <1>1, <1>3 DEF files

\* Ctrl-C, and a process that no longer answers.
LEMMA FlagKeeps ==
    ASSUME DaemonInv, NEW p \in Procs, CtrlC(p) \/ Hang(p)
    PROVE  DaemonInv' /\ key' = key
  <1>1. proc[p] \in ProcRow /\ UNCHANGED <<lock, files>>
    BY DEF CtrlC, Hang, DaemonInv, DaemonTypeOK
  <1>2. \E row \in ProcRow :
          Set(p, row) /\ row.pc = proc[p].pc /\ row.signer = proc[p].signer
    <2>1. CASE CtrlC(p)
      <3> DEFINE row == [proc[p] EXCEPT !.shutdown = "yes"]
      <3>1. row \in ProcRow /\ row.pc = proc[p].pc /\ row.signer = proc[p].signer
        BY <1>1 DEF ProcRow
      <3>2. Set(p, row)
        BY <2>1 DEF CtrlC
      <3> QED BY <3>1, <3>2
    <2>2. CASE Hang(p)
      <3> DEFINE row == [proc[p] EXCEPT !.hung = TRUE]
      <3>1. row \in ProcRow /\ row.pc = proc[p].pc /\ row.signer = proc[p].signer
        BY <1>1 DEF ProcRow
      <3>2. Set(p, row)
        BY <2>2 DEF Hang
      <3> QED BY <3>1, <3>2
    <2> QED BY <2>1, <2>2
  <1>3. DaemonInv'
    BY <1>1, <1>2, FlagStep
  <1> QED BY <1>1, <1>3 DEF files

\* One step of any process.
LEMMA DaemonStep ==
    ASSUME DaemonInv, [Next]_vars
    PROVE  DaemonInv' /\ (key \in Procs => key' = key)
  <1>1. CASE UNCHANGED vars
    BY <1>1 DEF vars, DaemonInv, DaemonTypeOK, ProcOK, Serving
  <1>2. CASE Next
    <2>1. PICK p \in Procs : Run(p) \/ Environment(p)
      BY <1>2 DEF Next
    <2>2. CASE TryLock(p)
      <3>1. CASE lock = None
        BY <2>2, <3>1, TakeLockKeeps DEF TryLock, TakeLock
      <3>2. CASE lock # None
        BY <2>2, <3>2, OutsideKeeps
      <3> QED BY <3>1, <3>2
    <2>3. CASE Block(p)
      BY <2>3, TakeLockKeeps DEF Block, TakeLock
    <2>4. CASE \/ Start(p) \/ ReadAddr(p) \/ SendShutdown(p) \/ ReplyEnds(p) \/ Wait(p)
               \/ CommandFails(p)
      BY <2>4, OutsideKeeps
    <2>5. CASE Kill(p)
      BY <2>5, KillKeeps
    <2>6. CASE \/ OpenAddr(p) \/ WritePid(p) \/ WriteEndpoint(p) \/ WriteKey(p) \/ Bind(p)
               \/ Subscribe(p) \/ Stop(p) \/ TaskFails(p) \/ RemoveSocket(p) \/ ClearAddr(p)
      BY <2>6, MainStep
    <2>7. CASE LoadKey(p)
      BY <2>7, LoadKeyKeeps
    <2>8. CASE Release(p) \/ Crash(p)
      BY <2>8, GoneKeeps DEF Release, Crash
    <2>9. CASE CtrlC(p) \/ Hang(p)
      BY <2>9, FlagKeeps
    <2>10. CASE \E q \in Procs : AnswerShutdown(p, q)
      BY <2>10, AnswerKeeps
    <2> QED
      BY <2>1, <2>2, <2>3, <2>4, <2>5, <2>6, <2>7, <2>8, <2>9, <2>10 DEF Run, Environment
  <1> QED BY <1>1, <1>2

\* However daemons start, crash, hang, are replaced and killed, the one that
\* serves holds the lock, is the one daemon.addr names, has its socket in
\* place, and signs with the key on disk (main, replace_old_daemon,
\* load_or_generate).
THEOREM ServerIsReachable == Spec => []ServerReachable
  <1>1. DaemonInv => ServerReachable
    BY DEF DaemonInv, ProcOK, ServerReachable, Serving, Holding, Addressed, Keyed
  <1>2. DaemonInv /\ [Next]_vars => DaemonInv'
    BY DaemonStep
  <1> QED BY <1>1, <1>2, DaemonInit, PTL DEF Spec

\* load_or_generate never replaces a key that was completely written.
THEOREM KeyIsKept == Spec => KeyKept
  <1>1. DaemonInv /\ [Next]_vars => DaemonInv'
    BY DaemonStep
  <1>2. DaemonInv /\ [Next]_vars => [(key \in Procs) => UNCHANGED key]_vars
    BY DaemonStep
  <1> QED BY <1>1, <1>2, DaemonInit, PTL DEF Spec, KeyKept
=============================================================================
