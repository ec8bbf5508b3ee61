------------------------------- MODULE Daemon -------------------------------
(***************************************************************************)
(* Processes of punkgo-kerneld on one state directory (daemon/main.rs):    *)
(* the lock that lets one of them run, the address file through which      *)
(* clients find it, its socket, the signing key it loads or generates      *)
(* (signing.rs), its shutdown, and --replace, which asks the daemon named  *)
(* in the address file to stop, kills it when it does not, and then waits  *)
(* for the lock.                                                           *)
(*                                                                         *)
(* A process may crash between any two steps: the kernel of the operating  *)
(* system releases its lock, its files stay as they are.                   *)
(***************************************************************************)
EXTENDS Integers

CONSTANTS
    Procs, \* processes, named by their pid
    None

ASSUME PidsAssumption == None \notin Procs /\ "partial" \notin Procs

VARIABLES
    lock,     \* who holds the flock on daemon.lock
    addr,     \* content of daemon.addr
    sockets,  \* the daemon-<pid>.sock files
    key,      \* the file signing_key: None, "partial", or who generated it
    proc      \* the processes

vars == <<lock, addr, sockets, key, proc>>

-----------------------------------------------------------------------------
\* daemon.addr as parse_pid and parse_addr read it: the pid line, and whether
\* the addr line is complete.
NoAddr == [pid |-> None, endpoint |-> FALSE]
AddrRow == [pid : Procs \cup {None}, endpoint : BOOLEAN]

Steps ==
    {"absent", "try_lock",
     "read_addr", "send", "reply", "wait", "kill", "block",
     "open_addr", "write_pid", "write_endpoint", "load_key", "write_key", "bind", "bound",
     "serving", "remove_socket", "clear_addr", "release", "gone"}

\* target: what a replacer has read in daemon.addr; shutdown: the watch channel,
\* "early" when it was set before the main task had subscribed; signer: the key
\* in memory; hung: the process is stopped and answers nobody; blind: a kill
\* command it ran to probe or to stop the old daemon has failed (a history flag).
ProcRow ==
    [pc : Steps, replace : BOOLEAN, target : AddrRow,
     shutdown : {"no", "early", "yes"}, signer : Procs \cup {None},
     hung : BOOLEAN, blind : BOOLEAN]

NewProc ==
    [pc |-> "absent", replace |-> FALSE, target |-> NoAddr,
     shutdown |-> "no", signer |-> None, hung |-> FALSE, blind |-> FALSE]

DaemonTypeOK ==
    /\ lock \in Procs \cup {None}
    /\ addr \in AddrRow
    /\ sockets \subseteq Procs
    /\ key \in Procs \cup {None, "partial"}
    /\ proc \in [Procs -> ProcRow]

Serving(p) == proc[p].pc \in {"bound", "serving"}

Set(p, row) == proc' = [proc EXCEPT ![p] = row]

Goto(p, pc) == Set(p, [proc[p] EXCEPT !.pc = pc])

Gone == [NewProc EXCEPT !.pc = "gone"]

files == <<addr, sockets, key>>

\* The process is over; only its lock goes with it.
Die(p) ==
    /\ lock' = IF lock = p THEN None ELSE lock
    /\ UNCHANGED files

-----------------------------------------------------------------------------
\* main, up to the lock.

Start(p) ==
    /\ proc[p].pc = "absent"
    /\ \E replace \in BOOLEAN : Set(p, [NewProc EXCEPT !.pc = "try_lock", !.replace = replace])
    /\ UNCHANGED <<lock, files>>

\* With the lock in hand, cleanup_old_sockets removes every daemon-*.sock.
TakeLock(p) ==
    /\ lock = None
    /\ lock' = p
    /\ sockets' = {}
    /\ Goto(p, "open_addr")
    /\ UNCHANGED <<addr, key>>

\* Without --replace a second daemon exits.
TryLock(p) ==
    /\ proc[p].pc = "try_lock"
    /\ \/ TakeLock(p)
       \/ /\ lock # None
          /\ IF proc[p].replace THEN Goto(p, "read_addr") ELSE Set(p, Gone)
          /\ UNCHANGED <<lock, files>>

-----------------------------------------------------------------------------
\* replace_old_daemon.

\* The address file is read whatever state it is in: not yet written, being
\* written, left by a crash.
ReadAddr(p) ==
    /\ proc[p].pc = "read_addr"
    /\ Set(p, [proc[p] EXCEPT !.pc = IF addr.endpoint THEN "send" ELSE "wait", !.target = addr])
    /\ UNCHANGED <<lock, files>>

\* Somebody listens on the socket of q.
Listening(q) ==
    q \in sockets /\ (Serving(q) \/ proc[q].pc = "remove_socket")

\* send_shutdown_ipc: connect and write; an error only leads to the force kill.
SendShutdown(p) ==
    /\ proc[p].pc = "send"
    /\ \/ Listening(proc[p].target.pid) /\ Goto(p, "reply")
       \/ Goto(p, "wait")
    /\ UNCHANGED <<lock, files>>

\* The connection task of q answers, then sets the watch channel.
AnswerShutdown(q, p) ==
    /\ proc[p].pc = "reply" /\ proc[p].target.pid = q
    /\ Serving(q) /\ ~proc[q].hung
    /\ proc' = [proc EXCEPT ![p].pc = "wait",
                            ![q].shutdown = IF proc[q].pc = "serving" THEN "yes" ELSE "early"]
    /\ UNCHANGED <<lock, files>>

\* The read has no timeout: it ends with the answer or, when the daemon is
\* already stopping, with the connection.
ReplyEnds(p) ==
    /\ proc[p].pc = "reply"
    /\ ~Serving(proc[p].target.pid)
    /\ Goto(p, "wait")
    /\ UNCHANGED <<lock, files>>

\* Fault: nobody is killed when the three seconds are over.
AfterWaitGentle(q) == {"block"}

\* 30 polls of is_process_alive.  A pid that is gone may have been given to
\* another process, and then looks alive.
AfterWait(q) ==
    IF q = None THEN {"block"}
    ELSE IF proc[q].pc = "gone" THEN {"block", "kill"}
    ELSE {"kill"}

Wait(p) ==
    /\ proc[p].pc = "wait"
    /\ \E pc \in AfterWait(proc[p].target.pid) : Goto(p, pc)
    /\ UNCHANGED <<lock, files>>

\* kill -9 by the pid that was read.
Kill(p) ==
    LET q == proc[p].target.pid IN
    /\ proc[p].pc = "kill"
    /\ proc' = [proc EXCEPT ![q] = Gone, ![p].pc = "block"]
    /\ Die(q)

\* Fault: after the kill the lock is taken for granted.
BlockBlind(p) ==
    /\ proc[p].pc = "block"
    /\ lock' = p
    /\ sockets' = {}
    /\ Goto(p, "open_addr")
    /\ UNCHANGED <<addr, key>>

\* lock_exclusive blocks until the holder is gone, whoever that is.
Block(p) ==
    /\ proc[p].pc = "block"
    /\ TakeLock(p)

-----------------------------------------------------------------------------
\* main, with the lock.

\* daemon.addr is truncated, then written piece by piece.
OpenAddr(p) ==
    /\ proc[p].pc = "open_addr"
    /\ addr' = NoAddr
    /\ Goto(p, "write_pid")
    /\ UNCHANGED <<lock, sockets, key>>

WritePid(p) ==
    /\ proc[p].pc = "write_pid"
    /\ addr' = [NoAddr EXCEPT !.pid = p]
    /\ Goto(p, "write_endpoint")
    /\ UNCHANGED <<lock, sockets, key>>

WriteEndpoint(p) ==
    /\ proc[p].pc = "write_endpoint"
    /\ addr' = [addr EXCEPT !.endpoint = TRUE]
    /\ Goto(p, "load_key")
    /\ UNCHANGED <<lock, sockets, key>>

\* Fault: a key is generated on every start.
KeyMissingAlways(k) == TRUE

KeyMissing(k) == k = None

\* load_or_generate: a file that exists is loaded, and must be whole.
LoadKey(p) ==
    /\ proc[p].pc = "load_key"
    /\ \/ /\ KeyMissing(key)
          /\ key' = "partial"
          /\ Goto(p, "write_key")
          /\ UNCHANGED <<lock, addr, sockets>>
       \/ /\ ~KeyMissing(key) /\ key \in Procs
          /\ Set(p, [proc[p] EXCEPT !.pc = "bind", !.signer = key])
          /\ UNCHANGED <<lock, files>>
       \/ /\ ~KeyMissing(key) /\ key = "partial"
          /\ Set(p, Gone)
          /\ Die(p)

WriteKey(p) ==
    /\ proc[p].pc = "write_key"
    /\ key' = p
    /\ Set(p, [proc[p] EXCEPT !.pc = "bind", !.signer = p])
    /\ UNCHANGED <<lock, addr, sockets>>

\* The server task listens ...
Bind(p) ==
    /\ proc[p].pc = "bind"
    /\ sockets' = sockets \cup {p}
    /\ Goto(p, "bound")
    /\ UNCHANGED <<lock, addr, key>>

\* ... and may serve before the main task waits for a shutdown.
Subscribe(p) ==
    /\ proc[p].pc = "bound" /\ ~proc[p].hung
    /\ Goto(p, "serving")
    /\ UNCHANGED <<lock, files>>

\* The three arms of the select: the signal, which only a shutdown after the
\* subscription can be; the energy producer, which holds a receiver from the
\* start; a task that fails.
SeesShutdown(p) == proc[p].shutdown = "yes"

\* Fault: the producer does not watch the channel.
ProducerStoppedNever(p) == FALSE

ProducerStopped(p) == proc[p].shutdown # "no"

Stop(p) ==
    /\ proc[p].pc = "serving" /\ ~proc[p].hung
    /\ SeesShutdown(p) \/ ProducerStopped(p)
    /\ Goto(p, "remove_socket")
    /\ UNCHANGED <<lock, files>>

TaskFails(p) ==
    /\ proc[p].pc \in {"bind", "serving"} /\ ~proc[p].hung
    /\ Goto(p, "remove_socket")
    /\ UNCHANGED <<lock, files>>

CtrlC(p) ==
    /\ proc[p].pc = "serving" /\ ~proc[p].hung
    /\ Set(p, [proc[p] EXCEPT !.shutdown = "yes"])
    /\ UNCHANGED <<lock, files>>

\* Cleanup on exit, with the lock still held.
RemoveSocket(p) ==
    /\ proc[p].pc = "remove_socket"
    /\ sockets' = sockets \ {p}
    /\ Goto(p, "clear_addr")
    /\ UNCHANGED <<lock, addr, key>>

ClearAddr(p) ==
    /\ proc[p].pc = "clear_addr"
    /\ addr' = NoAddr
    /\ Goto(p, "release")
    /\ UNCHANGED <<lock, sockets, key>>

Release(p) ==
    /\ proc[p].pc = "release"
    /\ Set(p, Gone)
    /\ Die(p)

-----------------------------------------------------------------------------
\* A crash, a kill by the user, or an error of main (the bootstrap refuses the
\* database, a file cannot be written): the files stay.
Crash(p) ==
    /\ proc[p].pc \notin {"absent", "gone"}
    /\ Set(p, Gone)
    /\ Die(p)

\* The command that probes or kills a process cannot be run, or is refused:
\* is_process_alive then takes a live daemon for an exited one, kill_process
\* ignores the error, and either way the replacer goes on to wait for the lock.
CommandFails(p) ==
    /\ proc[p].pc \in {"wait", "kill"} /\ proc[p].target.pid # None
    /\ Set(p, [proc[p] EXCEPT !.pc = "block", !.blind = TRUE])
    /\ UNCHANGED <<lock, files>>

Hang(p) ==
    /\ Serving(p)
    /\ Set(p, [proc[p] EXCEPT !.hung = TRUE])
    /\ UNCHANGED <<lock, files>>

Init ==
    /\ lock = None
    /\ addr = NoAddr
    /\ sockets = {}
    /\ key = None
    /\ proc = [p \in Procs |-> NewProc]

Run(p) ==
    \/ TryLock(p) \/ ReadAddr(p) \/ SendShutdown(p) \/ ReplyEnds(p) \/ Wait(p) \/ Kill(p)
    \/ Block(p) \/ OpenAddr(p) \/ WritePid(p) \/ WriteEndpoint(p) \/ LoadKey(p) \/ WriteKey(p)
    \/ Bind(p) \/ Subscribe(p) \/ Stop(p) \/ RemoveSocket(p) \/ ClearAddr(p) \/ Release(p)
    \/ \E q \in Procs : AnswerShutdown(p, q)

Environment(p) ==
    Start(p) \/ TaskFails(p) \/ CtrlC(p) \/ Crash(p) \/ CommandFails(p) \/ Hang(p)

Next == \E p \in Procs : Run(p) \/ Environment(p)

Spec == Init /\ [][Next]_vars

FairSpec == Spec /\ \A p \in Procs : WF_vars(Run(p))

-----------------------------------------------------------------------------
\* While a daemon serves, daemon.addr names it, its socket is there, and it
\* signs with the key on disk: no starting, replacing, exiting or crashing
\* process takes the lock, the address or the socket of another one, and two
\* never serve the same database.
ServerReachable ==
    \A p \in Procs :
        Serving(p) =>
            /\ lock = p
            /\ addr = [pid |-> p, endpoint |-> TRUE]
            /\ p \in sockets
            /\ proc[p].signer = key

\* The identity of the kernel is generated once: whatever starts and crashes
\* there are, a whole key on disk is never replaced.
KeyKept == [][(key \in Procs) => UNCHANGED key]_vars

Replacing(p, q) ==
    proc[p].pc \in {"send", "reply", "wait", "kill"} /\ proc[p].target.pid = q

\* A replacer left alone stops the daemon it has read in daemon.addr, by the
\* shutdown command or by force.  Two things can keep it from that: the read of
\* the reply, which has no timeout, from a daemon that hangs with the connection
\* open, and a probe or a kill that fails and that nobody reports.
OldDaemonStops ==
    \A p, q \in Procs :
        Replacing(p, q) ~>
            \/ proc[q].pc = "gone"
            \/ proc[q].hung /\ proc[p].pc = "reply"
            \/ proc[p].blind
            \/ proc[p].pc = "gone"

\* A daemon that has acknowledged a shutdown stops, also when the command came
\* before the main task subscribed to the channel, and whether or not the
\* process that sent it lives on to kill it.
ShutdownObeyed ==
    \A q \in Procs : proc[q].shutdown # "no" ~> ~Serving(q) \/ proc[q].hung
=============================================================================
