# A TLA+ model of punkgo-kernel

punkgo-kernel is a daemon that records what humans and AI agents do. Actors
submit *actions*; the kernel checks them against the actor's boundary and
authorisation, prices them in *energy*, and appends an event to a log kept in
SQLite. An agent acts under an *envelope* (a budget, targets, action types) that
a human or another agent granted it; an envelope may *hold* some actions until a
human approves them.

The daemon serves each connection in a task of its own, and a request is a chain
of separate reads and transactions with an `await` between any two. What this
project models is that chain, many of them at once, on one database that
survives crashes; the verifiable log underneath it; the transactions it is built
on; and the processes that take turns on one state directory.

## Inventory

| Component | State | Operations | What makes it hard | What makes it correct |
|---|---|---|---|---|
| `submit_action` pipeline (`runtime/kernel.rs`) | nothing of its own; one call per request | validate, authorise, quote, reserve, validate payload, settle + append, post-commit | checks, reservation, commit, budget and lifecycle are separate transactions on rows read earlier | every request is answered; a commit settles exactly what was reserved |
| Holds (`kernel.rs`, `state/envelope_store.rs`) | `hold_requests` | trigger, approve, reject, lazy timeout, re-submission | two humans, timeout against approval, crash after the approval | one decision, at most one execution, only behind an approval, charged once |
| Energy ledger (`state/energy_ledger.rs`) | `energy_ledger` (balance, reserved) | reserve, settle, credit, create | concurrent reservations, reservations that outlive their request | `0 <= reserved <= balance`; the log and the energy given explain every balance |
| Envelopes (`envelope_store.rs`, `consent.rs`) | `envelopes` | create, delegate, charge, Halt, expire | charge after commit, Halt on a stale snapshot | delegation shrinks; charges follow commits |
| Actors, boundary (`actor_store.rs`, `boundary.rs`) | `actors` | create, lookup, boundary check | ids derived outside the creating transaction | no child exceeds its creator |
| Lifecycle (`runtime/lifecycle.rs`) | `actors.status`, `energy_share` | freeze (cascade), unfreeze, terminate, update share | freeze races requests in flight | freezing suspends an actor; humans are never frozen |
| Energy producer (`runtime/energy_producer.rs`) | none | one tick: list shares, credit | shares listed before the credit | a tick hands out exactly its energy |
| Event log (`state/event_log.rs`) | `events` | append inside a transaction, paged query | `MAX(log_index) + 1` under concurrency, appends between two pages | dense order, one event per commit; a walk loses nothing |
| Audit log (`audit.rs`) | `audit_hashes`, `audit_checkpoints` | append leaf, lazy checkpoint, proofs | carry chains; a checkpoint for a count read earlier | the stored tree is the RFC 6962 tree, checkpoints are its roots and fresh enough, proofs verify |
| State store (`state/store.rs`) | the database file | bootstrap, startup integrity checks | must accept what any crash left | the checks accept what the kernel wrote |
| Connection pool, transactions (`store.rs`, sqlx, SQLite) | connections, the write lock | acquire, read, upgrade, commit, fail | deferred transactions read before they write; a freeze needs two connections | commits are serial; every call ends |
| Daemon (`daemon/main.rs`) | `daemon.lock`, `daemon.addr`, sockets, watch channel | start, `--replace`, serve, shut down | handover between processes, crashes, a hung daemon, a late subscription | who serves is alone and can be found; a shutdown and a replacement take effect |
| Signing (`signing.rs`) | the file `signing_key` | load or generate, sign | the file is written in place | a key that was written is never replaced |
| IPC server (`daemon/ipc.rs`) | connections | read a line, dispatch, answer | one task per connection | no state of its own |
| Prices (`action.rs`), policy, protocol, errors, stellar config, blob store, one-row read queries, `punkgo-cli` | constants, files | pure functions or I/O | | |

Inside a daemon, components interact through the database only: the pipeline
calls the ledger, the stores and the logs inside its transactions; the producer
and the lifecycle operations write rows that pipelines have read before; read
queries write checkpoints; `execute_hold_response` calls `submit_action` again,
for another actor. Daemons interact through the lock, the address file, the
shutdown command and signals.

`PROJECT.json` lists the hazards line by line, with the properties that cover
them; a hazard that is not covered yet says so.

## Modules

| Module | Models | Role |
|---|---|---|
| `EnergyLedger` | `energy_ledger.rs`, the 20% commitment cost | guard and new row of each ledger operation |
| `Consent` | `action.rs`, `boundary.rs`, `consent.rs` | pure decisions: price, boundary, coverage, hold, Halt, reduction |
| `EnergyProducer` | the division of a tick in `energy_producer.rs` | which credits a tick may hand out |
| `Kernel` | `kernel.rs`, `lifecycle.rs`, the stores, startup | the state machine; composes the three above |
| `HoldLifecycle` | what PIP-001 §11 promises of one hold | abstract specification |
| `KernelProps` | | the properties, and the refinement of `HoldLifecycle` |
| `MCKernel`, `MC*.cfg` | | instances for TLC |
| `Merkle` | the tlog library (external), RFC 6962 | hash terms, stored indices, proofs, and the reference roots |
| `AuditLog` | `event_log.rs`, `audit.rs`, the read queries of `kernel.rs` | state machine of appends and read requests |
| `Store` | the pool of `store.rs`, SQLite as the stores use it | state machine below a transaction |
| `Daemon` | `daemon/main.rs`, the key file of `signing.rs` | state machine of processes on one state directory |
| `MCAudit`, `MCStore`, `MCDaemon` | | instances for TLC |
| `KernelProofs`, `AdmissionProofs`, `HoldProofs`, `LedgerProofs` | | theorems about `Kernel`, each module building on the one before; `KernelProofs` begins with lemmas about finite sums |
| `MerkleProofs`, `AuditProofs` | | lemmas about the Merkle tree, and theorems about `AuditLog` |
| `StoreProofs`, `DaemonProofs` | | theorems about `Store` and `Daemon` |

Definitions whose comment starts with "Fault:" are wrong on purpose. They are not
used by the specification; each is a plausible mistake in the definition that
follows it, and the property named for it in `PROJECT.json` fails when it takes
that definition's place.

The four state machines are joined by what one assumes and another shows.
`Kernel` and `AuditLog` take a transaction for one atomic step: `Store` shows that
commits are serial. `Kernel` appends an event in one step: `AuditLog` opens that
step up to the leaf and its carries. `Kernel` and `Store` assume one process on
the database: `Daemon` shows that only one serves.

### Kernel: state

`actor`, `ledger`, `envelope`, `hold` and `log` are the tables `actors`,
`energy_ledger`, `envelopes`, `hold_requests` and `events`. They survive `Crash`.
`task` holds the local variables of each `submit_action` call: where it stands,
its action, the envelope it has read, the hold it re-executes (`via`), the
overdue holds it still has to expire, what it has reserved, the Halt decision.
`producer` holds the shares a tick has listed. `minted` is a history variable: the
energy each actor was ever given. So are three fields of an event: the hold it
re-executes, and whether its payload had the kernel's keys from the client
(`selfApproved`, `selfPriced`).

### Kernel: actions

One action is one transaction, or one read with the decisions that follow it
before the next `await`.

| Action | Code |
|---|---|
| `Submit` | a line arrives on a connection (`ipc.rs`) |
| `Check`, `CheckLineage` | existence, frozen, boundary; then the creators of an agent |
| `Authorize`, `ExpireEnvelope` | the envelope is read once; a lazily expired one is marked in a transaction of its own |
| `ListHolds`, `ExpireHold` | `expire_timed_out_holds`: one read, then one transaction per overdue hold. Called before a hold check and from a late response |
| `Trigger` | the hold transaction: reserve, `hold_request` event, row |
| `Respond`, `SkipTimeout`, `Resolve` | `execute_hold_response`: reads, then the guarded transaction. On approve the same task becomes the call for the held action |
| `Parse` | lifecycle authorisation, actor and envelope specs |
| `ReserveEnergy` | quote and reserve, committed on its own |
| `TakePrepaid` | a payload with `_hold_reserved_cost`: no reservation, the amount is taken as it is |
| `RejectPayload` | an invalid execute payload: an error after the reservation |
| `Finalize` | settle, insert actor or envelope, append event: one transaction |
| `Account`, `Consume`, `SkipBudget` | post-commit: envelope read anew, Halt decided, charge (refused beyond the budget, or lost to an error) |
| `Lifecycle` | freeze, unfreeze, terminate, update share |
| `Abort` | a database call fails; its transaction rolls back, the error ends the request |
| `ListShares`, `CreditShares`, `CreditFails` | a production tick |
| `Elapse`, `Crash`, `Restart` | time; process death between two transactions; bootstrap with its checks |

Transactions are atomic because SQLite serialises writers (`TransactionsSerial` in
`Store`): a deferred transaction that has read a row another connection changed
meanwhile cannot upgrade, fails, and is an `Abort`.

### Kernel: abstractions

- A target is one of the path shapes the pipeline tells apart, or a nested path; a
  pattern is one of these or one of `**`, `workspace/*`, `workspace/**`. `GlobMatch`
  tabulates what globset answers for them, also when a pattern is compared as text.
  `system/` targets (policy version) are left out.
- Costs are the code's; payload sizes are fields of a request.
- A payload is what the pipeline reads of it. The keys `_hold_approved` and
  `_hold_reserved_cost`, which the kernel sets when it re-executes an approved action,
  are read from every payload and refused in none, so a request carries both
  (`approved`, `prepaid`), with any integer for the second.
- `FrozenWith` takes the descendants of an actor from their lineage. The code finds
  them with `LIKE` on the quoted id, which is the same for ids without `%`, `_` and
  differences in case only.
- A clock tick is a hold timeout. Time never runs backwards.
- Energy shares are natural numbers. The floating-point floor may fall one short of
  an exact part; the remainder loop then runs, in any order of the actors, since the
  query has no `ORDER BY`.
- 64-bit overflow is out of reach of the costs in use and is not modelled.
- Rows of actors that do not exist yet have an empty ledger row.

### AuditLog and Merkle

`events`, `hashes` and `checkpoints` are the three tables; `reader` holds the local
variables of each `read_query` call. A hash is the term that was hashed, so two
hashes are equal exactly when the same tree was hashed (collision resistance), and
`Node(l, r)` of a wrong child shows up in every root above it. The library tlog is
not part of the repository; `Merkle` defines what it computes from the names and
arguments the code uses (`StoredHashIndex`, subtree decomposition, `RecordPath`,
`TreePath`). The roots that `audit.rs` has to match (`RangeHash`) are
the recursive definition of RFC 6962, written independently of stored hashes. All
recursions are functions on ranges that end at ranges of one leaf or none, so they are
well founded for every argument and can be proved about.

| Action | Code |
|---|---|
| `AppendEvent` | `append_in_tx` with `append_leaf_in_tx`: the next `log_index`, the leaf, the carry chain over left siblings |
| `Ask`, `Finish` | a read request arrives; it ends with its answer, an error, or the client hanging up |
| `Count` | the event count, read first |
| `Ensure` | `ensure_checkpoint`: is the latest checkpoint at least that count? |
| `MakeCheckpoint` | root of that count, in a transaction of its own; a row of that size is replaced |
| `ReadLatest` | `latest_checkpoint` for the answer, read once more |
| `Prove` | inclusion and consistency proofs for a size the client may choose |
| `ReadPage` | one page of `events`: filters, newest first, at most `limit` rows; `has_more` when the page is full, `next_cursor` its last index |

The request `audit_checkpoint` and the legacy snapshot take the same steps; the
snapshot's pairing of its own count with a possibly newer root is not stated as a
property. Signatures are not modelled.

### Store

`free` counts the connections in the pool, `writer` is the holder of SQLite's write
lock, `call` the database calls in flight, `commits` the history: for each commit,
the version its reads saw. There are four kinds of call: a plain read; a
transaction that reads first (reserve, hold trigger, finalize, budget charge,
checkpoint); one that writes first (hold resolution, timeout, unfreeze, share,
tick, expiry); and a freeze, which writes, then asks the pool for a second
connection for `list_descendants`, then writes again.

`pool.begin()` is `BEGIN DEFERRED`. In WAL mode a read-first transaction whose
snapshot is no longer current fails at once when it tries to write
(`SQLITE_BUSY_SNAPSHOT`, the busy timeout does not help); a write-first one waits
for the lock up to the busy timeout. Waiting for a connection ends with the pool's acquire
timeout. Every failure rolls back and returns connections and lock.

### Daemon

`lock`, `addr`, `sockets` and `key` are the files of a state directory; `proc` the
processes. A process walks through `main`: try the lock; without it give up, or
with `--replace` read the address file, send the shutdown command, await its
reply, poll for the process to end, kill it, and block on the lock. With the lock it rewrites
the address file in place (three steps: truncate, pid, endpoint), loads or
generates the key (two steps, so a crash can leave half a key), binds, spawns the
server, subscribes to the shutdown channel, serves, and cleans up.

- A process may `Crash` between any two steps (the operating system releases its
  lock, the files stay) and may `Hang` (stopped, with its connections open).
- The commands that probe and kill a process may fail (`CommandFails`): then
  `is_process_alive` says no and `kill_process` says nothing, and the replacer goes on
  to block on the lock of a daemon that lives.
- Shutdown comes from a signal, a command over the socket, or a failing task. The
  server is up before `main` subscribes (`bound` against `serving`); a value sent
  in between counts as seen by that subscription, and only the energy producer's
  own receiver, created earlier, still ends the process.
- A pid that is gone may look alive (reused by an unrelated process), but no
  daemon gets the pid of an earlier one. Connection tasks that still run while `main`
  returns are not modelled. The Unix and Windows paths take the same steps.

## Runs

Each constant definition in a `.cfg` picks an
instance; symmetry permutes tasks, hold ids, unused envelope ids and readers, and is left out
of the runs that check a liveness property. Requests, calls and processes are
bounded by the sets `Tasks`, `Calls` and `Procs`, so behaviours end and deadlock is
not checked: the daemon legitimately idles. In `audit` readers start over and
deadlock is checked.

| Run | Instance | States | Shows |
|---|---|---|---|
| `holds` | human and agent, one envelope that holds `execute`, two holds, 3 requests out of 11 (held, invalid and free actions, payloads with the kernel's keys, a freeze, responses), 2 units of time, crash | 214 623 | the life of a hold; refinement of `HoldLifecycle`; locks backed; no held action without approval; startup checks, balances, charges |
| `team` | 4 actors, 3 envelopes, 3 requests out of 13 that hire, delegate, freeze, unfreeze; envelopes that expire; a tick | 1 028 769 | types, new accounts, delegation, ticks |
| `answers` | 3 requests with holds, responses and timeouts, `FairSpec` | 125 454 | every request returns |
| `audit` (`MCAudit`) | 5 events of two actors, two read requests at a time out of 8 | 764 150 | the stored tree, checkpoints and their freshness, proofs, paged walks |
| `store` (`MCStore`) | 4 calls of any kind, 2 connections, `FairSpec` | 73 565 | commits are serial; every call ends |
| `daemon` (`MCDaemon`) | 3 processes, each with or without `--replace`, crash, hang, failing commands, `FairSpec` | 65 894 | one reachable server, the key is kept, handover and shutdown happen |
| `budget`, `halt`, `lock`, `human`, `freeze`, `approved` | small instances without crashes and errors (`CalmSpec`) | | a document's claim, violated |

**Bounds.** The interesting races need two or three requests: two responses to one
hold, or a response against a timeout, with the request that triggered the hold
before them (three); a response becomes a second request, the re-execution, without
a task of its own. Two units of time are one more than a timeout. In `holds` the
agent's 60 pay for two holds (26 each), or for a hold and two writes (16 each), and
no more, so reservations are refused on some paths; a client-sent cost of 20 is less
than a hold's lock and more than a write's, -1 stands for the costs that settle
nothing. In `answers` the balance of 40 does not pay for a hold and a write. A budget
of 30 is overrun by the second write. `MaxClock`, `MaxTicks` and the sets are the
only bounds. In `team` a tick of 3 over the shares of one or two agents leaves
a remainder on some paths and floors that fall short on others; the agent may pass on
`workspace/**` under its own `workspace/*`, and the new actor writes below it.

Five events (`MaxEvents`) give trees of every size up to 5 and carries of length 0,
1 and 2; the queries ask for proofs in sizes 3, 4, 5, one at the edge of a tree, and one in a tree that never
exists. Pages of one and two (`MaxPage`, 500 in the code) over five events make full
last pages and up to five pages; at most one event is the other actor's
(`OneOfB`), enough for a filter to skip. Two readers suffice for checkpoints out of order: both read a count, one makes its
checkpoint after the other's larger one.
Two connections (at least 8 in the code) are the least with which a freeze can
run at all; four calls are a freeze, a rival that holds the other connection, and two more that queue.
Three processes are a running daemon, a replacer, and a third that starts or
replaces in between.

**Fairness.** `FairSpec` asks weak fairness of each task's own steps: tokio polls
every spawned task until it completes, and every step is a local computation or an
SQLite call with a busy timeout. No fairness is asked of clients, humans, time,
ticks, crashes or restarts. A crashed daemon has no calls in flight, so a restart
is not needed for an answer ("answered" includes the connection closing).
In `Store`, weak fairness of each call's own progress: statements return, SQLite
gives up after the busy timeout. The acquire timeout is *not* fair: calls end
without it, because someone always releases a connection. In `Daemon`, weak fairness of each process's own steps; none for starts, signals,
failing tasks, crashes or hangs, and a hung process takes no steps.

### What disagrees with the documents

The findings in `PROJECT.json` quote the lines.

- `BudgetIsUpperBound`: an envelope's budget is no upper bound; the event commits
  before the charge is compared, and a charge beyond the budget is dropped.
- `ExhaustedEnvelopeExpires`: two requests that decide on the same snapshot exhaust
  a budget without a Halt.
- `LockCountsTowardBudget`: energy locked by a hold is not counted as used budget.
- `HumansNeverFrozen`: freezing an agent also freezes a human the agent created.
- `ApprovedHoldSettles`: an approved action can be refused on re-submission; its
  energy stays locked for good.
- `FreezeSuspends`: a request that passed its check before the freeze of its agent
  commits after it; the status is not read again.

Three more have no run of their own.

The comments at `kernel.rs:343` and `kernel.rs:494` speak of `_hold_approved` and
`_hold_reserved_cost` as marks of an action that a human has approved. The code takes
them from any payload. The model does what the code does, and the guarantees
are stated with what is left of them. A held action is in the log behind an approval,
or with the `_hold_approved` of its client (`HeldActionsApproved`). The startup checks
pass, but for an event that its client priced at zero or less
(`StartupChecksPass`). Locks are backed, but for what such events took
(`ObligationsBacked`), so `settle_in_tx` cannot fail for an actor without them
(`SettlementsSucceed`). A negative `settled_energy` explains no balance and backs no
charge: `BalanceExplained` and `ChargesBacked` count what an event took, not what it
says (`Taken`).

PIP-001 §2 wants every production event in the history. `produce_tick` writes the
ledger and no event, so the log alone does not explain a balance: `BalanceExplained`
also counts `minted`, and what a tick hands out is judged by `TicksAreNeutral`.

`pattern_covers`, and the same test in
`validate_envelope_reduction`, match the child's pattern as text. A star matches
stars, so `workspace/*` covers `workspace/**`, although `boundary.rs:76` asks for a
subset. `PatternCovers` models the code, and `DelegationShrinks` speaks of
that relation: it does not say that the set of matched paths shrinks.

Two liveness properties are as weak as the code makes them. `OldDaemonStops` has
alternatives: the reply to the shutdown command is read without a timeout, so a
daemon that hangs with the connection open blocks its replacer; and a probe or a kill
that fails is not noticed. And a replacer that
read an empty or outdated address file stops nobody and may wait for the lock
without end; no property excludes it.

`ObligationsBacked` is an inequality for the same reason: a ledger row may hold
more locks than anybody will settle (crash after reserve, invalid payload, refused
re-submission). It holds fewer only by what requests with a client-sent cost took.

## Proofs

TLAPS checks these for all values of the constants: any number of actors,
envelopes, holds, tasks and requests, any costs, budgets and initial tables that
satisfy the assumptions of `Kernel`; any number of writers, readers, queries and
events in `AuditLog`; any number of calls and at least two connections in `Store`;
any number of processes in `Daemon`. The assumptions of `Kernel` are that requests
are what deserialisation accepts, that there are finitely many actors, and that a database starts well typed with nothing
reserved, no negative balance, nothing consumed, no delegated envelope and finitely
many envelopes.

| Theorem | States |
|---|---|
| `TypeCorrect` | `Spec => []TypeOK` |
| `DelegationNeverWidens` | `Spec => []DelegationShrinks` |
| `HoldHistory` | `Spec => []HoldEventsInOrder` |
| `HoldTableMatches` | `Spec => []HoldsMatchLog` |
| `HeldActionsWait` | `Spec => []HeldActionsApproved` |
| `HoldsFollowLifecycle` | `Spec => ImplementsHoldLifecycle`, the refinement |
| `StartupNeverRefused` | `Spec => []StartupChecksPass` |
| `BalancesExplained` | `Spec => []BalanceExplained` |
| `ReservationsBacked` | `Spec => []ObligationsBacked` |
| `SettlementsSucceed` | `Spec => []Settleable`: `settle_in_tx` does not fail for an actor without client-priced events |
| `ChargesAreSpent` | `Spec => []ChargesBacked` |
| `AnswersAlwaysCover` | `Spec => []AnswersCover` of `AuditLog` |
| `StoredTreeIsComplete` | `Spec => []StoredSubtrees` of `AuditLog` |
| `CheckpointsStayRoots` | `Spec => []CheckpointsAreRoots` of `AuditLog` |
| `ProofsAlwaysVerify` | `Spec => []ProofsVerify` of `AuditLog` |
| `WalksAlwaysComplete` | `Spec => []WalksComplete` of `AuditLog` |
| `TransactionsAreSerial` | `Spec => []TransactionsSerial` of `Store` |
| `ServerIsReachable` | `Spec => []ServerReachable` of `Daemon` |
| `KeyIsKept` | `Spec => KeyKept` of `Daemon` |

- `TypeOK` is not inductive: `Consume` updates the envelope its task has read, and
  nothing in the types says the row exists. `TInv` adds, for each task, what its
  program counter promises (`TaskOK`: the rows it refers to exist), and that every
  hold locks a positive amount.
- `PInv` is what the pipeline knows. A task acts on rows it read some transactions
  earlier, so its record tells a *story* about the tables (`Story`: the envelope it
  authorises with is its actor's and permits the action; the parent it delegates
  from covers the child; the hold it re-executes carries its action and its
  reservation). The stories stay true because no transaction deletes a row or
  updates a column a story relies on (`Evolves`). `DelegationShrinks` follows for the
  child that is inserted on the strength of such a story, and so does `EventsCleared`:
  an agent's event without a hold was permitted without one, or its client had marked
  it approved.
- `HInv` adds to the two hold properties that an event never precedes its row, that
  a task re-executes only an approved hold (`ViaApproved`), that no two tasks
  re-execute the same one (`ViaOnce`), and that its action is not in the log until
  that task has committed (`NotYetRun`). Without the last two a second execution
  could follow the first. With `PInv` it gives `HeldActionsApproved`: an event that
  carries a hold comes after that hold's decision, and the decision is a human's.
- The refinement: every step of the kernel either leaves the holds and their events
  alone (`Aside`) or appends one event of one hold (`HoldMove`: `Opens`, `Decides`,
  `Executes`; lemma `StepMoves`). Each move is the action of `HoldLifecycle` with
  the matching name on the mapped state, provided a hold that is neither refused nor
  executed has been charged nothing (`Uncharged`), which the same case analysis shows
  inductive.
- `SInv` is the ledger's soundness and "every mutate and execute has paid, or its
  client named the price"; it is inductive relative to `TInv`, because what any other
  task carries to `Finalize` is positive and `CanSettle` refuses a reservation the row
  does not hold.
- The ledger theorems are about sums over the log, the holds, the tasks and the
  envelopes, which are finite in every reachable state (`FiniteRows`). The first
  part of `KernelProofs` shows what a sum becomes when one summand is added, removed or changed.
  `BalanceExplained` is inductive: each transaction that moves a balance appends the
  event that explains it, or raises `minted`. `ObligationsBacked` is inductive
  relative to `TInv` and `PInv`: one lemma per sum and kind of row (`LockStep`,
  `OpenStep`), one for a task that changes its row (`TaskBacked`), one for a hold that
  is opened or decided (`HoldBacked`). An approval moves the lock from the hold to
  the task that re-executes it. A client-priced commit lowers `reserved` and raises
  what such events took by the same amount (`SelfTakenStep`, `PrepaidBacked`). Together with `SInv` this gives `SettlementsSucceed`.
- `ChargesBacked` is not inductive: the charge comes two transactions after the event.
  `CInv` counts what is still to be charged as well.
- `AuditInv`: checkpoints have sizes within the log and a largest one exists; and at
  each program counter a reader's count lies within the log (`ReaderOK`), at `latest`
  with a checkpoint of at least that size. Checkpoints and the log only grow, so
  the steps of others keep it.
- `WalkInv` says what an unfinished walk has received: the matches from its cursor up
  to the count at its first page, newest first. A full page ends at its smallest index
  and holds everything above it, a page that is not full holds the rest (`NewestCut`),
  and an event that is appended lies beyond that count. `NewestFirst` is handled by
  ranks: n matches have the ranks 1..n, by the pigeonhole principle (`RankTaken`).
- `TreeInv`: `audit_hashes` holds one hash for each complete subtree of the log and
  nothing else, and it is the subtree's RFC 6962 hash. Appending a leaf keeps it by
  three facts. `StoredHashIndex` counts the subtrees completed before (`IndexIs`), so
  an index is in use exactly when its subtree is complete (`IndexBounds`). The
  subtrees that leaf n completes are those of the levels up to `Carries(n)`
  (`CarryEnds`, `CarryOf`), and the carry loop hashes each of them from the stored
  left sibling and the one it has just made (`ParentHash`, `ToStoreIs`). And the hash of
  a range does not depend on the leaves behind it (`RangeHashPrefix`).
- `RootsInv` needs `TreeInv`: `make_checkpoint` combines stored subtrees from the right
  (`SubTreeHash`), the reference splits a range at the largest power of two. They agree
  on a range that lies in the tree at a multiple of a power of two at least its length
  (`Aligned`, `SubTreeIsRange`), and the ranges of a tree and its parts are such. Later
  appends keep it, again by `RangeHashPrefix`.
- `ProofInv`: a reader that has its answer holds the hashes of the ranges in the path of
  its proof (`Proves`), all inside the log it was made from. That such hashes lead to
  the root (`InclusionVerifies`, `ConsistencyVerifies`) is a fact about the tree alone,
  by induction on the length of a range; for a consistency proof the old tree is divided
  where the new one is, as long as it reaches beyond (`OldPartHash`).
- `StoreInv`: only the writer stands in a writing step (`OneWriter`), its snapshot is
  the current version (`WriterCurrent`), and so is what a freeze has listed
  (`ListCurrent`). A commit by anybody else would need the lock, so neither goes stale.
- `DaemonInv`: a process holds the lock exactly while it stands in one of the steps
  between taking and releasing it, and from each such step on the address file,
  the socket and the key in memory are as it left them (`ProcOK`); nobody writes them
  without the lock.

Induction over finite sets is done by minimal counterexample (`WFMin` on the
cardinality): the library's induction theorems take an operator, which the provers
cannot instantiate. For the same reason each recursive function of `Merkle` is shown to
have a solution before it is unfolded: a solution defined up to a rank (the length of a
range) extends to the next rank, and a smallest rank without one cannot exist. Powers
of two come from the library's theorem on the number of subsets of a finite set.

**Only model-checked.** `RequestsAnswered`, `CallsEnd`, `OldDaemonStops` and
`ShutdownObeyed` need fairness, which is beyond the prover. `TicksAreNeutral` is about the sum that a
loop computes and is checked by TLC only. The six runs that refute a
document's claim are counterexamples, found by TLC. Every other invariant and action
property of the passing runs is a theorem.

## Not modelled

- The derivation of actor ids from a purpose (two creations of one id do race in `team`).
- Glob syntax beyond the patterns above: classes, alternatives, `?`.
- The policy version that `system/policy` events record.
- Read queries that return one row or a constant, and the quote request: they change nothing.
- The blob store: no request reaches it.
- Signatures (cryptography without state), configuration files, `punkgo-cli` (arguments
  in, one request out), line framing, and the wording of anything.

## Plan

1. *Done*: ledger, consent, producer, kernel, hold abstraction, five theorems.
2. *Done*: `Merkle` and `AuditLog`, `Store`, `Daemon`, patterns as the code compares
   them, four theorems.
3. *Done*: every invariant of the kernel runs and the refinement of `HoldLifecycle`
   proved; `WalksComplete`.
4. *Done*: the Merkle tree. `StoredSubtrees`, `CheckpointsAreRoots` and `ProofsVerify`
   proved for a log of any length.
5. *Done*: the kernel's payload keys as clients may send them, the remainder loop of
   `produce_tick`, failing probe and kill commands.
6. Open: `TicksAreNeutral` for any shares, by proof.
