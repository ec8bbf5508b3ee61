------------------------------ MODULE MCKernel ------------------------------
(***************************************************************************)
(* Instances of Kernel for TLC.  root is the genesis human; bot is an      *)
(* agent it created; kid and ann are ids of actors that requests create.   *)
(* A payload of 100 bytes makes mutate cost 16 and execute 26.             *)
(***************************************************************************)
EXTENDS KernelProps, TLC

CONSTANTS root, bot, kid, ann, e1, e2, e3

StateChangingTypes == {"create", "mutate", "execute"}

Everything == [target |-> "**", actions |-> StateChangingTypes]
Workspace  == [target |-> "workspace/*", actions |-> StateChangingTypes]
Tree       == [target |-> "workspace/**", actions |-> StateChangingTypes]

RootRow ==
    [status |-> "active", kind |-> "human", lineage |-> {}, writable |-> {Everything}, share |-> 0]

AgentRow(writable) ==
    [status |-> "active", kind |-> "agent", lineage |-> {root}, writable |-> writable, share |-> 1]

Envelope(budget, targets, actions, holdOn, timeout, expires) ==
    [status |-> "active", holder |-> bot, budget |-> budget, consumed |-> 0,
     targets |-> targets, actions |-> actions, holdOn |-> holdOn, timeout |-> timeout,
     expires |-> expires, born |-> 0, parent |-> None]

Req(a, type, target, arg) ==
    [actor |-> a, type |-> type, target |-> target, outputBytes |-> 0,
     payloadBytes |-> 100, valid |-> TRUE, approved |-> FALSE, prepaid |-> None, arg |-> arg]

TaskSymmetry == Permutations(Tasks)
HoldSymmetry == Permutations(Tasks) \cup Permutations(Holds)

-----------------------------------------------------------------------------
\* A worker: bot writes to the workspace under e1, which holds execute.

PairActors  == {root, bot}
PairActor   == root :> RootRow @@ bot :> AgentRow({Workspace})
PairLedger  == root :> NewAccount(100) @@ bot :> NewAccount(40)

\* Enough energy for two holds, or for a hold and a write or two next to it.
RichLedger  == root :> NewAccount(100) @@ bot :> NewAccount(60)

\* A hold locks 26 of a balance of 40, which leaves nothing for a write; the
\* second write overruns the budget.
HoldEnvelope ==
    e1 :> Envelope(30, {"workspace/*"}, {"mutate", "execute"}, {<<"workspace/a", "execute">>}, 1, Never)

Run == Req(bot, "execute", "workspace/a", None)
Write == Req(bot, "mutate", "workspace/a", None)
BadRun == [Run EXCEPT !.valid = FALSE]
Answers == {Req(root, "mutate", "ledger/hold", [hold |-> h, decision |-> d]) :
               h \in Holds, d \in {"approve", "reject"}}
Manage(op) == Req(root, "mutate", "actor", [subject |-> bot, op |-> op, share |-> 2])

\* Payloads with a key of the kernel: an execute marked as approved, and writes
\* with a cost of their own.
Marked == [Run EXCEPT !.approved = TRUE]
Priced(cost) == [Write EXCEPT !.prepaid = cost]

HoldRequests ==
    {Run, BadRun, Write, Manage("freeze"), Marked, Priced(20), Priced(-1)} \cup Answers
WaitRequests == {Run, Write} \cup Answers

-----------------------------------------------------------------------------
\* A delegate: bot holds e1 for everything, for one unit of time, and acts as a
\* grantor itself; root manages it meanwhile.

TeamActors == {root, bot, kid, ann}
TeamActor  == root :> RootRow @@ bot :> AgentRow({Everything}) @@ kid :> NoActor @@ ann :> NoActor
TeamLedger ==
    root :> NewAccount(100) @@ bot :> NewAccount(60) @@ kid :> NewAccount(0) @@ ann :> NewAccount(0)

DelegateEnvelope ==
    e1 :> Envelope(60, {"workspace/*", "ledger/actor", "ledger/envelope"},
                   {"create", "mutate"}, {}, 0, 1)
    @@ e2 :> NoEnvelope @@ e3 :> NoEnvelope

NewActorArg(id, kind, energy) ==
    [id |-> id, kind |-> kind, writable |-> {Tree}, energy |-> energy, share |-> 1]

Grant(holder, budget, target, actions, duration) ==
    [holder |-> holder, budget |-> budget, targets |-> {target}, actions |-> actions,
     holdOn |-> {}, timeout |-> 0, duration |-> duration]

Hire(by, id, kind, energy) == Req(by, "create", "ledger/actor", NewActorArg(id, kind, energy))
Entrust(by, grant) == Req(by, "create", "ledger/envelope", grant)

TeamRequests ==
    {Req(bot, "observe", "workspace/a", None),
     Hire(root, kid, "agent", 20), Hire(root, kid, "agent", -1),
     Hire(bot, kid, "agent", 20), Hire(bot, ann, "human", 5),
     Entrust(root, Grant(bot, 20, "workspace/*", {"mutate"}, 1)),
     Entrust(bot, Grant(kid, 50, "workspace/**", {"mutate"}, Never)),
     Entrust(bot, Grant(kid, 10, "workspace/a", {"mutate", "execute"}, Never)),
     Entrust(root, Grant(kid, -5, "workspace/*", {"mutate"}, Never)),
     Req(kid, "mutate", "workspace/a/b", None)}
    \cup {Manage(op) : op \in {"freeze", "unfreeze", "update_energy_share"}}

TeamSymmetry == Permutations(Tasks) \cup Permutations({e2, e3})

-----------------------------------------------------------------------------
\* Instances in which a document and the code part.

\* A single envelope of 30 and writes of 16.
BudgetRequests == {Write}
BudgetEnvelope == e1 :> Envelope(30, {"workspace/*"}, {"mutate"}, {}, 0, Never)

\* Two writes exhaust a budget of 32 exactly.
ExactEnvelope == e1 :> Envelope(32, {"workspace/*"}, {"mutate"}, {}, 0, Never)

\* A write and a freeze of its agent.
SuspendRequests == {Write, Manage("freeze")}

\* bot, with the wildcard, hires a human and is then frozen.
CascadeRequests == {Hire(bot, ann, "human", 5), Manage("freeze")}

FreezeRequests == {Run, Manage("freeze")} \cup Answers

\* Without crashes and database errors.
CalmNext ==
    \/ Elapse
    \/ \E t \in Tasks : TaskStep(t) \/ (up /\ Submit(t) /\ UNCHANGED world)

CalmSpec == Init /\ [][CalmNext]_vars /\ Fairness
=============================================================================
