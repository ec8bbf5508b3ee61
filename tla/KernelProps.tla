----------------------------- MODULE KernelProps ----------------------------
(***************************************************************************)
(* What the committer must guarantee.  Each property relates tables that   *)
(* are written by different transactions, so each could be broken by an    *)
(* interleaving of requests, a hold's timeout, or a crash.                 *)
(***************************************************************************)
EXTENDS Kernel

-----------------------------------------------------------------------------
\* Energy.

\* A database left behind by any crash passes run_startup_integrity_checks, but
\* for one kind of event: no row has reserved < 0, balance < 0 or reserved >
\* balance, and every mutate or execute event has paid, unless its client sent
\* _hold_reserved_cost with an amount that is not positive.
StartupChecksPass ==
    /\ \A a \in Actors : Consistent(ledger[a])
    /\ \A i \in DOMAIN log :
        EventPasses(log[i]) \/ (log[i].selfPriced /\ log[i].settled <= 0)

\* The energy a task has locked and not yet settled.
InFlight(t) ==
    IF task[t].pc \in {"account", "consume", "lifecycle"} \/ SelfPriced(task[t]) THEN 0
    ELSE task[t].reserved

PendingHolds(a) == {h \in Holds : hold[h].status = "pending" /\ hold[h].agent = a}

TasksOf(a) == {t \in Tasks : task[t].action # None /\ task[t].action.actor = a}

Obligations(a) ==
    SumFunction([h \in PendingHolds(a) |-> hold[h].reserved])
    + SumFunction([t \in TasksOf(a) |-> InFlight(t)])

\* What an event took from the ledger: nothing when its settled_energy is not
\* positive, for then there was no reservation to settle.
Taken(event) == IF event.settled > 0 THEN event.settled ELSE 0

\* What a set of events took from the ledger.
SettledBy(events) == SumFunction([i \in events |-> Taken(log[i])])

PaidBy(a) == {i \in DOMAIN log : log[i].payer = a}

\* The events of actor a with a reservation that its client named and that the
\* ledger was never asked for.
SelfPaid(a) == {i \in PaidBy(a) : log[i].selfPriced}

\* Every reservation that will still be settled (a pending hold, a request
\* between reserve and finalize, an approved action on its way) is in the
\* ledger, all of them together.  Only requests whose client sent
\* _hold_reserved_cost settle out of another's lock, and what is then missing is
\* no more than what they took: an actor without such a request never meets the
\* "reserved mismatch" of settle_in_tx.
ObligationsBacked ==
    \A a \in Actors : ledger[a].reserved + SettledBy(SelfPaid(a)) >= Obligations(a)

\* An actor owns what it was given (at the start, by the opening of its account,
\* by ticks) less what the events it paid for have taken.  No path settles
\* without an event, twice, or from another actor's row.  The log alone does not
\* explain a balance: a tick writes no event.
BalanceExplained ==
    \A a \in Actors : ledger[a].balance = minted[a] - SettledBy(PaidBy(a))

\* A tick hands out all of its energy or, when its transaction fails, none, to
\* whomever it listed, whatever has been frozen, created or re-shared since:
\* "sum of credits == energy_per_tick exactly" (energy_producer.rs).
TicksAreNeutral ==
    [][producer # None /\ producer' = None =>
          SumFunction([a \in Actors |-> ledger'[a].balance - ledger[a].balance])
              \in {0, EnergyPerTick}]_vars

-----------------------------------------------------------------------------
\* Holds.

\* The place of an event in the life of its hold.
Stage(event) ==
    CASE event.type = "hold_request" -> 1
      [] event.type \in {"hold_response", "hold_timeout"} -> 2
      [] OTHER -> 3

\* The history of a hold is a request, then at most one decision, then at most
\* one execution of the held action: two humans, a human and a timeout, or a
\* crash during the re-execution never make a second one.
HoldEventsInOrder ==
    \A i, j \in DOMAIN log :
        i < j /\ log[i].hold = log[j].hold /\ log[i].hold # None
            => Stage(log[i]) < Stage(log[j])

\* The hold_requests table and the log agree: a row is decided exactly when its
\* decision is in the log, and a held action runs only after an approval.
HoldsMatchLog ==
    /\ \A h \in Holds :
        hold[h].status \in {"approved", "rejected", "timed_out"}
            <=> \E i \in DOMAIN log : log[i].hold = h /\ Stage(log[i]) = 2
    /\ \A i \in DOMAIN log :
        log[i].hold # None /\ Stage(log[i]) = 3 => hold[log[i].hold].status = "approved"

\* Every envelope actor a ever held that permits the action also holds it.
AlwaysHeld(a, target, type) ==
    \A e \in Envelopes :
        /\ envelope[e].status # "absent"
        /\ envelope[e].holder = a
        /\ type \in envelope[e].actions
        /\ \E p \in envelope[e].targets : GlobMatch(p, target)
        => <<target, type>> \in envelope[e].holdOn

\* Sovereignty: an agent's action that its envelopes hold is in the log only
\* behind a human's hold_response for it (PIP-001 11b, 11d), or with the
\* _hold_approved that its client sent: no race, crash or re-submission is a
\* third way.
HeldActionsApproved ==
    \A i \in DOMAIN log :
        LET ev == log[i] IN
        /\ ev.type \in {"create", "mutate", "execute"}
        /\ ~ev.selfApproved
        /\ actor[ev.actor].kind = "agent"
        /\ AlwaysHeld(ev.actor, ev.target, ev.type)
        => \E j \in 1..(i - 1) :
                /\ log[j].type = "hold_response"
                /\ log[j].hold = ev.hold
                /\ actor[log[j].actor].kind = "human"

\* The life of each hold as the tables and the log show it.
Executed(h) == \E i \in DOMAIN log : log[i].hold = h /\ Stage(log[i]) = 3

StageOf(h) == IF Executed(h) THEN "executed" ELSE hold[h].status

LockOf(h) == IF hold[h] = NoHold THEN 0 ELSE hold[h].reserved

ChargeOf(h) == SettledBy({i \in DOMAIN log : log[i].hold = h})

Abstract ==
    INSTANCE HoldLifecycle WITH
        stage   <- [h \in Holds |-> StageOf(h)],
        locked  <- [h \in Holds |-> LockOf(h)],
        charged <- [h \in Holds |-> ChargeOf(h)]

\* The pipeline implements HoldLifecycle: each hold is decided once, executed
\* at most once and only after an approval, and charged once, in full or 20%,
\* rounded up.
ImplementsHoldLifecycle == Abstract!Spec

-----------------------------------------------------------------------------
\* Envelopes.

AgentEvents(a) ==
    {i \in DOMAIN log : log[i].actor = a /\ log[i].type \in {"create", "mutate", "execute"}}

Spent(a) == SettledBy(AgentEvents(a))

HeldBy(a) == {e \in Envelopes : envelope[e].status # "absent" /\ envelope[e].holder = a}

\* An envelope is charged only for actions that committed, each at most once,
\* although the charge is a later transaction on an envelope read anew.
ChargesBacked ==
    \A a \in Actors : SumFunction([e \in HeldBy(a) |-> envelope[e].consumed]) <= Spent(a)

\* A delegated envelope has no action type its parent lacks, only patterns the
\* kernel takes to be covered by its parent's, and never more energy than the
\* whole parent budget, whatever happened between the moment the parent was read
\* and the commit of the child.
DelegationShrinks ==
    \A e \in Envelopes :
        envelope[e].status # "absent" /\ envelope[e].parent # None =>
            LET p == envelope[envelope[e].parent] IN
            /\ p.status # "absent"
            /\ envelope[e].budget <= p.budget
            /\ TargetsCovered(p.targets, envelope[e].targets)
            /\ envelope[e].actions \subseteq p.actions

\* Every submitted request is answered: no task waits for another.
RequestsAnswered ==
    \A t \in Tasks : task[t].pc # "new" ~> task[t].pc = "done"

-----------------------------------------------------------------------------
\* What the documents say and the code does not do.

\* actor.rs: "Freeze an actor -- suspends all state-changing actions."
FreezeSuspends ==
    [][\A a \in Actors : actor[a].status = "frozen" => AgentEvents(a)' = AgentEvents(a)]_vars

\* ARCHITECTURE.md: an envelope's budget is the "Energy consumption upper
\* bound" of the agent that holds it.
BudgetIsUpperBound ==
    \A a \in Actors :
        HeldBy(a) # {} =>
            Spent(a) <= SumFunction([e \in HeldBy(a) |-> envelope[e].budget])

\* consent.rs: "Halt: budget exhausted, envelope expires."
ExhaustedEnvelopeExpires ==
    \A e \in Envelopes :
        envelope[e].status = "active" => envelope[e].consumed < envelope[e].budget

\* PIP-001 11c: "Energy locked during a hold counts toward the used budget."
LockCountsTowardBudget ==
    \A e \in Envelopes : envelope[e].status = "active" =>
        envelope[e].consumed
        + SumFunction([h \in {h \in Holds : hold[h].status = "pending" /\ hold[h].envelope = e}
                          |-> hold[h].reserved])
        <= envelope[e].budget

\* PIP-001 6: "A Human Actor MUST NOT be deleted and MUST NOT be downgraded."
HumansNeverFrozen ==
    \A a \in Actors : Exists(a) /\ actor[a].kind = "human" => actor[a].status = "active"

\* PIP-001 11d: "approve -> skip quote/reserve -> proceed to execute -> settle
\* -> append".
ApprovedHoldSettles ==
    \A h \in Holds : hold[h].status = "approved" ~> Executed(h)
=============================================================================
