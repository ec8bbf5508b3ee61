------------------------------- MODULE Kernel -------------------------------
(***************************************************************************)
(* The committer of punkgo-kernel: runtime/kernel.rs over the tables of    *)
(* state/*.rs.  The daemon serves every connection in a task of its own    *)
(* (daemon/ipc.rs), so many submit_action calls run at once against one    *)
(* SQLite database.  A call is a chain of reads and of transactions with   *)
(* an await between any two of them: an action below is one transaction,   *)
(* or one read together with the local decisions taken on it.  What a task *)
(* has read it keeps in its record and may use when it is no longer true.  *)
(*                                                                         *)
(* Database variables survive a crash; task records do not.                *)
(***************************************************************************)
EXTENDS Integers, Sequences, FiniteSets, EnergyLedger, EnergyProducer, Consent

CONSTANTS
    Actors,        \* actor ids, of actors that exist and that may be created
    Envelopes,     \* envelope ids (fresh UUIDs in the code)
    Holds,         \* hold ids (fresh UUIDs in the code)
    Tasks,         \* one per request a client submits
    Requests,      \* the actions clients submit
    InitActor,     \* the actors table at the start
    InitLedger,    \* the energy_ledger table at the start
    InitEnvelope,  \* the envelopes table at the start
    EnergyPerTick, \* StellarConfig::effective_energy_per_tick
    MaxClock,      \* bound: how far time advances
    MaxTicks,      \* bound: how many production ticks run
    None

VARIABLES
    actor,    \* table actors
    ledger,   \* table energy_ledger
    envelope, \* table envelopes
    hold,     \* table hold_requests
    log,      \* table events, in log_index order, from the start of the model on
    task,     \* the submit_action calls in flight
    producer, \* the energy producer's loop: the shares it has listed, or None
    up,       \* the daemon runs
    clock,    \* wall clock, in units of a hold timeout
    ticks,    \* bound counter: production ticks so far
    minted    \* history: the energy each actor was ever given

db == <<actor, ledger, envelope, hold, log, minted>>
world == <<producer, up, clock, ticks>>
vars == <<actor, ledger, envelope, hold, log, task, producer, up, clock, ticks, minted>>

-----------------------------------------------------------------------------
\* Rows and records.

Entries == [target : Patterns, actions : SUBSET Types]

NoActor == [status |-> "absent"]
ActorRow ==
    [status : {"active", "frozen"}, kind : {"human", "agent"},
     lineage : SUBSET Actors, writable : SUBSET Entries, share : Nat]

NoEnvelope == [status |-> "absent"]
EnvelopeRow ==
    [status : {"active", "expired"}, holder : Actors, budget : Nat, consumed : Nat,
     targets : SUBSET Patterns, actions : SUBSET Types,
     holdOn : SUBSET (Targets \X Types), timeout : Nat,
     expires : Nat \cup {Never}, born : Nat, parent : Envelopes \cup {None}]

NoHold == [status |-> "absent"]
HoldRow ==
    [status : {"pending", "approved", "rejected", "timed_out"},
     envelope : Envelopes, agent : Actors, action : Requests,
     reserved : Nat, triggeredAt : Nat]

\* An i64 of energy, which may come from a payload.
Amount == Int

EventTypes == Types \cup {"hold_request", "hold_response", "hold_timeout"}

\* An event; payer is the actor whose ledger row was settled (the agent of a
\* hold_response is named in its payload), hold the hold it is about, if any.
\* For a re-executed action hold is a history field: the table tells it from
\* others only by the keys in its payload.  selfApproved and selfPriced tell
\* whether the payload had those keys from the client already.
EventRow ==
    [type : EventTypes, target : Targets, actor : Actors, payer : Actors,
     hold : Holds \cup {None}, reserved : Amount, settled : Amount,
     selfApproved : BOOLEAN, selfPriced : BOOLEAN]

Steps == {"new", "check", "lineage", "authorize", "expire_envelope", "list_holds", "expire_holds",
          "trigger", "respond", "list_late", "expire_late", "resolve", "parse",
          "reserve", "finalize", "account", "consume", "lifecycle", "done"}

\* A submit_action call: where it stands, its action, the envelope it has read,
\* the approved hold it re-executes, the holds it still has to expire, what it
\* has reserved, the Halt decision it has taken, the parent of the envelope it
\* creates.
TaskRow ==
    [pc : Steps, action : Requests \cup {None}, envelope : Envelopes \cup {None},
     via : Holds \cup {None}, todo : SUBSET Holds, reserved : Amount,
     halt : BOOLEAN, parent : Envelopes \cup {None}]

NewTask ==
    [pc |-> "new", action |-> None, envelope |-> None, via |-> None, todo |-> {},
     reserved |-> 0, halt |-> FALSE, parent |-> None]

TypeOK ==
    /\ actor \in [Actors -> ActorRow \cup {NoActor}]
    /\ ledger \in [Actors -> Row]
    /\ envelope \in [Envelopes -> EnvelopeRow \cup {NoEnvelope}]
    /\ hold \in [Holds -> HoldRow \cup {NoHold}]
    /\ log \in Seq(EventRow)
    /\ task \in [Tasks -> TaskRow]
    /\ producer # None =>
          DOMAIN producer \subseteq Actors /\ producer \in [DOMAIN producer -> Nat]
    /\ up \in BOOLEAN
    /\ clock \in Nat
    /\ ticks \in Nat
    /\ minted \in [Actors -> Nat]

-----------------------------------------------------------------------------
\* What a request is, by its type, target and payload.

\* parse_hold_response: a mutate of ledger/hold/<id> that carries a decision.
IsHoldResponse(a) == a.type = "mutate" /\ a.target = "ledger/hold" /\ a.arg # None

\* lifecycle.rs parse_lifecycle_op: a mutate of actor/<id> that carries an op.
IsLifecycle(a) == a.type = "mutate" /\ a.target = "actor" /\ a.arg # None

IsCreateActor(a) == a.type = "create" /\ a.target = "ledger/actor"

IsCreateEnvelope(a) == a.type = "create" /\ a.target = "ledger/envelope"

\* validate_execute_payload: only execute payloads are validated.
PayloadValid(a) == a.type = "execute" => a.valid

\* The payload has _hold_approved or an integer _hold_reserved_cost, sent by the
\* client itself.  Nothing refuses these keys, but when the kernel re-executes an
\* approved action it sets both anew.
SelfApproved(row) == row.via = None /\ row.action.approved
SelfPriced(row) == row.via = None /\ row.action.prepaid # None

\* Where a request goes once it is authorised.  A re-executed action skips the
\* reservation: its energy was reserved when the hold was triggered.
AfterParse(via) == IF via # None THEN "finalize" ELSE "reserve"

Route(a, via) ==
    IF IsHoldResponse(a) THEN "respond"
    ELSE IF IsLifecycle(a) \/ IsCreateActor(a) \/ IsCreateEnvelope(a) THEN "parse"
    ELSE AfterParse(via)

\* What deserialisation guarantees of a request.  Any payload may have the keys
\* _hold_approved and _hold_reserved_cost (prepaid, None where it is no integer).
RequestOK(a) ==
    /\ a.actor \in Actors /\ a.type \in Types /\ a.target \in Targets
    /\ a.payloadBytes \in Nat /\ a.outputBytes \in Nat /\ a.valid \in BOOLEAN
    /\ a.approved \in BOOLEAN /\ a.prepaid \in Int \cup {None}
    /\ IsHoldResponse(a) => a.arg.hold \in Holds /\ a.arg.decision \in {"approve", "reject"}
    /\ IsLifecycle(a) =>
          /\ a.arg.subject \in Actors
          /\ a.arg.op \in {"freeze", "unfreeze", "terminate", "update_energy_share"}
          /\ a.arg.share \in Nat
    /\ IsCreateActor(a) =>
          /\ a.arg.id \in Actors /\ a.arg.kind \in {"human", "agent"}
          /\ a.arg.writable \subseteq Entries /\ a.arg.share \in Nat /\ a.arg.energy \in Int
    /\ IsCreateEnvelope(a) =>
          /\ a.arg.holder \in Actors /\ a.arg.budget \in Int
          /\ a.arg.targets \subseteq Patterns /\ a.arg.actions \subseteq Types
          /\ a.arg.holdOn \subseteq Targets \X Types /\ a.arg.timeout \in Nat
          /\ a.arg.duration \in Nat \cup {Never}

ASSUME RequestsAssumption == \A a \in Requests : RequestOK(a)

ASSUME ActorsAssumption == IsFiniteSet(Actors)

ASSUME NoneAssumption ==
    None \notin Envelopes \cup Holds \cup Requests

ASSUME TablesAssumption ==
    /\ InitActor \in [Actors -> ActorRow \cup {NoActor}]
    /\ InitLedger \in [Actors -> Row]
    /\ InitEnvelope \in [Envelopes -> EnvelopeRow \cup {NoEnvelope}]
    /\ \A a \in Actors : InitLedger[a].reserved = 0 /\ InitLedger[a].balance >= 0
    /\ \A e \in Envelopes : InitEnvelope[e] # NoEnvelope =>
          InitEnvelope[e].consumed = 0 /\ InitEnvelope[e].parent = None
    /\ IsFiniteSet({e \in Envelopes : InitEnvelope[e] # NoEnvelope})

ASSUME BoundsAssumption == EnergyPerTick \in Nat /\ MaxClock \in Nat /\ MaxTicks \in Nat

-----------------------------------------------------------------------------
\* Queries.

Exists(a) == actor[a] # NoActor

\* check_lineage_active.
LineageActive(row) == \A b \in row.lineage : Exists(b) /\ actor[b].status = "active"

\* get_active_for_actor: ORDER BY created_at DESC LIMIT 1, ties in any order.
ActiveEnvelopes(a) ==
    {e \in Envelopes : envelope[e].status = "active" /\ envelope[e].holder = a}

NewestActive(a) ==
    {e \in ActiveEnvelopes(a) :
        \A f \in ActiveEnvelopes(a) : envelope[e].born >= envelope[f].born}

\* expire_timed_out_holds: the pending holds of an envelope that are overdue.
OverdueHolds(e) ==
    {h \in Holds : /\ hold[h].status = "pending"
                   /\ hold[h].envelope = e
                   /\ HoldOverdue(envelope[e].timeout, hold[h].triggeredAt, clock)}

\* Fault: the UPDATE of a hold without its "AND status = 'pending'".
StillPendingUnguarded(r) == r # NoHold

\* resolve_hold_request_in_tx updates only WHERE status = 'pending', and fails
\* when it updates no row.
StillPending(r) == r.status = "pending"

\* Fault: the two decisions exchanged.
DecidedSwapped(decision) == IF decision = "approve" THEN "rejected" ELSE "approved"

\* resolve_hold_request_in_tx: the status a decision is stored as.
Decided(decision) == IF decision = "approve" THEN "approved" ELSE "rejected"

\* list_active_with_shares.
ActiveShares ==
    LET S == {a \in Actors : /\ actor[a].status = "active"
                             /\ actor[a].kind = "agent"
                             /\ actor[a].share > 0}
    IN  [a \in S |-> actor[a].share]

\* execute_freeze: the target and its active descendants.
FrozenWith(target) ==
    {target} \cup {b \in Actors : actor[b].status = "active" /\ target \in actor[b].lineage}

-----------------------------------------------------------------------------
\* Steps of a task.

Update(t, row) == task' = [task EXCEPT ![t] = row]

\* submit_action has returned, with a receipt or with an error: nothing of the
\* call is left.
Returned == [NewTask EXCEPT !.pc = "done"]

Return(t) == Update(t, Returned)

At(row, pc) == IF pc = "done" THEN Returned ELSE [row EXCEPT !.pc = pc]

Goto(t, pc) == Update(t, At(task[t], pc))

\* The events about a hold have the target ledger/hold/<id>.
HoldEvent(type, by, agent, h, reserved, settled) ==
    [type |-> type, target |-> "ledger/hold", actor |-> by, payer |-> agent, hold |-> h,
     reserved |-> reserved, settled |-> settled, selfApproved |-> FALSE, selfPriced |-> FALSE]

\* The event of a request: what was reserved is settled in full.
ActionEvent(row) ==
    LET a == row.action IN
    [type |-> a.type, target |-> a.target, actor |-> a.actor, payer |-> a.actor, hold |-> row.via,
     reserved |-> row.reserved, settled |-> row.reserved,
     selfApproved |-> SelfApproved(row), selfPriced |-> SelfPriced(row)]

\* A client's request arrives on a connection of its own.
Submit(t) ==
    /\ task[t].pc = "new"
    /\ \E a \in Requests : Update(t, [task[t] EXCEPT !.pc = "check", !.action = a])
    /\ UNCHANGED db

\* The actor exists, is not frozen, and writes within its boundary.
MayEnter(a) ==
    /\ Exists(a.actor)
    /\ StateChanging(a.type) => actor[a.actor].status # "frozen"
    /\ WithinBoundary(actor[a.actor], a)

\* An observe needs no more; an agent's creators are read next.
AfterCheck(a, via) ==
    IF ~StateChanging(a.type) THEN Route(a, via)
    ELSE IF actor[a.actor].kind = "agent" THEN "lineage"
    ELSE "authorize"

Check(t) ==
    LET a == task[t].action IN
    /\ task[t].pc = "check"
    /\ IF MayEnter(a) THEN Goto(t, AfterCheck(a, task[t].via)) ELSE Return(t)
    /\ UNCHANGED db

\* The creators of an agent are active (its lineage never changes).
CheckLineage(t) ==
    /\ task[t].pc = "lineage"
    /\ IF LineageActive(actor[task[t].action.actor]) THEN Goto(t, "authorize") ELSE Return(t)
    /\ UNCHANGED db

\* Fault: one approval under an envelope lifts its hold_on rules.
AfterAuthorizeLenient(t, e) ==
    IF /\ task[t].via = None /\ ~SelfApproved(task[t])
       /\ HoldTriggered(envelope[e], task[t].action)
       /\ ~\E h \in Holds : hold[h].status = "approved" /\ hold[h].envelope = e
    THEN "trigger"
    ELSE Route(task[t].action, task[t].via)

\* Where an agent's request goes with an envelope that covers it.  A payload with
\* _hold_approved skips the hold check, whoever set it.
AfterAuthorize(t, e) ==
    IF /\ task[t].via = None /\ ~SelfApproved(task[t])
       /\ HoldTriggered(envelope[e], task[t].action)
    THEN "trigger"
    ELSE Route(task[t].action, task[t].via)

\* The envelope is read once; a human needs none, an agent needs one that is
\* active, not past its time, and covers the action.
Authorize(t) ==
    LET a == task[t].action
        human == actor[a.actor].kind = "human"
        withEnvelope(e, pc) == Update(t, [task[t] EXCEPT !.pc = pc, !.envelope = e])
    IN
    /\ task[t].pc = "authorize"
    /\ \/ /\ NewestActive(a.actor) = {}
          /\ IF human THEN Goto(t, Route(a, task[t].via)) ELSE Return(t)
       \/ \E e \in NewestActive(a.actor) :
            IF EnvelopeExpired(envelope[e], clock) THEN withEnvelope(e, "expire_envelope")
            ELSE IF human THEN Goto(t, Route(a, task[t].via))
            ELSE IF ~EnvelopeCovers(envelope[e], a) THEN Return(t)
            ELSE IF envelope[e].holdOn # {} /\ envelope[e].timeout > 0
                 THEN withEnvelope(e, "list_holds")
            ELSE withEnvelope(e, AfterAuthorize(t, e))
    /\ UNCHANGED db

\* The lazy expiry of an envelope is a transaction of its own; the request then
\* goes on without an envelope.
ExpireEnvelope(t) ==
    LET a == task[t].action IN
    /\ task[t].pc = "expire_envelope"
    /\ envelope' = [envelope EXCEPT ![task[t].envelope].status = "expired"]
    /\ IF actor[a.actor].kind = "human" THEN Goto(t, Route(a, task[t].via)) ELSE Return(t)
    /\ UNCHANGED <<actor, ledger, hold, log, minted>>

\* expire_timed_out_holds reads the overdue holds of an envelope once ...
ListHolds(t) ==
    LET late  == task[t].pc = "list_late"
        e     == IF late THEN hold[task[t].action.arg.hold].envelope ELSE task[t].envelope
        todo  == OverdueHolds(e)
        after == IF late THEN "done" ELSE AfterAuthorize(t, e)
        pc    == IF todo = {} THEN after ELSE IF late THEN "expire_late" ELSE "expire_holds"
    IN
    /\ task[t].pc \in {"list_holds", "list_late"}
    /\ Update(t, At([task[t] EXCEPT !.todo = todo], pc))
    /\ UNCHANGED db

\* Fault: a hold that was resolved meanwhile is tried again.
ExpireHoldRetry(t) ==
    LET late == task[t].pc = "expire_late" IN
    /\ task[t].pc \in {"expire_holds", "expire_late"}
    /\ \E h \in task[t].todo :
        LET r     == hold[h]
            cost  == CommitmentCost(r.reserved)
            todo  == task[t].todo \ {h}
            after == IF late THEN "done" ELSE AfterAuthorize(t, task[t].envelope)
        IN
        /\ StillPending(r)
        /\ hold' = [hold EXCEPT ![h].status = "timed_out"]
        /\ ledger' = [ledger EXCEPT ![r.agent] = Settle(@, r.reserved, cost)]
        /\ log' = Append(log, HoldEvent("hold_timeout", r.agent, r.agent, h, r.reserved, cost))
        /\ Update(t, At([task[t] EXCEPT !.todo = todo], IF todo = {} THEN after ELSE task[t].pc))
        /\ UNCHANGED <<actor, envelope, minted>>

\* ... and expires them oldest first, each in a transaction of its own.  A hold
\* that was resolved meanwhile fails the transaction and the whole request.
ExpireHold(t) ==
    LET late == task[t].pc = "expire_late" IN
    /\ task[t].pc \in {"expire_holds", "expire_late"}
    /\ \E h \in task[t].todo :
        LET r     == hold[h]
            cost  == CommitmentCost(r.reserved)
            todo  == task[t].todo \ {h}
            after == IF late THEN "done" ELSE AfterAuthorize(t, task[t].envelope)
        IN
        /\ \A g \in task[t].todo : r.triggeredAt <= hold[g].triggeredAt
        /\ IF StillPending(r) /\ CanSettle(ledger[r.agent], r.reserved, cost)
           THEN /\ hold' = [hold EXCEPT ![h].status = "timed_out"]
                /\ ledger' = [ledger EXCEPT ![r.agent] = Settle(@, r.reserved, cost)]
                /\ log' = Append(log,
                      HoldEvent("hold_timeout", r.agent, r.agent, h, r.reserved, cost))
                /\ Update(t, At([task[t] EXCEPT !.todo = todo],
                                IF todo = {} THEN after ELSE task[t].pc))
                /\ UNCHANGED <<actor, envelope, minted>>
           ELSE Return(t) /\ UNCHANGED db

\* One transaction: reserve, hold_request event, hold row.  The request ends
\* with HoldTriggered; the envelope stays active.
Trigger(t) ==
    LET a == task[t].action
        cost == QuoteCost(a)
    IN
    /\ task[t].pc = "trigger"
    /\ Return(t)
    /\ IF CanReserve(ledger[a.actor], cost)
       THEN \E h \in Holds :
            /\ hold[h] = NoHold
            /\ hold' = [hold EXCEPT ![h] =
                  [status |-> "pending", envelope |-> task[t].envelope, agent |-> a.actor,
                   action |-> a, reserved |-> cost, triggeredAt |-> clock]]
            /\ ledger' = [ledger EXCEPT ![a.actor] = Reserve(@, cost)]
            /\ log' = Append(log, HoldEvent("hold_request", a.actor, a.actor, h, cost, 0))
            /\ UNCHANGED <<actor, envelope, minted>>
       ELSE UNCHANGED db

\* execute_hold_response, up to its transaction: a human, a pending hold, and
\* the hold's own timeout.
Respond(t) ==
    LET a == task[t].action
        r == hold[a.arg.hold]
    IN
    /\ task[t].pc = "respond"
    /\ IF actor[a.actor].kind # "human" \/ r.status # "pending" THEN Return(t)
       ELSE IF HoldOverdue(envelope[r.envelope].timeout, r.triggeredAt, clock)
            THEN Goto(t, "list_late")
       ELSE Goto(t, "resolve")
    /\ UNCHANGED db

\* When the envelope of the hold cannot be read, its timeout is not looked at.
SkipTimeout(t) ==
    LET a == task[t].action IN
    /\ task[t].pc = "respond"
    /\ actor[a.actor].kind = "human"
    /\ hold[a.arg.hold].status = "pending"
    /\ Goto(t, "resolve")
    /\ UNCHANGED db

\* execute_hold_response, the transaction, guarded by the hold still being
\* pending.  A reject settles the commitment cost; an approve settles nothing
\* and the same task then submits the pending action, marked with the hold and
\* with the energy that was reserved for it.
Resolve(t) ==
    LET a == task[t].action
        h == a.arg.hold
        r == hold[h]
        reject == a.arg.decision = "reject"
        cost == IF reject THEN CommitmentCost(r.reserved) ELSE 0
    IN
    /\ task[t].pc = "resolve"
    /\ IF StillPending(r) /\ (reject => CanSettle(ledger[r.agent], r.reserved, cost))
       THEN /\ hold' = [hold EXCEPT ![h].status = Decided(a.arg.decision)]
            /\ ledger' = IF reject
                         THEN [ledger EXCEPT ![r.agent] = Settle(@, r.reserved, cost)]
                         ELSE ledger
            /\ log' = Append(log, HoldEvent("hold_response", a.actor, r.agent, h, r.reserved, cost))
            /\ IF reject THEN Return(t)
               ELSE Update(t, [NewTask EXCEPT !.pc = "check", !.action = r.action,
                                              !.via = h, !.reserved = r.reserved])
            /\ UNCHANGED <<actor, envelope, minted>>
       ELSE Return(t) /\ UNCHANGED db

\* validate_lifecycle_authorization: a human, on an agent of its lineage.
LifecycleAllowed(a) ==
    /\ Exists(a.arg.subject)
    /\ actor[a.arg.subject].kind = "agent"
    /\ actor[a.actor].kind = "human"
    /\ a.actor \in actor[a.arg.subject].lineage

\* parse_create_actor_spec: agents create no agents, and no creator grants
\* more than it may write itself.
CreateActorAllowed(a) ==
    /\ ~(actor[a.actor].kind = "agent" /\ a.arg.kind = "agent")
    /\ ChildWithinParent(actor[a.actor], a.arg)

\* Fault: any budget is accepted.
SpecValidAnyBudget(spec) == TRUE

\* parse_create_envelope_spec: the budget must be positive.
SpecValid(spec) == spec.budget > 0

\* Lifecycle authorisation and the specs of what the action creates, read
\* before the reservation.  A grantor that holds an envelope itself can only
\* pass on a reduction of it.
Parse(t) ==
    LET a == task[t].action
        next == AfterParse(task[t].via)
    IN
    /\ task[t].pc = "parse"
    /\ \/ /\ IsLifecycle(a)
          /\ Goto(t, IF LifecycleAllowed(a) THEN next ELSE "done")
       \/ /\ IsCreateActor(a)
          /\ Goto(t, IF CreateActorAllowed(a) THEN next ELSE "done")
       \/ /\ IsCreateEnvelope(a)
          /\ NewestActive(a.actor) = {}
          /\ Goto(t, IF SpecValid(a.arg) THEN next ELSE "done")
       \/ /\ IsCreateEnvelope(a)
          /\ \E p \in NewestActive(a.actor) :
                IF SpecValid(a.arg) /\ ReducesEnvelope(envelope[p], a.arg)
                THEN Update(t, [task[t] EXCEPT !.pc = next, !.parent = p])
                ELSE Return(t)
    /\ UNCHANGED db

\* QUOTE and RESERVE, committed before anything else is.
ReserveEnergy(t) ==
    LET a == task[t].action
        cost == QuoteCost(a)
    IN
    /\ task[t].pc = "reserve"
    /\ ~SelfPriced(task[t])
    /\ IF CanReserve(ledger[a.actor], cost)
       THEN /\ ledger' = [ledger EXCEPT ![a.actor] = Reserve(@, cost)]
            /\ Update(t, [task[t] EXCEPT !.pc = "finalize", !.reserved = cost])
            /\ UNCHANGED <<actor, envelope, hold, log, minted>>
       ELSE Return(t) /\ UNCHANGED db

\* A payload with _hold_reserved_cost is taken to be paid for: its amount becomes
\* a reservation (none, unless positive) that the ledger was not asked for.
TakePrepaid(t) ==
    /\ task[t].pc = "reserve"
    /\ SelfPriced(task[t])
    /\ Update(t, [task[t] EXCEPT !.pc = "finalize", !.reserved = task[t].action.prepaid])
    /\ UNCHANGED db

\* Fault: the refused request is charged to the envelope all the same.
RejectPayloadCharged(t) ==
    /\ task[t].pc = "finalize"
    /\ ~PayloadValid(task[t].action)
    /\ Goto(t, "account")
    /\ UNCHANGED db

\* An execute payload is validated only now; the error returns at once and the
\* reservation stays in the ledger.
RejectPayload(t) ==
    /\ task[t].pc = "finalize"
    /\ ~PayloadValid(task[t].action)
    /\ Return(t)
    /\ UNCHANGED db

\* The row that a ledger/actor action inserts.
NewActor(a) ==
    [status |-> "active", kind |-> a.arg.kind, lineage |-> {a.actor},
     writable |-> a.arg.writable, share |-> a.arg.share]

\* The row that a ledger/envelope action inserts.
GrantedEnvelope(a, parent) ==
    [status |-> "active", holder |-> a.arg.holder, budget |-> a.arg.budget, consumed |-> 0,
     targets |-> a.arg.targets, actions |-> a.arg.actions, holdOn |-> a.arg.holdOn,
     timeout |-> a.arg.timeout,
     expires |-> IF a.arg.duration = Never THEN Never ELSE clock + a.arg.duration,
     born |-> clock, parent |-> parent]

\* Where a committed request goes on: the budget of an agent's envelope, then
\* the lifecycle operation.
AfterBudget(a) == IF IsLifecycle(a) THEN "lifecycle" ELSE "done"

AfterCommit(a, cost) ==
    IF StateChanging(a.type) /\ cost > 0 /\ actor[a.actor].kind = "agent" THEN "account"
    ELSE AfterBudget(a)

\* finalize_energy_and_event, one transaction: settle what was reserved, if
\* anything, insert the actor or the envelope, append the event.
Finalize(t) ==
    LET a == task[t].action
        cost == task[t].reserved
        settled == IF cost > 0 THEN [ledger EXCEPT ![a.actor] = Settle(@, cost, cost)] ELSE ledger
        creatable == IsCreateActor(a) => a.arg.energy >= 0 /\ ~Exists(a.arg.id)
    IN
    /\ task[t].pc = "finalize"
    /\ PayloadValid(a)
    /\ IF (cost > 0 => CanSettle(ledger[a.actor], cost, cost)) /\ creatable
       THEN /\ IF IsCreateActor(a)
               THEN /\ ledger' = [settled EXCEPT ![a.arg.id] = NewAccount(a.arg.energy)]
                    /\ actor' = [actor EXCEPT ![a.arg.id] = NewActor(a)]
                    /\ minted' = [minted EXCEPT ![a.arg.id] = a.arg.energy]
               ELSE ledger' = settled /\ UNCHANGED <<actor, minted>>
            /\ IF IsCreateEnvelope(a)
               THEN \E e \in Envelopes :
                      /\ envelope[e] = NoEnvelope
                      /\ envelope' = [envelope EXCEPT ![e] = GrantedEnvelope(a, task[t].parent)]
               ELSE UNCHANGED envelope
            /\ log' = Append(log, ActionEvent(task[t]))
            /\ Goto(t, AfterCommit(a, cost))
            /\ UNCHANGED hold
       ELSE Return(t) /\ UNCHANGED db

\* After the commit, the envelope that is active NOW is read and the Halt
\* decision taken on what was read.
Account(t) ==
    LET a == task[t].action IN
    /\ task[t].pc = "account"
    /\ \/ NewestActive(a.actor) = {} /\ Goto(t, AfterBudget(a))
       \/ \E e \in NewestActive(a.actor) :
            Update(t, [task[t] EXCEPT !.pc = "consume", !.envelope = e,
                                      !.halt = HaltDue(envelope[e], task[t].reserved)])
    /\ UNCHANGED db

\* consume_budget_in_tx: a charge beyond the budget is refused, with a warning
\* and without a Halt; the event stays committed.
Consume(t) ==
    LET e == task[t].envelope
        consumed == envelope[e].consumed + task[t].reserved
    IN
    /\ task[t].pc = "consume"
    /\ Goto(t, AfterBudget(task[t].action))
    /\ envelope' =
          IF consumed > envelope[e].budget THEN envelope
          ELSE [envelope EXCEPT ![e].consumed = consumed,
                                ![e].status = IF task[t].halt THEN "expired" ELSE @]
    /\ UNCHANGED <<actor, ledger, hold, log, minted>>

\* When the actor, the envelope or the charge fails in the database, the error is
\* swallowed or logged: the request goes on without a charge.
SkipBudget(t) ==
    /\ task[t].pc \in {"account", "consume"}
    /\ Goto(t, AfterBudget(task[t].action))
    /\ UNCHANGED db

\* The lifecycle operation, in a transaction of its own after the event.
Lifecycle(t) ==
    LET arg == task[t].action.arg IN
    /\ task[t].pc = "lifecycle"
    /\ Return(t)
    /\ actor' =
          CASE arg.op \in {"freeze", "terminate"} ->
                 [b \in Actors |-> IF b \in FrozenWith(arg.subject)
                                   THEN [actor[b] EXCEPT !.status = "frozen"] ELSE actor[b]]
            [] arg.op = "unfreeze" -> [actor EXCEPT ![arg.subject].status = "active"]
            [] OTHER -> [actor EXCEPT ![arg.subject].share = arg.share]
    /\ UNCHANGED <<ledger, envelope, hold, log, minted>>

\* Any database call may fail (SQLITE_BUSY, I/O): the transaction rolls back
\* and the error ends the request.
Abort(t) ==
    /\ task[t].pc \notin {"new", "done"}
    /\ Return(t)
    /\ UNCHANGED db

-----------------------------------------------------------------------------
\* The energy producer, the clock, crashes.

\* produce_tick reads the active agents and their shares ...
ListShares ==
    /\ up /\ producer = None /\ ticks < MaxTicks
    /\ ticks' = ticks + 1
    /\ producer' = IF DOMAIN ActiveShares = {} THEN None ELSE ActiveShares
    /\ UNCHANGED <<db, task, up, clock>>

\* ... and credits them all in one transaction (or fails, and waits for the
\* next tick).
CreditShares ==
    /\ up /\ producer # None
    /\ producer' = None
    /\ \E credit \in Allocations(EnergyPerTick, producer) :
        LET given(a) == IF a \in DOMAIN credit THEN credit[a] ELSE 0 IN
        /\ ledger' = [a \in Actors |-> Credit(ledger[a], given(a))]
        /\ minted' = [a \in Actors |-> minted[a] + given(a)]
    /\ UNCHANGED <<actor, envelope, hold, log, task, up, clock, ticks>>

CreditFails ==
    /\ up /\ producer # None
    /\ producer' = None
    /\ UNCHANGED <<db, task, up, clock, ticks>>

Elapse ==
    /\ clock < MaxClock
    /\ clock' = clock + 1
    /\ UNCHANGED <<db, task, producer, up, ticks>>

\* The process ends between two transactions: SQLite keeps what was committed,
\* every call in flight is gone.
Crash ==
    /\ up
    /\ up' = FALSE
    /\ producer' = None
    /\ task' = [t \in Tasks |-> IF task[t].pc = "new" THEN task[t] ELSE Returned]
    /\ UNCHANGED <<db, clock, ticks>>

\* run_startup_integrity_checks: the ledger rows, then the events.
EventPasses(event) ==
    /\ event.type \in EventTypes
    /\ event.type \in {"mutate", "execute"} => event.reserved > 0 /\ event.settled > 0
    /\ event.reserved >= 0 /\ event.settled >= 0

StartupChecks ==
    /\ \A a \in Actors : Consistent(ledger[a])
    /\ \A i \in DOMAIN log : EventPasses(log[i])

\* A new daemon on the same state directory; it refuses to start on a database
\* that fails the checks.
Restart ==
    /\ ~up
    /\ StartupChecks
    /\ up' = TRUE
    /\ UNCHANGED <<db, task, producer, clock, ticks>>

-----------------------------------------------------------------------------
\* The steps of a request that its own task takes ...
Progress(t) ==
    \/ Check(t) \/ CheckLineage(t) \/ Authorize(t) \/ ExpireEnvelope(t)
    \/ ListHolds(t) \/ ExpireHold(t)
    \/ Trigger(t) \/ Respond(t) \/ Resolve(t) \/ Parse(t) \/ ReserveEnergy(t) \/ TakePrepaid(t)
    \/ RejectPayload(t) \/ Finalize(t) \/ Account(t) \/ Consume(t) \/ Lifecycle(t)

TaskStep(t) == up /\ Progress(t) /\ UNCHANGED world

\* ... and those that a client or a failing database call makes it take.
ClientStep(t) ==
    up /\ (Submit(t) \/ Abort(t) \/ SkipTimeout(t) \/ SkipBudget(t)) /\ UNCHANGED world

System == ListShares \/ CreditShares \/ CreditFails \/ Elapse \/ Crash \/ Restart

Next == System \/ \E t \in Tasks : TaskStep(t) \/ ClientStep(t)

Init ==
    /\ actor = InitActor
    /\ ledger = InitLedger
    /\ envelope = InitEnvelope
    /\ hold = [h \in Holds |-> NoHold]
    /\ log = <<>>
    /\ task = [t \in Tasks |-> NewTask]
    /\ producer = None
    /\ up = TRUE
    /\ clock = 0
    /\ ticks = 0
    /\ minted = [a \in Actors |-> InitLedger[a].balance]

Spec == Init /\ [][Next]_vars

\* The runtime polls every task until its call returns.
Fairness == \A t \in Tasks : WF_vars(TaskStep(t))

FairSpec == Spec /\ Fairness
=============================================================================
