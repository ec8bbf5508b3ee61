---------------------------- MODULE LedgerProofs ----------------------------
(***************************************************************************)
(* The ledger.  In every reachable state the database passes the queries   *)
(* of run_startup_integrity_checks, but for events that a client priced    *)
(* itself at nothing; every balance is what was given less what events     *)
(* took; what is reserved covers what pending holds and requests in flight *)
(* will settle, up to what self-priced requests of the same actor took; so *)
(* without those no settlement fails; and envelopes are charged no more    *)
(* than was settled.                                                       *)
(***************************************************************************)
EXTENDS HoldProofs

\* The two halves of StartupChecksPass.
LedgerSound == \A a \in Actors : Consistent(ledger[a])

Paid(event) == EventPasses(event) \/ (event.selfPriced /\ event.settled <= 0)

LogPaid == \A i \in DOMAIN log : Paid(log[i])

SInv == LedgerSound /\ LogPaid

\* StartupChecksPass is the ledger part and the log part of SInv.
LEMMA StartupParts == StartupChecksPass <=> SInv
BY DEF StartupChecksPass, SInv, LedgerSound, LogPaid, Paid

\* A pending hold has a row.
LEMMA PendingRow ==
    ASSUME TInv, NEW h \in Holds, StillPending(hold[h])
    PROVE  hold[h] \in HoldRow /\ hold[h].agent \in Actors /\ hold[h].reserved \in Nat
<1>1. hold[h] \in HoldRow \cup {NoHold}
    BY DEF TInv, TypeOK
<1>2. hold[h] # NoHold
    BY DEF StillPending, NoHold
<1> QED
    BY <1>1, <1>2 DEF HoldRow

\* A hold's own events are neither mutate nor execute and have no negative
\* amounts.
LEMMA HoldEventRow ==
    ASSUME NEW type \in {"hold_request", "hold_response", "hold_timeout"},
           NEW by \in Actors, NEW agent \in Actors, NEW h \in Holds,
           NEW reserved \in Nat, NEW settled \in Nat
    PROVE  /\ HoldEvent(type, by, agent, h, reserved, settled) \in EventRow
           /\ Paid(HoldEvent(type, by, agent, h, reserved, settled))
           /\ HoldEvent(type, by, agent, h, reserved, settled).payer = agent
           /\ HoldEvent(type, by, agent, h, reserved, settled).settled = settled
<1>1. reserved \in Amount /\ settled \in Amount
    BY DEF Amount
<1> QED
    BY <1>1 DEF HoldEvent, EventRow, EventTypes, Targets, Paid, EventPasses

\* The event of a commit: one that took nothing was priced by its client.
LEMMA ActionEventPaid ==
    ASSUME NEW r \in TaskRow, r.action # None, r.reserved > 0 \/ SelfPriced(r)
    PROVE  Paid(ActionEvent(r))
<1>1. r.action \in Requests /\ r.reserved \in Int
    BY DEF TaskRow, Amount
<1>2. r.action.type \in Types
    BY <1>1, RequestsAssumption DEF RequestOK
<1>3. /\ ActionEvent(r).type = r.action.type
      /\ ActionEvent(r).reserved = r.reserved /\ ActionEvent(r).settled = r.reserved
      /\ ActionEvent(r).selfPriced = SelfPriced(r)
    BY DEF ActionEvent
<1>4. CASE r.reserved > 0
    BY <1>1, <1>2, <1>3, <1>4 DEF Paid, EventPasses, EventTypes
<1>5. CASE ~(r.reserved > 0)
    BY <1>1, <1>3, <1>5 DEF Paid
<1> QED
    BY <1>4, <1>5

\* Appending a paid event.
LEMMA LogGrows ==
    ASSUME log \in Seq(EventRow), LogPaid, NEW event \in EventRow, Paid(event),
           log' = Append(log, event)
    PROVE  LogPaid'
<1>1. \A i \in DOMAIN log' : (i \in DOMAIN log /\ log'[i] = log[i]) \/ log'[i] = event
    OBVIOUS
<1>2. ASSUME NEW i \in DOMAIN log' PROVE Paid(log'[i])
    BY <1>1, <1>2 DEF LogPaid
<1> QED
    BY <1>2 DEF LogPaid

\* Settling one row of a sound ledger.
LEMMA SettledSound ==
    ASSUME ledger \in [Actors -> Row], LedgerSound, NEW a \in Actors,
           NEW reserved \in Nat, NEW actual \in Nat, actual <= reserved,
           CanSettle(ledger[a], reserved, actual),
           ledger' = [ledger EXCEPT ![a] = Settle(@, reserved, actual)]
    PROVE  LedgerSound'
<1>1. Consistent(Settle(ledger[a], reserved, actual))
    BY SettleConsistent DEF LedgerSound
<1>2. ASSUME NEW b \in Actors PROVE Consistent(ledger'[b])
    BY <1>1 DEF LedgerSound
<1> QED
    BY <1>2 DEF LedgerSound

\* Reserving from one row of a sound ledger.
LEMMA ReservedSound ==
    ASSUME ledger \in [Actors -> Row], LedgerSound, NEW a \in Actors, NEW cost \in Nat,
           CanReserve(ledger[a], cost), ledger' = [ledger EXCEPT ![a] = Reserve(@, cost)]
    PROVE  LedgerSound'
<1>1. Consistent(Reserve(ledger[a], cost))
    BY ReserveConsistent DEF LedgerSound
<1>2. ASSUME NEW b \in Actors PROVE Consistent(ledger'[b])
    BY <1>1 DEF LedgerSound
<1> QED
    BY <1>2 DEF LedgerSound

\* Steps that write neither the ledger nor the log.
LEMMA Quiet ==
    ASSUME SInv, UNCHANGED <<ledger, log>>
    PROVE  SInv'
BY DEF SInv, LedgerSound, LogPaid

\* The timeout of a hold keeps the ledger sound and logs a paid event.
LEMMA ExpireHoldSound ==
    ASSUME TInv, SInv, NEW t \in Tasks, ExpireHold(t)
    PROVE  SInv'
<1>1. CASE UNCHANGED db
    BY <1>1, Quiet DEF db
<1>2. ASSUME NEW h \in task[t].todo,
             StillPending(hold[h]),
             CanSettle(ledger[hold[h].agent], hold[h].reserved, CommitmentCost(hold[h].reserved)),
             ledger' = [ledger EXCEPT ![hold[h].agent] =
                           Settle(@, hold[h].reserved, CommitmentCost(hold[h].reserved))],
             log' = Append(log, HoldEvent("hold_timeout", hold[h].agent, hold[h].agent, h,
                                          hold[h].reserved, CommitmentCost(hold[h].reserved)))
      PROVE  SInv'
    <2>1. h \in Holds
        BY DEF TInv, TypeOK, TaskRow
    <2>2. hold[h].agent \in Actors /\ hold[h].reserved \in Nat
        BY <1>2, <2>1 DEF TInv, TypeOK, StillPending, NoHold, HoldRow
    <2>3. /\ CommitmentCost(hold[h].reserved) \in Nat
          /\ CommitmentCost(hold[h].reserved) <= hold[h].reserved
        BY <2>2, CommitmentBounded
    <2>4. LedgerSound'
        BY <1>2, <2>2, <2>3, SettledSound DEF TInv, TypeOK, SInv
    <2> DEFINE event == HoldEvent("hold_timeout", hold[h].agent, hold[h].agent, h,
                                  hold[h].reserved, CommitmentCost(hold[h].reserved))
    <2>5. event \in EventRow /\ Paid(event)
        BY <2>1, <2>2, <2>3, HoldEventRow
    <2>6. log' = Append(log, event)
        BY <1>2
    <2> HIDE DEF event
    <2>7. LogPaid'
        BY <2>5, <2>6, LogGrows DEF TInv, TypeOK, SInv
    <2> QED
        BY <2>4, <2>7 DEF SInv
<1> QED
    BY <1>1, <1>2 DEF ExpireHold

\* The resolution of a hold keeps the ledger sound.
LEMMA ResolveSound ==
    ASSUME TInv, SInv, NEW t \in Tasks, Resolve(t)
    PROVE  SInv'
<1> DEFINE a == task[t].action
           h == a.arg.hold
           r == hold[h]
           reject == a.arg.decision = "reject"
           cost == IF reject THEN CommitmentCost(r.reserved) ELSE 0
           event == HoldEvent("hold_response", a.actor, r.agent, h, r.reserved, cost)
<1>1. CASE UNCHANGED db
    BY <1>1, Quiet DEF db
<1>2. ASSUME StillPending(r),
             reject => CanSettle(ledger[r.agent], r.reserved, cost),
             ledger' = IF reject THEN [ledger EXCEPT ![r.agent] = Settle(@, r.reserved, cost)]
                       ELSE ledger,
             log' = Append(log, event)
      PROVE  SInv'
    <2>1. a \in Requests /\ IsHoldResponse(a)
        BY DEF TInv, TypeOK, TasksOK, Resolve, TaskOK, TaskRow
    <2>2. a.actor \in Actors /\ h \in Holds
        BY <2>1, RequestsAssumption DEF RequestOK
    <2>3. r.agent \in Actors /\ r.reserved \in Nat
        BY <1>2, <2>2, PendingRow
    <2>4. cost \in Nat /\ cost <= r.reserved
        BY <2>3, CommitmentBounded
    <2> HIDE DEF cost, r, reject
    <2>5. LedgerSound'
        <3>1. CASE reject
            BY <1>2, <2>3, <2>4, <3>1, SettledSound DEF TInv, TypeOK, SInv
        <3>2. CASE ~reject
            BY <1>2, <3>2 DEF SInv, LedgerSound
        <3> QED
            BY <3>1, <3>2
    <2>6. event \in EventRow /\ Paid(event)
        <3>1. "hold_response" \in {"hold_request", "hold_response", "hold_timeout"}
            OBVIOUS
        <3> HIDE DEF a, h
        <3> QED
            BY <2>2, <2>3, <2>4, <3>1, HoldEventRow
    <2> HIDE DEF event
    <2>7. LogPaid'
        BY <1>2, <2>6, LogGrows DEF TInv, TypeOK, SInv
    <2> QED
        BY <2>5, <2>7 DEF SInv
<1> QED
    BY <1>1, <1>2 DEF Resolve

\* Reservations, of a hold or of a request, keep the ledger sound.
LEMMA ReservationSound ==
    ASSUME TInv, SInv, NEW t \in Tasks, Trigger(t) \/ ReserveEnergy(t)
    PROVE  SInv'
<1> DEFINE a == task[t].action
           cost == QuoteCost(a)
<1>1. a \in Requests
    BY DEF TInv, TypeOK, TasksOK, TaskOK, TaskRow, Trigger, ReserveEnergy
<1>2. a.actor \in Actors
    BY <1>1, RequestsAssumption DEF RequestOK
<1>3. cost \in Nat /\ cost > 0
    BY <1>1, QuotePositive
<1>4. CASE UNCHANGED db
    BY <1>4, Quiet DEF db
<1>5. ASSUME CanReserve(ledger[a.actor], cost),
             ledger' = [ledger EXCEPT ![a.actor] = Reserve(@, cost)]
      PROVE  LedgerSound'
    <2> HIDE DEF cost
    <2> QED
        BY <1>2, <1>3, <1>5, ReservedSound DEF TInv, TypeOK, SInv
<1>6. ASSUME NEW h \in Holds,
             log' = Append(log, HoldEvent("hold_request", a.actor, a.actor, h, cost, 0))
      PROVE  LogPaid'
    <2> DEFINE event == HoldEvent("hold_request", a.actor, a.actor, h, cost, 0)
    <2> HIDE DEF cost
    <2>1. event \in EventRow /\ Paid(event)
        BY <1>2, <1>3, HoldEventRow
    <2>2. log' = Append(log, event)
        BY <1>6
    <2> HIDE DEF event
    <2> QED
        BY <2>1, <2>2, LogGrows DEF TInv, TypeOK, SInv
<1>7. CASE Trigger(t)
    BY <1>4, <1>5, <1>6, <1>7 DEF Trigger, SInv
<1>8. CASE ReserveEnergy(t)
    BY <1>4, <1>5, <1>8 DEF ReserveEnergy, SInv, LogPaid
<1> QED
    BY <1>7, <1>8

\* A commit settles what was reserved, if anything, and a mutate or an execute
\* has paid unless its client priced it.
LEMMA FinalizeSound ==
    ASSUME TInv, SInv, NEW t \in Tasks, Finalize(t)
    PROVE  SInv'
<1> DEFINE a == task[t].action
           cost == task[t].reserved
           settled == IF cost > 0 THEN [ledger EXCEPT ![a.actor] = Settle(@, cost, cost)] ELSE ledger
           event == ActionEvent(task[t])
<1>1. CASE UNCHANGED db
    BY <1>1, Quiet DEF db
<1>2. ASSUME cost > 0 => CanSettle(ledger[a.actor], cost, cost),
             IsCreateActor(a) => a.arg.energy >= 0,
             ledger' = IF IsCreateActor(a)
                       THEN [settled EXCEPT ![a.arg.id] = NewAccount(a.arg.energy)] ELSE settled,
             log' = Append(log, event)
      PROVE  SInv'
    <2>0. task[t] \in TaskRow /\ TaskOK(task[t], actor, envelope)
        BY DEF TInv, TypeOK, TasksOK
    <2>1. /\ a \in Requests /\ a # None /\ cost \in Int
          /\ cost > 0 \/ SelfPriced(task[t])
        BY <2>0 DEF Finalize, TaskOK, TaskRow, Amount
    <2>2. RequestOK(a)
        BY <2>1, RequestsAssumption
    <2>3. a.actor \in Actors
        BY <2>2 DEF RequestOK
    <2>4. settled \in [Actors -> Row] /\ \A b \in Actors : Consistent(settled[b])
        <3>0. ledger \in [Actors -> Row] /\ \A b \in Actors : Consistent(ledger[b])
            BY DEF TInv, TypeOK, SInv, LedgerSound
        <3>1. CASE cost > 0
            <4>1. /\ Settle(ledger[a.actor], cost, cost) \in Row
                  /\ Consistent(Settle(ledger[a.actor], cost, cost))
                BY <1>2, <2>1, <2>3, <3>0, <3>1, SettleConsistent
            <4> QED
                BY <2>3, <3>0, <3>1, <4>1
        <3> QED
            BY <3>0, <3>1
    <2>5. LedgerSound'
        <3> HIDE DEF settled
        <3>1. CASE IsCreateActor(a)
            <4>1. Consistent(NewAccount(a.arg.energy))
                BY <1>2, <2>2, <3>1 DEF RequestOK, NewAccount, Consistent
            <4> QED
                BY <1>2, <2>4, <3>1, <4>1 DEF LedgerSound
        <3>2. CASE ~IsCreateActor(a)
            BY <1>2, <2>4, <3>2 DEF LedgerSound
        <3> QED
            BY <3>1, <3>2
    <2>6. event \in EventRow /\ Paid(event)
        BY <2>0, <2>1, ActionEventType, ActionEventPaid
    <2> HIDE DEF event
    <2>7. LogPaid'
        BY <1>2, <2>6, LogGrows DEF TInv, TypeOK, SInv
    <2> QED
        BY <2>5, <2>7 DEF SInv
<1> QED
    BY <1>1, <1>2 DEF Finalize

\* What a tick credits to an actor is a natural number.
LEMMA CreditGiven ==
    ASSUME TInv, CreditShares, NEW credit \in Allocations(EnergyPerTick, producer), NEW a \in Actors
    PROVE  (IF a \in DOMAIN credit THEN credit[a] ELSE 0) \in Nat
<1>1. IsFiniteSet(DOMAIN producer)
    BY ActorsAssumption, FS_Subset DEF TInv, TypeOK, CreditShares
<1> QED
    BY <1>1, AllocationType, BoundsAssumption

\* A production tick keeps the ledger sound.
LEMMA CreditSound ==
    ASSUME TInv, SInv, CreditShares
    PROVE  SInv'
<1> DEFINE given(credit, a) == IF a \in DOMAIN credit THEN credit[a] ELSE 0
<1>1. PICK credit \in Allocations(EnergyPerTick, producer) :
         ledger' = [a \in Actors |-> Credit(ledger[a], given(credit, a))]
    BY Zenon DEF CreditShares
<1>2. \A a \in Actors : given(credit, a) \in Nat
    BY CreditGiven
<1> HIDE DEF given
<1>3. ASSUME NEW a \in Actors PROVE Consistent(ledger'[a])
    <2>1. ledger[a] \in Row /\ Consistent(ledger[a]) /\ given(credit, a) \in Nat
        BY <1>2 DEF TInv, TypeOK, SInv, LedgerSound
    <2>2. Consistent(Credit(ledger[a], given(credit, a)))
        BY <2>1 DEF Row, Credit, Consistent
    <2> QED
        BY <1>1, <2>2
<1>4. LogPaid'
    BY DEF CreditShares, SInv, LogPaid
<1> QED
    BY <1>3, <1>4 DEF SInv, LedgerSound

\* The tables at the start pass the startup checks.
LEMMA InitSInv == Init => SInv
<1> SUFFICES ASSUME Init PROVE SInv
    OBVIOUS
<1>1. LedgerSound
    BY TablesAssumption DEF Init, LedgerSound, Consistent, Row
<1>2. LogPaid
    BY DEF Init, LogPaid
<1> QED
    BY <1>1, <1>2 DEF SInv

\* SInv is inductive relative to TInv.
LEMMA NextSInv == TInv /\ SInv /\ [Next]_vars => SInv'
<1> SUFFICES ASSUME TInv, SInv, [Next]_vars PROVE SInv'
    OBVIOUS
<1>1. CASE System
    <2>1. CASE CreditShares
        BY <2>1, CreditSound
    <2>2. CASE ListShares \/ CreditFails \/ Elapse \/ Crash \/ Restart
        BY <2>2, Quiet DEF ListShares, CreditFails, Elapse, Crash, Restart, db
    <2> QED
        BY <1>1, <2>1, <2>2 DEF System
<1>2. ASSUME NEW t \in Tasks, TaskStep(t) PROVE SInv'
    <2>1. CASE \/ Check(t) \/ CheckLineage(t) \/ Authorize(t) \/ ListHolds(t) \/ Respond(t) \/ Parse(t)
               \/ TakePrepaid(t) \/ RejectPayload(t) \/ Account(t)
        <3>1. UNCHANGED db
            BY <2>1 DEF Check, CheckLineage, Authorize, ListHolds, Respond, Parse, TakePrepaid,
                        RejectPayload, Account
        <3> QED
            BY <3>1, Quiet DEF db
    <2>2. CASE ExpireEnvelope(t) \/ Consume(t) \/ Lifecycle(t)
        BY <2>2, Quiet DEF ExpireEnvelope, Consume, Lifecycle
    <2> QED
        BY <1>2, <2>1, <2>2, ExpireHoldSound, ResolveSound, ReservationSound, FinalizeSound
        DEF TaskStep, Progress
<1>3. ASSUME NEW t \in Tasks, ClientStep(t) PROVE SInv'
    BY <1>3, Quiet DEF ClientStep, Submit, Abort, SkipTimeout, SkipBudget, db
<1>4. CASE UNCHANGED vars
    BY <1>4, Quiet DEF vars
<1> QED
    BY <1>1, <1>2, <1>3, <1>4 DEF Next

\* Whatever requests were in flight at a crash, the database passes the startup
\* integrity checks but for the events that clients priced themselves at nothing:
\* no reservation exceeds its balance, no row is negative, and every mutate or
\* execute event has paid, or it came with a _hold_reserved_cost that is not
\* positive.
THEOREM StartupNeverRefused == Spec => []StartupChecksPass
<1>1. Spec => [](TInv /\ SInv)
    BY InitTInv, NextTInv, InitSInv, NextSInv, PTL DEF Spec
<1> QED
    BY <1>1, StartupParts, PTL

-----------------------------------------------------------------------------
\* What was given and what the events took explain the balances.

\* What an event takes from the balance of a.
Charge(event, a) == IF event.payer = a THEN Taken(event) ELSE 0

\* Appending an event that settles what leaves the balances.
Settles(event) ==
    /\ event \in EventRow
    /\ log' = Append(log, event)
    /\ \A a \in Actors :
          \/ ledger'[a].balance - minted'[a] = ledger[a].balance - minted[a] - Charge(event, a)
          \/ ~Exists(a) /\ a # event.payer /\ ledger'[a].balance = minted'[a]

\* A step moves energy without an event only where it also mints it, and with an
\* event by what the event says.
Explains ==
    \/ /\ UNCHANGED log
       /\ \A a \in Actors : ledger'[a].balance - minted'[a] = ledger[a].balance - minted[a]
    \/ \E event : Settles(event)

\* Steps that move no energy.
LEMMA NothingMoves ==
    ASSUME UNCHANGED <<ledger, log, minted>>
    PROVE  Explains
BY DEF Explains

\* A settlement with the event that records it.
LEMMA SettlementExplained ==
    ASSUME TInv, NEW a \in Actors, NEW reserved \in Nat, NEW actual \in Nat, NEW event \in EventRow,
           ledger' = [ledger EXCEPT ![a] = Settle(@, reserved, actual)],
           log' = Append(log, event), UNCHANGED minted, event.payer = a, event.settled = actual
    PROVE  Explains
<1>0. ledger \in [Actors -> Row] /\ minted \in [Actors -> Nat] /\ Taken(event) = actual
    BY TakenType DEF TInv, TypeOK
<1>1. ASSUME NEW b \in Actors
      PROVE  ledger'[b].balance - minted'[b] = ledger[b].balance - minted[b] - Charge(event, b)
    <2>1. ledger[b].balance \in Int /\ minted[b] \in Nat
        BY <1>0 DEF Row
    <2>2. CASE b = a
        BY <1>0, <2>1, <2>2 DEF Charge, Settle
    <2>3. CASE b # a
        BY <1>0, <2>1, <2>3 DEF Charge
    <2> QED
        BY <2>2, <2>3
<1> QED
    BY <1>1 DEF Explains, Settles

\* A timed out hold pays its commitment cost with the hold_timeout event.
LEMMA ExpireHoldExplained ==
    ASSUME TInv, NEW t \in Tasks, ExpireHold(t)
    PROVE  Explains
<1>1. CASE UNCHANGED db
    BY <1>1, NothingMoves DEF db
<1>2. ASSUME NEW h \in task[t].todo, StillPending(hold[h]), UNCHANGED minted,
             ledger' = [ledger EXCEPT ![hold[h].agent] =
                           Settle(@, hold[h].reserved, CommitmentCost(hold[h].reserved))],
             log' = Append(log, HoldEvent("hold_timeout", hold[h].agent, hold[h].agent, h,
                                          hold[h].reserved, CommitmentCost(hold[h].reserved)))
      PROVE  Explains
    <2>1. h \in Holds
        BY DEF TInv, TypeOK, TaskRow
    <2>2. hold[h].agent \in Actors /\ hold[h].reserved \in Nat
        BY <1>2, <2>1 DEF TInv, TypeOK, StillPending, NoHold, HoldRow
    <2>3. CommitmentCost(hold[h].reserved) \in Nat
        BY <2>2, CommitmentBounded
    <2> DEFINE event == HoldEvent("hold_timeout", hold[h].agent, hold[h].agent, h,
                                  hold[h].reserved, CommitmentCost(hold[h].reserved))
    <2>4. /\ event \in EventRow /\ event.payer = hold[h].agent
          /\ event.settled = CommitmentCost(hold[h].reserved)
        BY <2>1, <2>2, <2>3, HoldEventRow
    <2>5. log' = Append(log, event)
        BY <1>2
    <2> HIDE DEF event
    <2> QED
        BY <1>2, <2>2, <2>3, <2>4, <2>5, SettlementExplained
<1> QED
    BY <1>1, <1>2 DEF ExpireHold

\* A rejected hold pays its commitment cost with the hold_response event, an
\* approved one nothing.
LEMMA ResolveExplained ==
    ASSUME TInv, NEW t \in Tasks, Resolve(t)
    PROVE  Explains
<1> DEFINE a == task[t].action
           h == a.arg.hold
           r == hold[h]
           reject == a.arg.decision = "reject"
           cost == IF reject THEN CommitmentCost(r.reserved) ELSE 0
           event == HoldEvent("hold_response", a.actor, r.agent, h, r.reserved, cost)
<1>1. CASE UNCHANGED db
    BY <1>1, NothingMoves DEF db
<1>2. ASSUME StillPending(r), UNCHANGED minted,
             ledger' = IF reject THEN [ledger EXCEPT ![r.agent] = Settle(@, r.reserved, cost)]
                       ELSE ledger,
             log' = Append(log, event)
      PROVE  Explains
    <2>1. a \in Requests /\ IsHoldResponse(a)
        BY DEF TInv, TypeOK, TasksOK, Resolve, TaskOK, TaskRow
    <2>2. a.actor \in Actors /\ h \in Holds
        BY <2>1, RequestsAssumption DEF RequestOK
    <2>3. r.agent \in Actors /\ r.reserved \in Nat
        BY <1>2, <2>2, PendingRow
    <2>4. cost \in Nat /\ (~reject => cost = 0)
        BY <2>3, CommitmentBounded
    <2> HIDE DEF cost, r, reject
    <2>5. event \in EventRow /\ event.payer = r.agent /\ event.settled = cost
        BY <2>2, <2>3, <2>4, HoldEventRow
    <2> HIDE DEF event
    <2>6. CASE reject
        BY <1>2, <2>3, <2>4, <2>5, <2>6, SettlementExplained
    <2>7. CASE ~reject
        <3>1. \A b \in Actors : ledger[b].balance \in Int /\ minted[b] \in Nat
            BY DEF TInv, TypeOK, Row
        <3>2. Taken(event) = 0
            BY <2>4, <2>5, <2>7, TakenType
        <3>3. Settles(event)
            BY <1>2, <2>5, <2>7, <3>1, <3>2 DEF Settles, Charge
        <3> QED
            BY <3>3 DEF Explains
    <2> QED
        BY <2>6, <2>7
<1> QED
    BY <1>1, <1>2 DEF Resolve

\* A reservation leaves the balance alone; its hold_request settles nothing.
LEMMA ReservationExplained ==
    ASSUME TInv, NEW t \in Tasks, Trigger(t) \/ ReserveEnergy(t)
    PROVE  Explains
<1> DEFINE a == task[t].action
           cost == QuoteCost(a)
<1>1. a \in Requests
    BY DEF TInv, TypeOK, TasksOK, TaskOK, TaskRow, Trigger, ReserveEnergy
<1>2. a.actor \in Actors
    BY <1>1, RequestsAssumption DEF RequestOK
<1>3. cost \in Nat
    BY <1>1, QuotePositive
<1>4. CASE UNCHANGED db
    BY <1>4, NothingMoves DEF db
<1>5. ASSUME ledger' = [ledger EXCEPT ![a.actor] = Reserve(@, cost)], UNCHANGED minted
      PROVE  \A b \in Actors :
                /\ ledger[b].balance \in Int /\ minted[b] \in Nat
                /\ ledger'[b].balance = ledger[b].balance /\ minted'[b] = minted[b]
    <2> HIDE DEF cost
    <2> QED
        BY <1>2, <1>3, <1>5 DEF TInv, TypeOK, Row, Reserve
<1>6. ASSUME NEW h \in Holds, UNCHANGED minted,
             ledger' = [ledger EXCEPT ![a.actor] = Reserve(@, cost)],
             log' = Append(log, HoldEvent("hold_request", a.actor, a.actor, h, cost, 0))
      PROVE  Explains
    <2> DEFINE event == HoldEvent("hold_request", a.actor, a.actor, h, cost, 0)
    <2>0. \A b \in Actors :
                /\ ledger[b].balance \in Int /\ minted[b] \in Nat
                /\ ledger'[b].balance = ledger[b].balance /\ minted'[b] = minted[b]
        BY <1>5, <1>6
    <2>1. log' = Append(log, event)
        BY <1>6
    <2> HIDE DEF cost
    <2>2. event \in EventRow /\ event.settled = 0
        BY <1>2, <1>3, HoldEventRow
    <2> HIDE DEF event
    <2>3. Taken(event) = 0
        BY <2>2 DEF Taken
    <2>4. Settles(event)
        BY <2>0, <2>1, <2>2, <2>3 DEF Settles, Charge
    <2> QED
        BY <2>4 DEF Explains
<1>7. CASE Trigger(t)
    BY <1>4, <1>6, <1>7 DEF Trigger
<1>8. CASE ReserveEnergy(t)
    BY <1>4, <1>5, <1>8 DEF ReserveEnergy, Explains
<1> QED
    BY <1>7, <1>8

\* A commit pays with its own event; an actor it creates owns what it was given,
\* and has paid for nothing.
LEMMA FinalizeExplained ==
    ASSUME TInv, Stories, NEW t \in Tasks, Finalize(t)
    PROVE  Explains
<1> DEFINE a == task[t].action
           cost == task[t].reserved
           settled == IF cost > 0 THEN [ledger EXCEPT ![a.actor] = Settle(@, cost, cost)] ELSE ledger
           event == ActionEvent(task[t])
           taken == IF cost > 0 THEN cost ELSE 0
<1>0. task[t] \in TaskRow /\ TaskOK(task[t], actor, envelope) /\ Story(task[t], actor, envelope, hold)
    BY DEF TInv, TypeOK, TasksOK, Stories
<1>1. CASE UNCHANGED db
    BY <1>1, NothingMoves DEF db
<1>2. a \in Requests /\ a # None /\ cost \in Int /\ Exists(a.actor)
    BY <1>0 DEF Finalize, TaskOK, TaskRow, Amount, Story, KnownActor, Exists
<1>3. RequestOK(a)
    BY <1>2, RequestsAssumption
<1>4. a.actor \in Actors
    BY <1>3 DEF RequestOK
<1>5. event \in EventRow /\ event.payer = a.actor /\ Taken(event) = taken /\ taken \in Nat
    BY <1>0, <1>2, ActionEventType DEF ActionEvent, Taken
<1>6. \A b \in Actors :
          settled[b].balance = ledger[b].balance - IF b = a.actor THEN taken ELSE 0
    <2>1. ledger \in [Actors -> Row] /\ \A b \in Actors : ledger[b].balance \in Int
        BY DEF TInv, TypeOK, Row
    <2>2. CASE cost > 0
        <3>1. settled = [ledger EXCEPT ![a.actor] = Settle(@, cost, cost)]
            BY <2>2
        <3>2. Settle(ledger[a.actor], cost, cost).balance = ledger[a.actor].balance - cost
            BY DEF Settle
        <3> HIDE DEF settled, a
        <3> QED
            BY <1>2, <1>4, <2>1, <2>2, <3>1, <3>2
    <2>3. CASE ~(cost > 0)
        BY <2>1, <2>3
    <2> QED
        BY <2>2, <2>3
<1>7. settled \in [Actors -> Row]
    <2>1. ledger \in [Actors -> Row]
        BY DEF TInv, TypeOK
    <2>2. ledger[a.actor] \in Row
        BY <1>4, <2>1
    <2>3. Settle(ledger[a.actor], cost, cost) \in Row
        BY <1>2, <2>2 DEF Row, Settle
    <2> QED
        BY <2>1, <2>3
<1> HIDE DEF settled, event, taken
<1>8. ASSUME IsCreateActor(a), ~Exists(a.arg.id), log' = Append(log, event),
             ledger' = [settled EXCEPT ![a.arg.id] = NewAccount(a.arg.energy)],
             minted' = [minted EXCEPT ![a.arg.id] = a.arg.energy]
      PROVE  Explains
    <2>1. a.arg.id \in Actors /\ a.arg.id # a.actor
        BY <1>2, <1>3, <1>8 DEF RequestOK
    <2>2. ASSUME NEW b \in Actors
          PROVE  \/ ledger'[b].balance - minted'[b] = ledger[b].balance - minted[b] - Charge(event, b)
                 \/ ~Exists(b) /\ b # event.payer /\ ledger'[b].balance = minted'[b]
        <3>0. ledger \in [Actors -> Row] /\ minted \in [Actors -> Nat]
            BY DEF TInv, TypeOK
        <3>1. ledger[b].balance \in Int /\ minted[b] \in Nat
            BY <3>0 DEF Row
        <3>2. CASE b = a.arg.id
            BY <1>4, <1>5, <1>8, <1>7, <2>1, <3>0, <3>2 DEF NewAccount
        <3>3. CASE b # a.arg.id
            <4>1. ledger'[b] = settled[b] /\ minted'[b] = minted[b]
                BY <1>7, <1>8, <2>1, <3>0, <3>3
            <4> QED
                BY <1>5, <1>6, <3>1, <4>1 DEF Charge
        <3> QED
            BY <3>2, <3>3
    <2> QED
        BY <1>5, <1>8, <2>2 DEF Explains, Settles
<1>9. ASSUME log' = Append(log, event), ledger' = settled, UNCHANGED minted
      PROVE  Explains
    <2>1. \A b \in Actors : ledger[b].balance \in Int /\ minted[b] \in Nat
        BY DEF TInv, TypeOK, Row
    <2>2. ASSUME NEW b \in Actors
          PROVE  ledger'[b].balance - minted'[b] = ledger[b].balance - minted[b] - Charge(event, b)
        BY <1>5, <1>6, <1>9, <2>1 DEF Charge
    <2> QED
        BY <1>5, <1>9, <2>2 DEF Explains, Settles
<1> QED
    BY <1>1, <1>8, <1>9 DEF Finalize, settled, event

\* Production mints what it credits.
LEMMA CreditExplained ==
    ASSUME TInv, CreditShares
    PROVE  Explains
<1> DEFINE given(credit, a) == IF a \in DOMAIN credit THEN credit[a] ELSE 0
<1>1. PICK credit \in Allocations(EnergyPerTick, producer) :
         /\ ledger' = [a \in Actors |-> Credit(ledger[a], given(credit, a))]
         /\ minted' = [a \in Actors |-> minted[a] + given(credit, a)]
    BY Zenon DEF CreditShares
<1>2. \A a \in Actors : given(credit, a) \in Nat
    BY CreditGiven
<1> HIDE DEF given
<1>3. \A a \in Actors : ledger[a] \in Row /\ minted[a] \in Nat
    BY DEF TInv, TypeOK
<1>4. \A a \in Actors : ledger'[a].balance - minted'[a] = ledger[a].balance - minted[a]
    BY <1>1, <1>2, <1>3 DEF Row, Credit
<1> QED
    BY <1>4 DEF Explains, CreditShares

\* Every step explains what it does to the balances.
LEMMA StepExplained ==
    ASSUME TInv, Stories, [Next]_vars
    PROVE  Explains
<1>1. CASE System
    BY <1>1, CreditExplained, NothingMoves
    DEF System, ListShares, CreditFails, Elapse, Crash, Restart, db
<1>2. ASSUME NEW t \in Tasks, TaskStep(t) PROVE Explains
    <2>1. CASE \/ Check(t) \/ CheckLineage(t) \/ Authorize(t) \/ ExpireEnvelope(t) \/ ListHolds(t)
               \/ Respond(t) \/ Parse(t) \/ TakePrepaid(t) \/ RejectPayload(t) \/ Account(t)
               \/ Consume(t) \/ Lifecycle(t)
        <3>1. UNCHANGED <<ledger, log, minted>>
            BY <2>1 DEF Check, CheckLineage, Authorize, ExpireEnvelope, ListHolds, Respond, Parse,
                        TakePrepaid, RejectPayload, Account, Consume, Lifecycle, db
        <3> QED
            BY <3>1, NothingMoves
    <2> QED
        BY <1>2, <2>1, ExpireHoldExplained, ResolveExplained, ReservationExplained, FinalizeExplained
        DEF TaskStep, Progress
<1>3. ASSUME NEW t \in Tasks, ClientStep(t) PROVE Explains
    BY <1>3, NothingMoves DEF ClientStep, Submit, Abort, SkipTimeout, SkipBudget, db
<1>4. CASE UNCHANGED vars
    BY <1>4, NothingMoves DEF vars
<1> QED
    BY <1>1, <1>2, <1>3, <1>4 DEF Next

\* What a set of events has taken is a number.
LEMMA SettledInt ==
    ASSUME log \in Seq(EventRow), NEW I \in SUBSET DOMAIN log
    PROVE  SettledBy(I) \in Int /\ SettledBy(I) >= 0
<1> DEFINE f == [i \in I |-> Taken(log[i])]
<1>1. IsFiniteSet(DOMAIN log)
    BY FS_Interval
<1>2. IsFiniteSet(I)
    BY <1>1, FS_Subset
<1>3. \A i \in I : Taken(log[i]) \in Nat
    BY LogRows, TakenType
<1>4. DOMAIN f = I /\ \A i \in I : f[i] = Taken(log[i])
    OBVIOUS
<1>5. SettledBy(I) = SumFunction(f)
    BY DEF SettledBy
<1> HIDE DEF f
<1>6. Summable(f) /\ \A i \in DOMAIN f : f[i] >= 0
    BY <1>2, <1>3, <1>4 DEF Summable
<1> QED
    BY <1>5, <1>6, SumFunctionInt, SumNat

\* Nobody has paid at the start.
LEMMA InitBalance == Init => BalanceExplained
<1> SUFFICES ASSUME Init, NEW a \in Actors
             PROVE  ledger[a].balance = minted[a] - SettledBy(PaidBy(a))
    BY DEF BalanceExplained
<1>1. PaidBy(a) = {}
    BY DEF Init, PaidBy
<1>2. SettledBy(PaidBy(a)) = 0
    BY <1>1, SumFunctionEmpty DEF SettledBy
<1>3. ledger[a].balance = minted[a] /\ minted[a] \in Int
    BY TablesAssumption DEF Init, Row
<1> QED
    BY <1>2, <1>3

\* BalanceExplained is inductive relative to TInv and PInv: an actor that does
\* not exist yet has paid for nothing.
LEMMA NextBalance ==
    TInv /\ TInv' /\ PInv /\ BalanceExplained /\ [Next]_vars => BalanceExplained'
<1> SUFFICES ASSUME TInv, TInv', PInv, BalanceExplained, [Next]_vars, NEW a \in Actors
             PROVE  ledger'[a].balance = minted'[a] - SettledBy(PaidBy(a))'
    BY DEF BalanceExplained
<1> DEFINE paid == SettledBy(PaidBy(a))
           J == {i \in DOMAIN log' : log'[i].payer = a}
<1>0. log \in Seq(EventRow)
    BY DEF TInv, TypeOK
<1>1. /\ ledger[a].balance \in Int /\ ledger'[a].balance \in Int
      /\ minted[a] \in Nat /\ minted'[a] \in Nat
    BY DEF TInv, TypeOK, Row
<1>2. ledger[a].balance = minted[a] - paid
    BY DEF BalanceExplained
<1>3. CASE /\ UNCHANGED log
           /\ ledger'[a].balance - minted'[a] = ledger[a].balance - minted[a]
    <2>1. SettledBy(PaidBy(a))' = paid
        BY <1>3 DEF SettledBy, PaidBy
    <2>2. PaidBy(a) = {i \in DOMAIN log : log[i].payer = a}
        BY DEF PaidBy
    <2>3. paid \in Int
        BY <1>0, SettledInt DEF PaidBy
    <2> HIDE DEF paid
    <2> QED
        BY <1>1, <1>2, <1>3, <2>1, <2>3
<1>4. ASSUME NEW event, Settles(event)
      PROVE  ledger'[a].balance = minted'[a] - SettledBy(PaidBy(a))'
    <2>0. event \in EventRow /\ log' = Append(log, event)
        BY <1>4 DEF Settles
    <2>1. /\ DOMAIN log' = DOMAIN log \cup {Len(log) + 1}
          /\ \A i \in DOMAIN log : log'[i] = log[i]
          /\ log'[Len(log) + 1] = event
          /\ Len(log) + 1 \notin DOMAIN log
        BY <1>0, <2>0, Appended
    <2>2. /\ PaidBy(a) \in SUBSET DOMAIN log /\ J \in SUBSET DOMAIN log'
          /\ J \ {Len(log) + 1} = PaidBy(a)
          /\ Len(log) + 1 \in J <=> event.payer = a
        BY <2>1 DEF PaidBy
    <2> HIDE DEF J
    <2>3. /\ paid \in Int
          /\ SumFunction([i \in J |-> Taken(log'[i])]) =
                paid + IF Len(log) + 1 \in J THEN Taken(event) ELSE 0
        BY <1>0, <2>0, <2>2, SettledGrows
    <2>4. Taken(event) \in Int
        BY <2>0, TakenType
    <2>5. SumFunction([i \in J |-> Taken(log'[i])]) = paid + Charge(event, a)
        BY <2>2, <2>3 DEF Charge
    <2>6. SettledBy(PaidBy(a))' = SumFunction([i \in J |-> Taken(log'[i])])
        BY DEF SettledBy, PaidBy, J
    <2>7. Charge(event, a) \in Int
        BY <2>4 DEF Charge
    <2>8. CASE ledger'[a].balance - minted'[a] = ledger[a].balance - minted[a] - Charge(event, a)
        <3>1. SettledBy(PaidBy(a))' = paid + Charge(event, a) /\ paid \in Int
            BY <2>3, <2>5, <2>6
        <3> HIDE DEF paid
        <3>2. ledger'[a].balance = minted'[a] - paid - Charge(event, a)
            BY <1>1, <1>2, <2>7, <2>8, <3>1
        <3>3. minted'[a] - (paid + Charge(event, a)) = minted'[a] - paid - Charge(event, a)
            BY <1>1, <2>7, <3>1
        <3> QED
            BY <3>1, <3>2, <3>3
    <2>9. CASE ~Exists(a) /\ a # event.payer /\ ledger'[a].balance = minted'[a]
        <3>1. PaidBy(a) = {}
            BY <2>9 DEF PInv, EventsNamed, PaidBy
        <3>2. paid = 0
            BY <3>1, SumFunctionEmpty DEF SettledBy
        <3>3. Charge(event, a) = 0
            BY <2>9 DEF Charge
        <3> HIDE DEF paid
        <3> QED
            BY <1>1, <2>5, <2>6, <2>9, <3>2, <3>3
    <2> QED
        BY <1>4, <2>8, <2>9 DEF Settles
<1>5. Explains
    BY StepExplained DEF PInv
<1> QED
    BY <1>3, <1>4, <1>5 DEF Explains

\* The balance of every actor is what it was given less what the events it paid
\* for have taken: whatever is reserved, held, timed out or crashed, no energy
\* leaves a row without an event and no event settles twice.  An event with an
\* amount that its client sent takes that amount, and nothing unless it is
\* positive.
THEOREM BalancesExplained == Spec => []BalanceExplained
<1>1. TInv /\ PInv /\ BalanceExplained /\ [Next]_vars => (TInv /\ PInv /\ BalanceExplained)'
    BY NextTInv, NextPInv, NextBalance
<1> QED
    BY <1>1, InitTInv, InitPInv, InitBalance, PTL DEF Spec

-----------------------------------------------------------------------------
\* What a step does to the reservation of a task.

\* The task still has to charge an envelope.
Charging(r) == r.pc \in {"account", "consume"}

\* A task that goes on keeps its action, the hold it carries and its reservation,
\* does not go back to before its commit and does not begin to charge.
Kept(r, row) ==
    \/ row = Returned
    \/ /\ row.action = r.action /\ row.via = r.via
       /\ row.reserved = r.reserved
       /\ Post(r) => Post(row)
       /\ Charging(row) => Charging(r)

\* A change of program counter.
LEMMA AtKept ==
    ASSUME NEW r \in TaskRow, NEW pc, Post(r) => pc \in {"lifecycle", "done"},
           pc \notin {"account", "consume"}
    PROVE  Kept(r, At(r, pc))
<1>1. CASE pc = "done"
    BY <1>1 DEF At, Kept
<1>2. CASE pc # "done"
    <2>1. At(r, pc) = [r EXCEPT !.pc = pc]
        BY <1>2 DEF At
    <2>2. /\ [r EXCEPT !.pc = pc].action = r.action
          /\ [r EXCEPT !.pc = pc].via = r.via
          /\ [r EXCEPT !.pc = pc].reserved = r.reserved
          /\ [r EXCEPT !.pc = pc].pc = pc
        BY DEF TaskRow
    <2> QED
        BY <1>2, <2>1, <2>2 DEF Kept, Post, Charging
<1> QED
    BY <1>1, <1>2

\* The steps that open or close no reservation.
LEMMA QuietRow ==
    ASSUME TInv, NEW t \in Tasks,
           \/ Abort(t) \/ SkipTimeout(t) \/ SkipBudget(t) \/ Check(t) \/ CheckLineage(t)
           \/ Authorize(t) \/ ExpireEnvelope(t) \/ ListHolds(t) \/ Respond(t) \/ Parse(t)
           \/ RejectPayload(t) \/ Account(t) \/ Consume(t) \/ Lifecycle(t)
    PROVE  \E row : Update(t, row) /\ Kept(task[t], row)
<1>0. task[t] \in TaskRow
    BY DEF TInv, TypeOK
<1>1. CASE Return(t)
    BY <1>1 DEF Return, Kept
<1>2. ASSUME NEW pc, Goto(t, pc), Post(task[t]) => pc \in {"lifecycle", "done"},
             pc \notin {"account", "consume"}
      PROVE  \E row : Update(t, row) /\ Kept(task[t], row)
    BY <1>0, <1>2, AtKept DEF Goto
<1>3. \A a, via : Route(a, via) \notin {"account", "consume"}
    BY DEF Route, AfterParse
<1>4. \A a : AfterBudget(a) \in {"lifecycle", "done"}
    BY DEF AfterBudget
<1>5. CASE Abort(t) \/ RejectPayload(t) \/ Lifecycle(t)
    BY <1>1, <1>5 DEF Abort, RejectPayload, Lifecycle
<1>6. CASE Check(t) \/ CheckLineage(t)
    BY <1>1, <1>2, <1>3, <1>6 DEF Check, CheckLineage, AfterCheck, Post
<1>7. CASE ExpireEnvelope(t) \/ Respond(t) \/ SkipTimeout(t)
    BY <1>1, <1>2, <1>3, <1>7 DEF ExpireEnvelope, Respond, SkipTimeout, Post
<1>8. CASE Consume(t) \/ SkipBudget(t)
    BY <1>2, <1>4, <1>8 DEF Consume, SkipBudget
<1>9. CASE Authorize(t)
    <2>1. ~Post(task[t])
        BY <1>9 DEF Authorize, Post
    <2>2. \A e : AfterAuthorize(t, e) \notin {"account", "consume"}
        BY <1>3 DEF AfterAuthorize
    <2>3. ASSUME NEW e, NEW pc \in {"expire_envelope", "list_holds", AfterAuthorize(t, e)},
                 Update(t, [task[t] EXCEPT !.pc = pc, !.envelope = e])
          PROVE  \E row : Update(t, row) /\ Kept(task[t], row)
        <3>1. Kept(task[t], [task[t] EXCEPT !.pc = pc, !.envelope = e])
            BY <1>0, <2>1, <2>2 DEF Kept, TaskRow, Charging
        <3> QED
            BY <2>3, <3>1
    <2>4. CASE Goto(t, Route(task[t].action, task[t].via))
        BY <1>2, <1>3, <2>1, <2>4
    <2> QED
        BY <1>1, <1>9, <2>3, <2>4 DEF Authorize
<1>10. CASE ListHolds(t)
    <2>1. \A e : AfterAuthorize(t, e) \notin {"account", "consume"}
        BY <1>3 DEF AfterAuthorize
    <2> DEFINE late == task[t].pc = "list_late"
               e == IF late THEN hold[task[t].action.arg.hold].envelope ELSE task[t].envelope
               todo == OverdueHolds(e)
               after == IF late THEN "done" ELSE AfterAuthorize(t, e)
               pc == IF todo = {} THEN after ELSE IF late THEN "expire_late" ELSE "expire_holds"
    <2>2. /\ Update(t, At([task[t] EXCEPT !.todo = todo], pc))
          /\ pc \notin {"account", "consume"}
        BY <1>10, <2>1 DEF ListHolds
    <2> HIDE DEF todo, pc
    <2>3. Kept(task[t], At([task[t] EXCEPT !.todo = todo], pc))
        BY <1>0, <1>10, <2>2 DEF Kept, At, TaskRow, Post, Charging, ListHolds
    <2> QED
        BY <2>2, <2>3
<1>11. CASE Parse(t)
    <2>1. ~Post(task[t])
        BY <1>11 DEF Parse, Post
    <2>2. ASSUME NEW p, NEW pc, Update(t, [task[t] EXCEPT !.pc = pc, !.parent = p]),
                 pc \notin {"account", "consume"}
          PROVE  \E row : Update(t, row) /\ Kept(task[t], row)
        <3>1. Kept(task[t], [task[t] EXCEPT !.pc = pc, !.parent = p])
            BY <1>0, <2>1, <2>2 DEF Kept, TaskRow, Charging
        <3> QED
            BY <2>2, <3>1
    <2>3. \A via : AfterParse(via) \notin {"account", "consume"}
        BY DEF AfterParse
    <2> QED
        BY <1>1, <1>2, <1>11, <2>1, <2>2, <2>3 DEF Parse
<1>12. CASE Account(t)
    <2>1. ASSUME NEW e, NEW halt,
                 Update(t, [task[t] EXCEPT !.pc = "consume", !.envelope = e, !.halt = halt])
          PROVE  \E row : Update(t, row) /\ Kept(task[t], row)
        <3>1. Kept(task[t], [task[t] EXCEPT !.pc = "consume", !.envelope = e, !.halt = halt])
            BY <1>0, <1>12 DEF Kept, TaskRow, Post, Charging, Account
        <3> QED
            BY <2>1, <3>1
    <2> QED
        BY <1>2, <1>4, <1>12, <2>1 DEF Account
<1> QED
    BY <1>5, <1>6, <1>7, <1>8, <1>9, <1>10, <1>11, <1>12

\* The expiry of a hold keeps the reservation of the task that does it.
LEMMA ExpireRow ==
    ASSUME TInv, NEW t \in Tasks, ExpireHold(t)
    PROVE  \E row : Update(t, row) /\ Kept(task[t], row)
<1>0. task[t] \in TaskRow
    BY DEF TInv, TypeOK
<1>1. CASE Return(t)
    BY <1>1 DEF Return, Kept
<1>2. ASSUME NEW todo, NEW pc, Update(t, At([task[t] EXCEPT !.todo = todo], pc)),
             pc \notin {"account", "consume"}
      PROVE  \E row : Update(t, row) /\ Kept(task[t], row)
    <2>1. Kept(task[t], At([task[t] EXCEPT !.todo = todo], pc))
        BY <1>0, <1>2 DEF Kept, At, TaskRow, Post, Charging, ExpireHold
    <2> QED
        BY <1>2, <2>1
<1>3. \A e : AfterAuthorize(t, e) \notin {"account", "consume"}
    BY DEF AfterAuthorize, Route, AfterParse
<1>4. CASE ~Return(t)
    <2>1. PICK todo, pc : /\ Update(t, At([task[t] EXCEPT !.todo = todo], pc))
                          /\ pc \in {"done", AfterAuthorize(t, task[t].envelope), task[t].pc}
        BY <1>4 DEF ExpireHold
    <2>2. pc \notin {"account", "consume"}
        BY <1>3, <2>1 DEF ExpireHold
    <2> QED
        BY <1>2, <2>1, <2>2
<1> QED
    BY <1>1, <1>4

-----------------------------------------------------------------------------
\* The sums over the tables, and what a change of one row does to them.

\* What a hold locks in the ledger row of a, and the sum over all holds.
Lock(row, a) == IF row.status = "pending" /\ row.agent = a THEN row.reserved ELSE 0

PendingIn(hld, a) == {h \in Holds : hld[h].status = "pending" /\ hld[h].agent = a}

Locked(hld, a) == SumFunction([h \in PendingIn(hld, a) |-> hld[h].reserved])

\* What a task has locked and not settled.
Open(r) == IF Post(r) \/ SelfPriced(r) THEN 0 ELSE r.reserved

\* What a task has settled and not charged to an envelope.
Due(r) == IF Charging(r) THEN r.reserved ELSE 0

OwnedIn(tsk, a) == {t \in Tasks : tsk[t].action # None /\ tsk[t].action.actor = a}

Owns(r, a) == r.action # None /\ r.action.actor = a

OpenOf(r, a) == IF Owns(r, a) THEN Open(r) ELSE 0

DueOf(r, a) == IF Owns(r, a) THEN Due(r) ELSE 0

OpenSum(tsk, a) == SumFunction([t \in OwnedIn(tsk, a) |-> Open(tsk[t])])

DueSum(tsk, a) == SumFunction([t \in OwnedIn(tsk, a) |-> Due(tsk[t])])

\* Finitely many holds.
HoldTable(hld) ==
    hld \in [Holds -> HoldRow \cup {NoHold}] /\ IsFiniteSet({h \in Holds : hld[h] # NoHold})

\* Finitely many calls, none of which has locked or owes a negative amount.
TaskTable(tsk) ==
    /\ tsk \in [Tasks -> TaskRow]
    /\ IsFiniteSet({t \in Tasks : tsk[t].action # None})
    /\ \A t \in Tasks : Open(tsk[t]) \in Nat /\ Due(tsk[t]) \in Nat

\* A negative reservation comes only with a request that its client priced, and
\* goes no further than its commit.
LEMMA RowAmounts ==
    ASSUME NEW r \in TaskRow, NEW act, NEW env, TaskOK(r, act, env)
    PROVE  Open(r) \in Nat /\ Due(r) \in Nat
<1>1. r.reserved \in Int
    BY DEF TaskRow, Amount
<1>2. r.pc \in {"account", "consume"} => r.reserved > 0
    BY DEF TaskOK
<1>3. r.pc # "lifecycle" => r.reserved >= 0 \/ SelfPriced(r)
    BY <1>1 DEF TaskOK
<1>4. Open(r) \in Nat
    BY <1>1, <1>3 DEF Open, Post
<1>5. Due(r) \in Nat
    BY <1>1, <1>2 DEF Due, Charging
<1> QED
    BY <1>4, <1>5

\* The same of the tasks of a state.
LEMMA TaskAmounts ==
    ASSUME TInv, NEW t \in Tasks
    PROVE  Open(task[t]) \in Nat /\ Due(task[t]) \in Nat
BY RowAmounts DEF TInv, TypeOK, TasksOK

\* The same after a step.
LEMMA TaskAmountsNext ==
    ASSUME TInv', NEW t \in Tasks
    PROVE  Open(task'[t]) \in Nat /\ Due(task'[t]) \in Nat
BY RowAmounts DEF TInv, TypeOK, TasksOK

\* The pending holds of an actor are finitely many natural numbers.
LEMMA LocksSummable ==
    ASSUME NEW hld, HoldTable(hld), NEW a, NEW f, f = [h \in PendingIn(hld, a) |-> hld[h].reserved]
    PROVE  /\ DOMAIN f = PendingIn(hld, a)
           /\ Summable(f)
           /\ \A h \in DOMAIN f : f[h] = hld[h].reserved /\ f[h] \in Nat
<1>1. PendingIn(hld, a) \subseteq {h \in Holds : hld[h] # NoHold}
    BY DEF PendingIn, NoHold
<1>2. IsFiniteSet(PendingIn(hld, a))
    BY <1>1, FS_Subset DEF HoldTable
<1>3. \A h \in PendingIn(hld, a) : hld[h].reserved \in Nat
    BY <1>1 DEF HoldTable, HoldRow, PendingIn
<1> QED
    BY <1>2, <1>3 DEF Summable

\* A change of one hold.
LEMMA LockStep ==
    ASSUME NEW hld, NEW hld2, HoldTable(hld), HoldTable(hld2), NEW h \in Holds,
           \A g \in Holds \ {h} : hld2[g] = hld[g], NEW a
    PROVE  /\ Locked(hld, a) \in Int /\ Lock(hld[h], a) \in Int /\ Lock(hld2[h], a) \in Int
           /\ Locked(hld2, a) = Locked(hld, a) - Lock(hld[h], a) + Lock(hld2[h], a)
<1> DEFINE f == [g \in PendingIn(hld, a) |-> hld[g].reserved]
           g2 == [g \in PendingIn(hld2, a) |-> hld2[g].reserved]
<1>0. Locked(hld, a) = SumFunction(f) /\ Locked(hld2, a) = SumFunction(g2)
    BY DEF Locked
<1>1. /\ DOMAIN f = PendingIn(hld, a) /\ Summable(f)
      /\ \A g \in DOMAIN f : f[g] = hld[g].reserved
    BY LocksSummable
<1>2. /\ DOMAIN g2 = PendingIn(hld2, a) /\ Summable(g2)
      /\ \A g \in DOMAIN g2 : g2[g] = hld2[g].reserved
    BY LocksSummable
<1> HIDE DEF f, g2
<1>3. PendingIn(hld, a) \ {h} = PendingIn(hld2, a) \ {h}
    BY DEF PendingIn
<1>4. \A g \in DOMAIN f \ {h} : g2[g] = f[g]
    BY <1>1, <1>2, <1>3 DEF PendingIn
<1>5. /\ SumFunction(f) \in Int
      /\ SumFunction(g2) = SumFunction(f) - Term(f, h) + Term(g2, h)
    BY <1>1, <1>2, <1>3, <1>4, SumStep
<1>6. Term(f, h) = Lock(hld[h], a) /\ Term(g2, h) = Lock(hld2[h], a)
    BY <1>1, <1>2 DEF Term, Lock, PendingIn
<1>7. Term(f, h) \in Int /\ Term(g2, h) \in Int
    BY <1>1, <1>2 DEF Term, Summable
<1> QED
    BY <1>0, <1>5, <1>6, <1>7

\* The reservations of the calls in flight are finitely many natural numbers.
LEMMA OpenSummable ==
    ASSUME NEW tsk, TaskTable(tsk), NEW a, NEW f, f = [t \in OwnedIn(tsk, a) |-> Open(tsk[t])]
    PROVE  /\ DOMAIN f = OwnedIn(tsk, a)
           /\ Summable(f)
           /\ \A t \in DOMAIN f : f[t] = Open(tsk[t]) /\ f[t] \in Nat
<1>1. OwnedIn(tsk, a) \subseteq {t \in Tasks : tsk[t].action # None}
    BY DEF OwnedIn
<1>2. IsFiniteSet(OwnedIn(tsk, a))
    BY <1>1, FS_Subset DEF TaskTable
<1>3. \A t \in OwnedIn(tsk, a) : Open(tsk[t]) \in Nat
    BY DEF TaskTable, OwnedIn
<1> QED
    BY <1>2, <1>3 DEF Summable

\* So are their charges.
LEMMA DueSummable ==
    ASSUME NEW tsk, TaskTable(tsk), NEW a, NEW f, f = [t \in OwnedIn(tsk, a) |-> Due(tsk[t])]
    PROVE  /\ DOMAIN f = OwnedIn(tsk, a)
           /\ Summable(f)
           /\ \A t \in DOMAIN f : f[t] = Due(tsk[t]) /\ f[t] \in Nat
<1>1. OwnedIn(tsk, a) \subseteq {t \in Tasks : tsk[t].action # None}
    BY DEF OwnedIn
<1>2. IsFiniteSet(OwnedIn(tsk, a))
    BY <1>1, FS_Subset DEF TaskTable
<1>3. \A t \in OwnedIn(tsk, a) : Due(tsk[t]) \in Nat
    BY DEF TaskTable, OwnedIn
<1> QED
    BY <1>2, <1>3 DEF Summable

\* A step of one call.
LEMMA OpenStep ==
    ASSUME NEW tsk, NEW tsk2, TaskTable(tsk), TaskTable(tsk2), NEW t \in Tasks,
           \A s \in Tasks \ {t} : tsk2[s] = tsk[s], NEW a
    PROVE  /\ OpenSum(tsk, a) \in Int /\ OpenOf(tsk[t], a) \in Int /\ OpenOf(tsk2[t], a) \in Int
           /\ OpenSum(tsk2, a) = OpenSum(tsk, a) - OpenOf(tsk[t], a) + OpenOf(tsk2[t], a)
<1> DEFINE f == [s \in OwnedIn(tsk, a) |-> Open(tsk[s])]
           g == [s \in OwnedIn(tsk2, a) |-> Open(tsk2[s])]
<1>0. OpenSum(tsk, a) = SumFunction(f) /\ OpenSum(tsk2, a) = SumFunction(g)
    BY DEF OpenSum
<1>1. /\ DOMAIN f = OwnedIn(tsk, a) /\ Summable(f)
      /\ \A s \in DOMAIN f : f[s] = Open(tsk[s])
    BY OpenSummable
<1>2. /\ DOMAIN g = OwnedIn(tsk2, a) /\ Summable(g)
      /\ \A s \in DOMAIN g : g[s] = Open(tsk2[s])
    BY OpenSummable
<1> HIDE DEF f, g
<1>3. OwnedIn(tsk, a) \ {t} = OwnedIn(tsk2, a) \ {t}
    BY DEF OwnedIn
<1>4. \A s \in DOMAIN f \ {t} : g[s] = f[s]
    BY <1>1, <1>2, <1>3 DEF OwnedIn
<1>5. /\ SumFunction(f) \in Int
      /\ SumFunction(g) = SumFunction(f) - Term(f, t) + Term(g, t)
    BY <1>1, <1>2, <1>3, <1>4, SumStep
<1>6. Term(f, t) = OpenOf(tsk[t], a) /\ Term(g, t) = OpenOf(tsk2[t], a)
    BY <1>1, <1>2 DEF Term, OpenOf, Owns, OwnedIn
<1>7. Term(f, t) \in Int /\ Term(g, t) \in Int
    BY <1>1, <1>2 DEF Term, Summable
<1> QED
    BY <1>0, <1>5, <1>6, <1>7

\* The same for the charges that are due.
LEMMA DueStep ==
    ASSUME NEW tsk, NEW tsk2, TaskTable(tsk), TaskTable(tsk2), NEW t \in Tasks,
           \A s \in Tasks \ {t} : tsk2[s] = tsk[s], NEW a
    PROVE  /\ DueSum(tsk, a) \in Int /\ DueOf(tsk[t], a) \in Int /\ DueOf(tsk2[t], a) \in Int
           /\ DueSum(tsk2, a) = DueSum(tsk, a) - DueOf(tsk[t], a) + DueOf(tsk2[t], a)
<1> DEFINE f == [s \in OwnedIn(tsk, a) |-> Due(tsk[s])]
           g == [s \in OwnedIn(tsk2, a) |-> Due(tsk2[s])]
<1>0. DueSum(tsk, a) = SumFunction(f) /\ DueSum(tsk2, a) = SumFunction(g)
    BY DEF DueSum
<1>1. /\ DOMAIN f = OwnedIn(tsk, a) /\ Summable(f)
      /\ \A s \in DOMAIN f : f[s] = Due(tsk[s])
    BY DueSummable
<1>2. /\ DOMAIN g = OwnedIn(tsk2, a) /\ Summable(g)
      /\ \A s \in DOMAIN g : g[s] = Due(tsk2[s])
    BY DueSummable
<1> HIDE DEF f, g
<1>3. OwnedIn(tsk, a) \ {t} = OwnedIn(tsk2, a) \ {t}
    BY DEF OwnedIn
<1>4. \A s \in DOMAIN f \ {t} : g[s] = f[s]
    BY <1>1, <1>2, <1>3 DEF OwnedIn
<1>5. /\ SumFunction(f) \in Int
      /\ SumFunction(g) = SumFunction(f) - Term(f, t) + Term(g, t)
    BY <1>1, <1>2, <1>3, <1>4, SumStep
<1>6. Term(f, t) = DueOf(tsk[t], a) /\ Term(g, t) = DueOf(tsk2[t], a)
    BY <1>1, <1>2 DEF Term, DueOf, Owns, OwnedIn
<1>7. Term(f, t) \in Int /\ Term(g, t) \in Int
    BY <1>1, <1>2 DEF Term, Summable
<1> QED
    BY <1>0, <1>5, <1>6, <1>7

\* A crash only forgets calls.
LEMMA ForgetStep ==
    ASSUME NEW tsk, NEW tsk2, TaskTable(tsk), TaskTable(tsk2), NEW a,
           \A t \in Tasks : tsk2[t] = tsk[t] \/ tsk2[t].action = None
    PROVE  OpenSum(tsk2, a) <= OpenSum(tsk, a) /\ DueSum(tsk2, a) <= DueSum(tsk, a)
<1>1. OwnedIn(tsk2, a) \subseteq OwnedIn(tsk, a) /\ \A t \in OwnedIn(tsk2, a) : tsk2[t] = tsk[t]
    BY DEF OwnedIn
<1>2. OpenSum(tsk2, a) <= OpenSum(tsk, a)
    <2> DEFINE f == [s \in OwnedIn(tsk, a) |-> Open(tsk[s])]
               g == [s \in OwnedIn(tsk2, a) |-> Open(tsk2[s])]
    <2>0. OpenSum(tsk, a) = SumFunction(f) /\ OpenSum(tsk2, a) = SumFunction(g)
        BY DEF OpenSum
    <2>1. /\ DOMAIN f = OwnedIn(tsk, a) /\ Summable(f)
          /\ \A s \in DOMAIN f : f[s] = Open(tsk[s]) /\ f[s] \in Nat
        BY OpenSummable
    <2>2. /\ DOMAIN g = OwnedIn(tsk2, a) /\ Summable(g)
          /\ \A s \in DOMAIN g : g[s] = Open(tsk2[s]) /\ g[s] \in Nat
        BY OpenSummable
    <2> HIDE DEF f, g
    <2>3. DOMAIN g \subseteq DOMAIN f /\ \A s \in DOMAIN g : g[s] <= f[s]
        BY <1>1, <2>1, <2>2
    <2>4. \A s \in DOMAIN f : f[s] >= 0
        BY <2>1
    <2> QED
        BY <2>0, <2>1, <2>2, <2>3, <2>4, SumShrinks
<1>3. DueSum(tsk2, a) <= DueSum(tsk, a)
    <2> DEFINE f == [s \in OwnedIn(tsk, a) |-> Due(tsk[s])]
               g == [s \in OwnedIn(tsk2, a) |-> Due(tsk2[s])]
    <2>0. DueSum(tsk, a) = SumFunction(f) /\ DueSum(tsk2, a) = SumFunction(g)
        BY DEF DueSum
    <2>1. /\ DOMAIN f = OwnedIn(tsk, a) /\ Summable(f)
          /\ \A s \in DOMAIN f : f[s] = Due(tsk[s]) /\ f[s] \in Nat
        BY DueSummable
    <2>2. /\ DOMAIN g = OwnedIn(tsk2, a) /\ Summable(g)
          /\ \A s \in DOMAIN g : g[s] = Due(tsk2[s]) /\ g[s] \in Nat
        BY DueSummable
    <2> HIDE DEF f, g
    <2>3. DOMAIN g \subseteq DOMAIN f /\ \A s \in DOMAIN g : g[s] <= f[s]
        BY <1>1, <2>1, <2>2
    <2>4. \A s \in DOMAIN f : f[s] >= 0
        BY <2>1
    <2> QED
        BY <2>0, <2>1, <2>2, <2>3, <2>4, SumShrinks
<1> QED
    BY <1>2, <1>3

-----------------------------------------------------------------------------
\* Every open reservation is in the ledger.

\* The obligations of an actor, as sums over the tables.
LEMMA ObligationSums ==
    ASSUME TInv, PInv, NEW a \in Actors
    PROVE  /\ HoldTable(hold) /\ TaskTable(task)
           /\ Obligations(a) = Locked(hold, a) + OpenSum(task, a)
<1>1. HoldTable(hold) /\ TaskTable(task)
    BY TaskAmounts DEF TInv, TypeOK, PInv, FiniteRows, HoldTable, TaskTable
<1>2. Obligations(a) = Locked(hold, a) + OpenSum(task, a)
    BY DEF Obligations, PendingHolds, TasksOf, InFlight, Locked, PendingIn, OpenSum, OwnedIn, Open, Post
<1> QED
    BY <1>1, <1>2

\* The same after a step.
LEMMA ObligationSumsNext ==
    ASSUME TInv', PInv', NEW a \in Actors
    PROVE  /\ HoldTable(hold') /\ TaskTable(task')
           /\ Obligations(a)' = Locked(hold', a) + OpenSum(task', a)
<1>1. HoldTable(hold') /\ TaskTable(task')
    BY TaskAmountsNext DEF TInv, TypeOK, PInv, FiniteRows, HoldTable, TaskTable
<1>2. Obligations(a)' = Locked(hold', a) + OpenSum(task', a)
    BY DEF Obligations, PendingHolds, TasksOf, InFlight, Locked, PendingIn, OpenSum, OwnedIn, Open, Post
<1> QED
    BY <1>1, <1>2

\* An actor that does not exist has no obligations.
LEMMA NoObligations ==
    ASSUME TInv, PInv, NEW a \in Actors, ~Exists(a)
    PROVE  /\ Locked(hold, a) = 0
           /\ OpenSum(task, a) = 0
           /\ \A t \in Tasks : OpenOf(task[t], a) = 0
<1>1. PendingIn(hold, a) = {}
    BY DEF PendingIn, PInv, HoldsNamed, NoHold
<1>2. Locked(hold, a) = 0
    BY <1>1, SumFunctionEmpty DEF Locked
<1>3. ASSUME NEW t \in Tasks, Owns(task[t], a) PROVE Open(task[t]) = 0
    <2>1. ~(task[t].reserved > 0)
        BY <1>3 DEF PInv, Stories, Story, KnownActor, Owns, Exists
    <2>2. task[t].reserved \in Int
        BY DEF TInv, TypeOK, TaskRow, Amount
    <2> QED
        BY <2>1, <2>2, TaskAmounts DEF Open
<1>4. OpenSum(task, a) = 0
    <2> DEFINE f == [t \in OwnedIn(task, a) |-> Open(task[t])]
    <2>0. OpenSum(task, a) = SumFunction(f)
        BY DEF OpenSum
    <2>1. DOMAIN f = OwnedIn(task, a) /\ Summable(f) /\ \A t \in DOMAIN f : f[t] = Open(task[t])
        BY ObligationSums, OpenSummable
    <2> HIDE DEF f
    <2>2. \A t \in DOMAIN f : f[t] = 0
        BY <1>3, <2>1 DEF OwnedIn, Owns
    <2> QED
        BY <2>0, <2>1, <2>2, SumZero DEF Summable
<1> QED
    BY <1>2, <1>3, <1>4 DEF OpenOf

\* What requests that their clients priced have taken from the locks of a.
SelfTaken(a) == SettledBy(SelfPaid(a))

\* A step appends at most one event.
LogStays == UNCHANGED log \/ \E event \in EventRow : log' = Append(log, event)

\* What an event takes without having reserved it.
SelfCharge(event, a) == IF event.payer = a /\ event.selfPriced THEN Taken(event) ELSE 0

\* The event that is appended adds what it took, if its client priced it.
LEMMA SelfTakenStep ==
    ASSUME TInv, NEW event \in EventRow, log' = Append(log, event), NEW a \in Actors
    PROVE  /\ SelfTaken(a) \in Int /\ SelfTaken(a) >= 0 /\ SelfCharge(event, a) \in Nat
           /\ SelfTaken(a)' = SelfTaken(a) + SelfCharge(event, a)
<1> DEFINE J == {i \in DOMAIN log' : log'[i].payer = a /\ log'[i].selfPriced}
<1>0. log \in Seq(EventRow)
    BY DEF TInv, TypeOK
<1>1. /\ DOMAIN log' = DOMAIN log \cup {Len(log) + 1}
      /\ \A i \in DOMAIN log : log'[i] = log[i]
      /\ log'[Len(log) + 1] = event
      /\ Len(log) + 1 \notin DOMAIN log
    BY <1>0, Appended
<1>2. /\ SelfPaid(a) \in SUBSET DOMAIN log /\ J \in SUBSET DOMAIN log'
      /\ J \ {Len(log) + 1} = SelfPaid(a)
      /\ Len(log) + 1 \in J <=> event.payer = a /\ event.selfPriced
    BY <1>1 DEF SelfPaid, PaidBy
<1>3. SelfTaken(a)' = SumFunction([i \in J |-> Taken(log'[i])])
    <2>1. SelfPaid(a)' = J
        BY DEF SelfPaid, PaidBy
    <2> QED
        BY <2>1 DEF SelfTaken, SettledBy
<1> HIDE DEF J
<1>4. SumFunction([i \in J |-> Taken(log'[i])]) =
         SelfTaken(a) + IF Len(log) + 1 \in J THEN Taken(event) ELSE 0
    BY <1>0, <1>2, SettledGrows DEF SelfTaken
<1>5. SelfTaken(a) \in Int /\ SelfTaken(a) >= 0
    BY <1>0, <1>2, SettledInt DEF SelfTaken
<1>6. SelfCharge(event, a) \in Nat
    BY TakenType DEF SelfCharge
<1> QED
    BY <1>2, <1>3, <1>4, <1>5, <1>6 DEF SelfCharge

\* No step takes it back.
LEMMA SelfTakenGrows ==
    ASSUME TInv, LogStays, NEW a \in Actors
    PROVE  /\ SelfTaken(a) \in Int /\ SelfTaken(a)' \in Int
           /\ SelfTaken(a) >= 0 /\ SelfTaken(a)' >= SelfTaken(a)
<1>1. CASE UNCHANGED log
    <2>1. log \in Seq(EventRow) /\ SelfPaid(a) \in SUBSET DOMAIN log
        BY DEF TInv, TypeOK, SelfPaid, PaidBy
    <2>2. SelfTaken(a) \in Int /\ SelfTaken(a) >= 0
        BY <2>1, SettledInt DEF SelfTaken
    <2>3. SelfTaken(a)' = SelfTaken(a)
        BY <1>1 DEF SelfTaken, SettledBy, SelfPaid, PaidBy
    <2> QED
        BY <2>2, <2>3
<1>2. ASSUME NEW event \in EventRow, log' = Append(log, event)
      PROVE  /\ SelfTaken(a) \in Int /\ SelfTaken(a)' \in Int
             /\ SelfTaken(a) >= 0 /\ SelfTaken(a)' >= SelfTaken(a)
    BY <1>2, SelfTakenStep
<1> QED
    BY <1>1, <1>2 DEF LogStays

\* A step of a task that leaves the holds alone and locks what it opens, or takes
\* from the locks of an actor what its event says.
LEMMA TaskBacked ==
    ASSUME TInv, PInv, TInv', PInv', LogStays, ObligationsBacked,
           NEW t \in Tasks, NEW row, Update(t, row), UNCHANGED hold,
           \A a \in Actors :
              \/ ledger'[a].reserved >= ledger[a].reserved - OpenOf(task[t], a) + OpenOf(row, a)
              \/ ledger'[a].reserved + SelfTaken(a)' >=
                    ledger[a].reserved + SelfTaken(a) - OpenOf(task[t], a) + OpenOf(row, a)
              \/ ~Exists(a) /\ OpenOf(row, a) = 0 /\ ledger'[a].reserved = 0
    PROVE  ObligationsBacked'
<1> SUFFICES ASSUME NEW a \in Actors PROVE ledger'[a].reserved + SelfTaken(a)' >= Obligations(a)'
    BY DEF ObligationsBacked, SelfTaken
<1>0. task \in [Tasks -> TaskRow]
    BY DEF TInv, TypeOK
<1>1. task'[t] = row /\ \A s \in Tasks \ {t} : task'[s] = task[s]
    BY <1>0 DEF Update
<1>2. /\ HoldTable(hold) /\ TaskTable(task) /\ TaskTable(task')
      /\ Obligations(a) = Locked(hold, a) + OpenSum(task, a)
      /\ Obligations(a)' = Locked(hold, a) + OpenSum(task', a)
    BY ObligationSums, ObligationSumsNext
<1>3. /\ OpenSum(task, a) \in Int /\ OpenOf(task[t], a) \in Int /\ OpenOf(row, a) \in Int
      /\ OpenSum(task', a) = OpenSum(task, a) - OpenOf(task[t], a) + OpenOf(row, a)
    BY <1>1, <1>2, OpenStep
<1>4. Locked(hold, a) \in Int
    <2> DEFINE f == [h \in PendingIn(hold, a) |-> hold[h].reserved]
    <2>1. Summable(f) /\ Locked(hold, a) = SumFunction(f)
        BY <1>2, LocksSummable DEF Locked
    <2> QED
        BY <2>1, SumFunctionInt
<1>5. ledger[a].reserved \in Int /\ ledger'[a].reserved \in Int
    BY DEF TInv, TypeOK, Row
<1>6. ledger[a].reserved + SelfTaken(a) >= Locked(hold, a) + OpenSum(task, a)
    BY <1>2 DEF ObligationsBacked, SelfTaken
<1>7. /\ SelfTaken(a) \in Int /\ SelfTaken(a)' \in Int
      /\ SelfTaken(a) >= 0 /\ SelfTaken(a)' >= SelfTaken(a)
    BY SelfTakenGrows
<1>8. CASE \/ ledger'[a].reserved >= ledger[a].reserved - OpenOf(task[t], a) + OpenOf(row, a)
           \/ ledger'[a].reserved + SelfTaken(a)' >=
                 ledger[a].reserved + SelfTaken(a) - OpenOf(task[t], a) + OpenOf(row, a)
    BY <1>2, <1>3, <1>4, <1>5, <1>6, <1>8, <1>7
<1>9. CASE ~Exists(a) /\ OpenOf(row, a) = 0 /\ ledger'[a].reserved = 0
    <2>1. Locked(hold, a) = 0 /\ OpenSum(task, a) = 0 /\ OpenOf(task[t], a) = 0
        BY <1>9, NoObligations
    <2> QED
        BY <1>2, <1>3, <1>9, <1>7, <2>1
<1> QED
    BY <1>8, <1>9

\* A step of a task that changes one hold.
LEMMA HoldBacked ==
    ASSUME TInv, PInv, TInv', PInv', LogStays, ObligationsBacked,
           NEW t \in Tasks, NEW row, Update(t, row),
           NEW h \in Holds, \A g \in Holds \ {h} : hold'[g] = hold[g],
           \A a \in Actors :
              ledger'[a].reserved >= ledger[a].reserved - OpenOf(task[t], a) + OpenOf(row, a)
                                     - Lock(hold[h], a) + Lock(hold'[h], a)
    PROVE  ObligationsBacked'
<1> SUFFICES ASSUME NEW a \in Actors PROVE ledger'[a].reserved + SelfTaken(a)' >= Obligations(a)'
    BY DEF ObligationsBacked, SelfTaken
<1>0. task \in [Tasks -> TaskRow]
    BY DEF TInv, TypeOK
<1>1. task'[t] = row /\ \A s \in Tasks \ {t} : task'[s] = task[s]
    BY <1>0 DEF Update
<1>2. /\ HoldTable(hold) /\ HoldTable(hold') /\ TaskTable(task) /\ TaskTable(task')
      /\ Obligations(a) = Locked(hold, a) + OpenSum(task, a)
      /\ Obligations(a)' = Locked(hold', a) + OpenSum(task', a)
    BY ObligationSums, ObligationSumsNext
<1>3. /\ OpenSum(task, a) \in Int /\ OpenOf(task[t], a) \in Int /\ OpenOf(row, a) \in Int
      /\ OpenSum(task', a) = OpenSum(task, a) - OpenOf(task[t], a) + OpenOf(row, a)
    BY <1>1, <1>2, OpenStep
<1>4. /\ Locked(hold, a) \in Int /\ Lock(hold[h], a) \in Int /\ Lock(hold'[h], a) \in Int
      /\ Locked(hold', a) = Locked(hold, a) - Lock(hold[h], a) + Lock(hold'[h], a)
    BY <1>2, LockStep
<1>5. ledger[a].reserved \in Int /\ ledger'[a].reserved \in Int
    BY DEF TInv, TypeOK, Row
<1>6. ledger[a].reserved + SelfTaken(a) >= Locked(hold, a) + OpenSum(task, a)
    BY <1>2 DEF ObligationsBacked, SelfTaken
<1>7. /\ SelfTaken(a) \in Int /\ SelfTaken(a)' \in Int /\ SelfTaken(a)' >= SelfTaken(a)
    BY SelfTakenGrows
<1> QED
    BY <1>2, <1>3, <1>4, <1>5, <1>6, <1>7

\* A task that goes on or returns has locked no more than before.
LEMMA KeptOpens ==
    ASSUME NEW r, Open(r) \in Nat, NEW row, Kept(r, row), NEW a
    PROVE  OpenOf(r, a) \in Nat /\ OpenOf(row, a) \in Nat /\ OpenOf(row, a) <= OpenOf(r, a)
<1>1. OpenOf(r, a) \in Nat
    BY DEF OpenOf
<1>2. CASE row = Returned
    BY <1>1, <1>2 DEF OpenOf, Owns, Returned, NewTask
<1>3. CASE row # Returned
    <2>1. SelfPriced(row) = SelfPriced(r)
        BY <1>3 DEF Kept, SelfPriced
    <2>2. Open(row) = Open(r) \/ Open(row) = 0
        BY <1>3, <2>1 DEF Kept, Open
    <2> QED
        BY <1>1, <1>3, <2>2 DEF Kept, OpenOf, Owns
<1> QED
    BY <1>2, <1>3

\* Steps that lock nothing and unlock nothing.
LEMMA QuietBacked ==
    ASSUME TInv, PInv, TInv', PInv', LogStays, ObligationsBacked,
           NEW t \in Tasks, NEW row, Update(t, row),
           Kept(task[t], row), UNCHANGED <<ledger, hold>>
    PROVE  ObligationsBacked'
<1>0. Open(task[t]) \in Nat
    BY TaskAmounts
<1>1. ASSUME NEW a \in Actors
      PROVE  ledger'[a].reserved >= ledger[a].reserved - OpenOf(task[t], a) + OpenOf(row, a)
    <2>1. ledger[a].reserved \in Int
        BY DEF TInv, TypeOK, Row
    <2> QED
        BY <1>0, <2>1, KeptOpens
<1> QED
    BY <1>1, TaskBacked

\* The timeout of a hold unlocks what the hold had locked.
LEMMA ExpireHoldBacked ==
    ASSUME TInv, PInv, TInv', PInv', LogStays, ObligationsBacked, NEW t \in Tasks, ExpireHold(t)
    PROVE  ObligationsBacked'
<1>0. task[t] \in TaskRow
    BY DEF TInv, TypeOK
<1>1. PICK row : Update(t, row) /\ Kept(task[t], row)
    BY ExpireRow
<1>2. CASE UNCHANGED db
    BY <1>1, <1>2, QuietBacked DEF db
<1>3. ASSUME NEW h \in task[t].todo, StillPending(hold[h]),
             hold' = [hold EXCEPT ![h].status = "timed_out"],
             ledger' = [ledger EXCEPT ![hold[h].agent] =
                           Settle(@, hold[h].reserved, CommitmentCost(hold[h].reserved))]
      PROVE  ObligationsBacked'
    <2>1. h \in Holds
        BY <1>0 DEF TaskRow
    <2>2. /\ hold \in [Holds -> HoldRow \cup {NoHold}] /\ ledger \in [Actors -> Row]
          /\ hold[h] \in HoldRow /\ hold[h].agent \in Actors /\ hold[h].reserved \in Nat
        BY <1>3, <2>1 DEF TInv, TypeOK, StillPending, NoHold, HoldRow
    <2>3. hold'[h].status = "timed_out" /\ \A g \in Holds \ {h} : hold'[g] = hold[g]
        BY <1>3, <2>1, <2>2 DEF HoldRow
    <2>4. ASSUME NEW a \in Actors
          PROVE  ledger'[a].reserved >= ledger[a].reserved - OpenOf(task[t], a) + OpenOf(row, a)
                                         - Lock(hold[h], a) + Lock(hold'[h], a)
        <3>1. /\ OpenOf(task[t], a) \in Nat /\ OpenOf(row, a) \in Nat
              /\ OpenOf(row, a) <= OpenOf(task[t], a)
            BY <1>1, TaskAmounts, KeptOpens
        <3>2. Lock(hold'[h], a) = 0
            BY <2>3 DEF Lock
        <3>3. ledger[a].reserved \in Int
            BY <2>2 DEF Row
        <3>4. CASE a = hold[h].agent
            <4>1. Lock(hold[h], a) = hold[h].reserved
                BY <1>3, <3>4 DEF Lock, StillPending
            <4>2. ledger'[a].reserved = ledger[a].reserved - hold[h].reserved
                BY <1>3, <2>2, <3>4 DEF Settle
            <4> QED
                BY <2>2, <3>1, <3>2, <3>3, <4>1, <4>2
        <3>5. CASE a # hold[h].agent
            <4>1. Lock(hold[h], a) = 0 /\ ledger'[a] = ledger[a]
                BY <1>3, <2>2, <3>5 DEF Lock
            <4> QED
                BY <3>1, <3>2, <3>3, <4>1
        <3> QED
            BY <3>4, <3>5
    <2> QED
        BY <1>1, <2>1, <2>3, <2>4, HoldBacked
<1> QED
    BY <1>2, <1>3 DEF ExpireHold

\* A hold_response unlocks what the hold had locked, or hands it to the task that
\* re-executes the action of the same agent.
LEMMA ResolveBacked ==
    ASSUME TInv, PInv, TInv', PInv', LogStays, ObligationsBacked, NEW t \in Tasks, Resolve(t)
    PROVE  ObligationsBacked'
<1> DEFINE q == task[t].action
           h == q.arg.hold
           r == hold[h]
           reject == q.arg.decision = "reject"
           cost == IF reject THEN CommitmentCost(r.reserved) ELSE 0
           again == [NewTask EXCEPT !.pc = "check", !.action = r.action,
                                    !.via = h, !.reserved = r.reserved]
<1>0. task[t] \in TaskRow
    BY DEF TInv, TypeOK
<1>1. CASE Return(t) /\ UNCHANGED db
    <2>1. Kept(task[t], Returned)
        BY DEF Kept
    <2> QED
        BY <1>1, <2>1, QuietBacked DEF Return, db
<1>2. ASSUME StillPending(r),
             hold' = [hold EXCEPT ![h].status = Decided(q.arg.decision)],
             ledger' = IF reject THEN [ledger EXCEPT ![r.agent] = Settle(@, r.reserved, cost)]
                       ELSE ledger,
             IF reject THEN Return(t) ELSE Update(t, again)
      PROVE  ObligationsBacked'
    <2>0. q \in Requests /\ IsHoldResponse(q)
        BY DEF TInv, TypeOK, TasksOK, Resolve, TaskOK, TaskRow
    <2>1. h \in Holds
        BY <2>0, RequestsAssumption DEF RequestOK
    <2>2. /\ hold \in [Holds -> HoldRow \cup {NoHold}] /\ ledger \in [Actors -> Row]
          /\ r \in HoldRow /\ r.agent \in Actors /\ r.reserved \in Nat
          /\ r.action \in Requests /\ r.agent = r.action.actor
        <3>1. hold \in [Holds -> HoldRow \cup {NoHold}] /\ ledger \in [Actors -> Row]
            BY DEF TInv, TypeOK
        <3>2. r # NoHold
            <4>1. r.status = "pending"
                BY <1>2, Zenon DEF StillPending
            <4> HIDE DEF r
            <4> QED
                BY <4>1 DEF NoHold
        <3>3. r \in HoldRow
            BY <2>1, <3>1, <3>2
        <3>4. r.agent = r.action.actor
            BY <2>1, <3>2 DEF PInv, HoldsNamed
        <3> HIDE DEF r
        <3> QED
            BY <3>1, <3>3, <3>4 DEF HoldRow
    <2>3. hold'[h].status # "pending" /\ \A g \in Holds \ {h} : hold'[g] = hold[g]
        BY <1>2, <2>1, <2>2 DEF HoldRow, Decided
    <2>4. \A a : Lock(hold'[h], a) = 0 /\ Lock(r, a) = IF a = r.agent THEN r.reserved ELSE 0
        BY <1>2, <2>3 DEF Lock, StillPending
    <2>5. \A a \in Actors : ledger[a].reserved \in Int
        BY <2>2 DEF Row
    <2>6. \A a : OpenOf(task[t], a) \in Nat /\ OpenOf(Returned, a) = 0
        <3>1. Kept(task[t], Returned) /\ Returned.action = None
            BY DEF Kept, Returned, NewTask
        <3> QED
            BY <3>1, TaskAmounts, KeptOpens DEF OpenOf, Owns
    <2>7. CASE reject
        <3>1. ASSUME NEW a \in Actors
              PROVE  ledger'[a].reserved >= ledger[a].reserved - OpenOf(task[t], a)
                        + OpenOf(Returned, a) - Lock(hold[h], a) + Lock(hold'[h], a)
            <4>0. Lock(hold[h], a) = IF a = r.agent THEN r.reserved ELSE 0
                BY <2>4
            <4>1. CASE a = r.agent
                <5>1. ledger'[a].reserved = ledger[a].reserved - r.reserved
                    BY <1>2, <2>2, <2>7, <4>1 DEF Settle
                <5> HIDE DEF r
                <5> QED
                    BY <2>2, <2>4, <2>5, <2>6, <4>0, <4>1, <5>1
            <4>2. CASE a # r.agent
                <5>1. ledger'[a] = ledger[a]
                    BY <1>2, <2>2, <2>7, <4>2
                <5> HIDE DEF r
                <5> QED
                    BY <2>4, <2>5, <2>6, <4>0, <4>2, <5>1
            <4> QED
                BY <4>1, <4>2
        <3> QED
            BY <1>2, <2>1, <2>3, <2>7, <3>1, HoldBacked DEF Return
    <2>8. CASE ~reject
        <3>0. /\ again.action = r.action /\ again.reserved = r.reserved /\ ~Post(again)
              /\ ~SelfPriced(again)
            BY <2>1, NoneAssumption DEF NewTask, Post, SelfPriced
        <3>1. r.action # None
            BY <2>2, NoneAssumption
        <3>2. \A a : OpenOf(again, a) = IF a = r.agent THEN r.reserved ELSE 0
            BY <2>2, <3>0, <3>1 DEF OpenOf, Owns, Open
        <3>3. ASSUME NEW a \in Actors
              PROVE  ledger'[a].reserved >= ledger[a].reserved - OpenOf(task[t], a)
                        + OpenOf(again, a) - Lock(hold[h], a) + Lock(hold'[h], a)
            <4>0. Lock(hold[h], a) = IF a = r.agent THEN r.reserved ELSE 0
                BY <2>4
            <4>1. OpenOf(again, a) = Lock(hold[h], a) /\ Lock(hold[h], a) \in Nat
                <5> HIDE DEF r, again
                <5> QED
                    BY <2>2, <3>2, <4>0
            <4>2. ledger' = ledger
                BY <1>2, <2>8
            <4> HIDE DEF r, again
            <4> QED
                BY <2>4, <2>5, <2>6, <4>1, <4>2
        <3>4. Update(t, again)
            BY <1>2, <2>8
        <3> HIDE DEF again
        <3> QED
            BY <2>1, <2>3, <3>3, <3>4, HoldBacked
    <2> QED
        BY <2>7, <2>8
<1> QED
    BY <1>1, <1>2 DEF Resolve

\* A triggered hold and a reservation are in the ledger at once.
LEMMA ReservationBacked ==
    ASSUME TInv, PInv, TInv', PInv', LogStays, ObligationsBacked, NEW t \in Tasks,
           Trigger(t) \/ ReserveEnergy(t)
    PROVE  ObligationsBacked'
<1> DEFINE q == task[t].action
           cost == QuoteCost(q)
<1>0. task[t] \in TaskRow /\ ledger \in [Actors -> Row] /\ hold \in [Holds -> HoldRow \cup {NoHold}]
    BY DEF TInv, TypeOK
<1>1. q \in Requests /\ q # None
    BY DEF TInv, TypeOK, TasksOK, TaskOK, TaskRow, Trigger, ReserveEnergy
<1>2. q.actor \in Actors
    BY <1>1, RequestsAssumption DEF RequestOK
<1>3. cost \in Nat
    BY <1>1, QuotePositive
<1> HIDE DEF cost
<1>4. Kept(task[t], Returned) /\ \A a : OpenOf(task[t], a) \in Nat /\ OpenOf(Returned, a) = 0
    <2>1. Kept(task[t], Returned) /\ Returned.action = None
        BY DEF Kept, Returned, NewTask
    <2> QED
        BY <2>1, TaskAmounts, KeptOpens DEF OpenOf, Owns
<1>5. CASE Return(t) /\ UNCHANGED db
    BY <1>4, <1>5, QuietBacked DEF Return, db
<1>6. ASSUME ledger' = [ledger EXCEPT ![q.actor] = Reserve(@, cost)]
      PROVE  \A a \in Actors : /\ ledger[a].reserved \in Int
                                /\ ledger'[a].reserved =
                                      ledger[a].reserved + IF a = q.actor THEN cost ELSE 0
    BY <1>0, <1>2, <1>3, <1>6 DEF Row, Reserve
<1>7. ASSUME NEW h \in Holds, hold[h] = NoHold, NEW row, row.status = "pending",
             row.agent = q.actor, row.reserved = cost, hold' = [hold EXCEPT ![h] = row],
             ledger' = [ledger EXCEPT ![q.actor] = Reserve(@, cost)], Return(t)
      PROVE  ObligationsBacked'
    <2>1. hold'[h] = row /\ \A g \in Holds \ {h} : hold'[g] = hold[g]
        BY <1>0, <1>7
    <2>2. \A a : Lock(hold[h], a) = 0 /\ Lock(hold'[h], a) = IF a = q.actor THEN cost ELSE 0
        BY <1>7, <2>1 DEF Lock, NoHold
    <2>3. ASSUME NEW a \in Actors
          PROVE  ledger'[a].reserved >= ledger[a].reserved - OpenOf(task[t], a)
                    + OpenOf(Returned, a) - Lock(hold[h], a) + Lock(hold'[h], a)
        BY <1>3, <1>4, <1>6, <1>7, <2>2
    <2> QED
        BY <1>7, <2>1, <2>3, HoldBacked DEF Return
<1>8. CASE Trigger(t)
    <2> DEFINE row == [status |-> "pending", envelope |-> task[t].envelope, agent |-> q.actor,
                       action |-> q, reserved |-> cost, triggeredAt |-> clock]
    <2>0. Return(t)
        BY <1>8 DEF Trigger
    <2>1. CASE ~UNCHANGED db
        <3>1. PICK h \in Holds :
                 /\ hold[h] = NoHold
                 /\ hold' = [hold EXCEPT ![h] = row]
                 /\ ledger' = [ledger EXCEPT ![q.actor] = Reserve(@, cost)]
            BY <1>8, <2>1, Zenon DEF Trigger, cost
        <3>2. row.status = "pending" /\ row.agent = q.actor /\ row.reserved = cost
            OBVIOUS
        <3> HIDE DEF row
        <3> QED
            BY <1>7, <2>0, <3>1, <3>2
    <2> QED
        BY <1>5, <2>0, <2>1
<1>9. CASE ReserveEnergy(t)
    <2> DEFINE row == [task[t] EXCEPT !.pc = "finalize", !.reserved = cost]
    <2>1. CASE /\ ledger' = [ledger EXCEPT ![q.actor] = Reserve(@, cost)]
               /\ Update(t, row) /\ UNCHANGED hold
        <3>1. row.action = q /\ row.reserved = cost /\ ~Post(row) /\ ~SelfPriced(row)
            BY <1>0, <1>9 DEF TaskRow, Post, SelfPriced, ReserveEnergy
        <3> HIDE DEF row
        <3>2. \A a : OpenOf(row, a) = IF a = q.actor THEN cost ELSE 0
            BY <1>1, <3>1 DEF OpenOf, Owns, Open
        <3>3. ASSUME NEW a \in Actors
              PROVE  ledger'[a].reserved >= ledger[a].reserved - OpenOf(task[t], a) + OpenOf(row, a)
            BY <1>3, <1>4, <1>6, <2>1, <3>2
        <3> QED
            BY <2>1, <3>3, TaskBacked
    <2> QED
        BY <1>5, <1>9, <2>1 DEF ReserveEnergy, cost
<1> QED
    BY <1>8, <1>9

\* A commit settles the reservation of its own task and no other, unless its
\* client priced it: then its event tells what it took.
LEMMA FinalizeBacked ==
    ASSUME TInv, PInv, TInv', PInv', LogStays, ObligationsBacked, NEW t \in Tasks, Finalize(t)
    PROVE  ObligationsBacked'
<1> DEFINE q == task[t].action
           cost == task[t].reserved
           settled == IF cost > 0 THEN [ledger EXCEPT ![q.actor] = Settle(@, cost, cost)] ELSE ledger
           event == ActionEvent(task[t])
           taken == IF cost > 0 THEN cost ELSE 0
           row == At(task[t], AfterCommit(q, cost))
<1>0. /\ task[t] \in TaskRow /\ TaskOK(task[t], actor, envelope)
      /\ Story(task[t], actor, envelope, hold) /\ ledger \in [Actors -> Row]
    BY DEF TInv, TypeOK, TasksOK, PInv, Stories
<1>1. CASE Return(t) /\ UNCHANGED db
    <2>1. Kept(task[t], Returned)
        BY DEF Kept
    <2> QED
        BY <1>1, <2>1, QuietBacked DEF Return, db
<1>2. /\ q \in Requests /\ q # None /\ cost \in Int /\ Exists(q.actor)
      /\ cost > 0 \/ SelfPriced(task[t])
    BY <1>0 DEF Finalize, TaskOK, TaskRow, Amount, Story, KnownActor, Exists
<1>3. q.actor \in Actors /\ (IsCreateActor(q) => q.arg.id \in Actors)
    BY <1>2, RequestsAssumption DEF RequestOK
<1>4. \A a : OpenOf(row, a) = 0
    <2>1. CASE AfterCommit(q, cost) = "done"
        BY <2>1 DEF At, Returned, NewTask, OpenOf, Owns
    <2>2. CASE AfterCommit(q, cost) \in {"account", "lifecycle"}
        <3>1. row.pc = AfterCommit(q, cost)
            BY <1>0, <2>2 DEF At, TaskRow
        <3> QED
            BY <2>2, <3>1 DEF OpenOf, Open, Post
    <2> QED
        BY <2>1, <2>2 DEF AfterCommit, AfterBudget
<1>5. \A a : OpenOf(task[t], a) = IF a = q.actor /\ ~SelfPriced(task[t]) THEN taken ELSE 0
    BY <1>2 DEF OpenOf, Owns, Open, Post, Finalize
<1>6. \A a \in Actors :
         /\ ledger[a].reserved \in Int
         /\ settled[a].reserved = ledger[a].reserved - IF a = q.actor THEN taken ELSE 0
    BY <1>0, <1>2, <1>3 DEF Row, Settle
<1>7. settled \in [Actors -> Row]
    BY <1>0, <1>2, <1>3 DEF Row, Settle
<1>8. /\ event \in EventRow /\ taken \in Nat
      /\ \A a : SelfCharge(event, a) = IF a = q.actor /\ SelfPriced(task[t]) THEN taken ELSE 0
    BY <1>0, <1>2, ActionEventType DEF ActionEvent, SelfCharge, Taken
<1>9. ASSUME Update(t, row), UNCHANGED hold, log' = Append(log, event),
             \/ ledger' = settled
             \/ /\ IsCreateActor(q) /\ ~Exists(q.arg.id)
                /\ ledger' = [settled EXCEPT ![q.arg.id] = NewAccount(q.arg.energy)]
      PROVE  ObligationsBacked'
    <2> HIDE DEF settled, row, event, taken
    <2>1. ASSUME NEW a \in Actors
          PROVE  \/ ledger'[a].reserved + SelfTaken(a)' >=
                       ledger[a].reserved + SelfTaken(a) - OpenOf(task[t], a) + OpenOf(row, a)
                 \/ ~Exists(a) /\ OpenOf(row, a) = 0 /\ ledger'[a].reserved = 0
        <3>1. CASE ledger'[a] = settled[a]
            <4>1. SelfTaken(a) \in Int /\ SelfTaken(a)' = SelfTaken(a) + SelfCharge(event, a)
                BY <1>8, <1>9, SelfTakenStep
            <4>2. OpenOf(task[t], a) + SelfCharge(event, a) = IF a = q.actor THEN taken ELSE 0
                BY <1>5, <1>8
            <4>3. OpenOf(task[t], a) \in Int /\ SelfCharge(event, a) \in Int
                BY <1>5, <1>8
            <4> QED
                BY <1>4, <1>6, <1>8, <3>1, <4>1, <4>2, <4>3
        <3>2. CASE ledger'[a] # settled[a]
            <4>1. IsCreateActor(q) /\ ~Exists(q.arg.id) /\ a = q.arg.id
                  /\ ledger'[a] = NewAccount(q.arg.energy)
                BY <1>3, <1>7, <1>9, <3>2
            <4> QED
                BY <1>4, <4>1 DEF NewAccount
        <3> QED
            BY <3>1, <3>2
    <2> QED
        BY <1>9, <2>1, TaskBacked
<1> QED
    BY <1>1, <1>9 DEF Finalize, Goto

\* A request that its client priced has locked nothing before or after it takes
\* that price.
LEMMA PrepaidBacked ==
    ASSUME TInv, PInv, TInv', PInv', LogStays, ObligationsBacked, NEW t \in Tasks, TakePrepaid(t)
    PROVE  ObligationsBacked'
<1> DEFINE row == [task[t] EXCEPT !.pc = "finalize", !.reserved = task[t].action.prepaid]
<1>0. task[t] \in TaskRow
    BY DEF TInv, TypeOK
<1>1. SelfPriced(task[t]) /\ SelfPriced(row)
    BY <1>0 DEF TakePrepaid, SelfPriced, TaskRow
<1>2. Update(t, row) /\ UNCHANGED <<ledger, hold>>
    BY DEF TakePrepaid, db
<1> HIDE DEF row
<1>3. \A b : OpenOf(task[t], b) = 0 /\ OpenOf(row, b) = 0
    BY <1>1 DEF OpenOf, Open
<1>4. ASSUME NEW b \in Actors
      PROVE  ledger'[b].reserved >= ledger[b].reserved - OpenOf(task[t], b) + OpenOf(row, b)
    <2>1. ledger[b].reserved \in Int
        BY DEF TInv, TypeOK, Row
    <2> QED
        BY <1>2, <1>3, <2>1
<1> QED
    BY <1>2, <1>4, TaskBacked

\* A new request has locked nothing.
LEMMA SubmitBacked ==
    ASSUME TInv, PInv, TInv', PInv', LogStays, ObligationsBacked, NEW t \in Tasks, Submit(t)
    PROVE  ObligationsBacked'
<1>0. task[t] = NewTask /\ task[t] \in TaskRow
    BY DEF TInv, TypeOK, PInv, Stories, Story, KnownActor, Submit
<1>1. PICK a \in Requests : Update(t, [task[t] EXCEPT !.pc = "check", !.action = a])
    BY DEF Submit
<1> DEFINE row == [task[t] EXCEPT !.pc = "check", !.action = a]
<1>2. row.reserved = 0 /\ task[t].reserved = 0
    BY <1>0 DEF NewTask
<1> HIDE DEF row
<1>3. \A b : OpenOf(task[t], b) = 0 /\ OpenOf(row, b) = 0
    BY <1>2 DEF OpenOf, Open
<1>4. ASSUME NEW b \in Actors
      PROVE  ledger'[b].reserved >= ledger[b].reserved - OpenOf(task[t], b) + OpenOf(row, b)
    <2>1. ledger[b].reserved \in Int /\ ledger' = ledger
        BY DEF TInv, TypeOK, Row, Submit, db
    <2> QED
        BY <1>3, <2>1
<1>5. Update(t, row) /\ UNCHANGED hold
    BY <1>1 DEF row, Submit, db
<1> QED
    BY <1>4, <1>5, TaskBacked

\* Production and time lock nothing, and a crash only forgets what was to be
\* settled.
LEMMA SystemBacked ==
    ASSUME TInv, PInv, TInv', PInv', LogStays, ObligationsBacked, System \/ UNCHANGED vars
    PROVE  ObligationsBacked'
<1> SUFFICES ASSUME NEW a \in Actors PROVE ledger'[a].reserved + SelfTaken(a)' >= Obligations(a)'
    BY DEF ObligationsBacked, SelfTaken
<1>0. /\ HoldTable(hold) /\ TaskTable(task) /\ TaskTable(task')
      /\ Obligations(a) = Locked(hold, a) + OpenSum(task, a)
      /\ Obligations(a)' = Locked(hold', a) + OpenSum(task', a)
    BY ObligationSums, ObligationSumsNext
<1>1. hold' = hold
    BY DEF System, ListShares, CreditShares, CreditFails, Elapse, Crash, Restart, db, vars
<1>2. ledger'[a].reserved = ledger[a].reserved
    <2>1. CASE CreditShares
        <3> DEFINE given(credit, b) == IF b \in DOMAIN credit THEN credit[b] ELSE 0
        <3>1. PICK credit \in Allocations(EnergyPerTick, producer) :
                 ledger' = [b \in Actors |-> Credit(ledger[b], given(credit, b))]
            BY <2>1, Zenon DEF CreditShares
        <3> HIDE DEF given
        <3>2. ledger[a] \in Row
            BY DEF TInv, TypeOK
        <3> QED
            BY <3>1, <3>2 DEF Credit, Row
    <2>2. CASE ~CreditShares
        BY <2>2 DEF System, ListShares, CreditFails, Elapse, Crash, Restart, db, vars
    <2> QED
        BY <2>1, <2>2
<1>3. \A t \in Tasks : task'[t] = task[t] \/ task'[t].action = None
    BY DEF System, ListShares, CreditShares, CreditFails, Elapse, Crash, Restart, vars, Returned, NewTask
<1>4. OpenSum(task', a) <= OpenSum(task, a)
    BY <1>0, <1>3, ForgetStep
<1>5. Locked(hold, a) \in Int /\ OpenSum(task, a) \in Int /\ OpenSum(task', a) \in Int
    <2> DEFINE f == [h \in PendingIn(hold, a) |-> hold[h].reserved]
               g == [t \in OwnedIn(task, a) |-> Open(task[t])]
               g2 == [t \in OwnedIn(task', a) |-> Open(task'[t])]
    <2>1. /\ Summable(f) /\ Locked(hold, a) = SumFunction(f)
        BY <1>0, LocksSummable DEF Locked
    <2>2. Summable(g) /\ OpenSum(task, a) = SumFunction(g)
        BY <1>0, OpenSummable DEF OpenSum
    <2>3. Summable(g2) /\ OpenSum(task', a) = SumFunction(g2)
        BY <1>0, OpenSummable DEF OpenSum
    <2> QED
        BY <2>1, <2>2, <2>3, SumFunctionInt
<1>6. /\ ledger[a].reserved \in Int
      /\ ledger[a].reserved + SelfTaken(a) >= Locked(hold, a) + OpenSum(task, a)
    BY <1>0 DEF TInv, TypeOK, Row, ObligationsBacked, SelfTaken
<1>7. SelfTaken(a) \in Int /\ SelfTaken(a)' \in Int /\ SelfTaken(a)' >= SelfTaken(a)
    BY SelfTakenGrows
<1> QED
    BY <1>0, <1>1, <1>2, <1>4, <1>5, <1>6, <1>7

\* Nothing is reserved and nothing is owed at the start.
LEMMA InitBacked == Init => ObligationsBacked
<1> SUFFICES ASSUME Init, NEW a \in Actors
             PROVE  ledger[a].reserved + SettledBy(SelfPaid(a)) >= Obligations(a)
    BY DEF ObligationsBacked
<1>1. PendingHolds(a) = {} /\ TasksOf(a) = {} /\ SelfPaid(a) = {}
    BY DEF Init, PendingHolds, TasksOf, NoHold, NewTask, SelfPaid, PaidBy
<1>2. Obligations(a) = 0 /\ SettledBy(SelfPaid(a)) = 0
    BY <1>1, SumFunctionEmpty DEF Obligations, SettledBy
<1>3. ledger[a].reserved = 0
    BY TablesAssumption DEF Init
<1> QED
    BY <1>2, <1>3

\* ObligationsBacked is inductive relative to TInv and PInv.
LEMMA NextBacked ==
    TInv /\ PInv /\ TInv' /\ PInv' /\ ObligationsBacked /\ [Next]_vars => ObligationsBacked'
<1> SUFFICES ASSUME TInv, PInv, TInv', PInv', ObligationsBacked, [Next]_vars
             PROVE  ObligationsBacked'
    OBVIOUS
<1>0. LogStays
    BY StepExplained DEF PInv, Explains, Settles, LogStays
<1>1. ASSUME NEW t \in Tasks,
             \/ Abort(t) \/ SkipTimeout(t) \/ SkipBudget(t) \/ Check(t) \/ CheckLineage(t)
             \/ Authorize(t) \/ ExpireEnvelope(t) \/ ListHolds(t) \/ Respond(t) \/ Parse(t)
             \/ RejectPayload(t) \/ Account(t) \/ Consume(t) \/ Lifecycle(t)
      PROVE  ObligationsBacked'
    <2>1. PICK row : Update(t, row) /\ Kept(task[t], row)
        BY <1>1, QuietRow
    <2>2. UNCHANGED <<ledger, hold>>
        BY <1>1 DEF Abort, SkipTimeout, SkipBudget, Check, CheckLineage, Authorize, ExpireEnvelope,
                    ListHolds, Respond, Parse, RejectPayload, Account, Consume, Lifecycle, db
    <2> QED
        BY <1>0, <2>1, <2>2, QuietBacked
<1>2. ASSUME NEW t \in Tasks, TaskStep(t) PROVE ObligationsBacked'
    BY <1>0, <1>1, <1>2, ExpireHoldBacked, ResolveBacked, ReservationBacked, PrepaidBacked,
       FinalizeBacked
    DEF TaskStep, Progress
<1>3. ASSUME NEW t \in Tasks, ClientStep(t) PROVE ObligationsBacked'
    BY <1>0, <1>1, <1>3, SubmitBacked DEF ClientStep
<1> QED
    BY <1>0, <1>2, <1>3, SystemBacked DEF Next

\* All that is still to be settled is locked in the ledger, all of it together,
\* but for what requests of the same actor have taken on a _hold_reserved_cost
\* that their client sent: neither a timeout that races a response, nor a
\* re-execution, nor any other commit uses up the lock of another request, and a
\* crash leaves locks behind but none missing.
THEOREM ReservationsBacked == Spec => []ObligationsBacked
<1>1. TInv /\ PInv /\ ObligationsBacked /\ [Next]_vars => (TInv /\ PInv /\ ObligationsBacked)'
    BY NextTInv, NextPInv, NextBacked
<1> QED
    BY <1>1, InitTInv, InitPInv, InitBacked, PTL DEF Spec

\* Every settlement of an actor that is still to come would go through now, as
\* long as no request that its client priced has taken from that actor's row.
Settleable ==
    \A a \in Actors : SettledBy(SelfPaid(a)) = 0 =>
        /\ \A t \in TasksOf(a) : task[t].pc = "finalize" /\ ~SelfPriced(task[t]) =>
              CanSettle(ledger[a], task[t].reserved, task[t].reserved)
        /\ \A h \in PendingHolds(a) :
              CanSettle(ledger[a], hold[h].reserved, CommitmentCost(hold[h].reserved))

\* A settlement that charges at most what the row has reserved goes through.
LEMMA ReservedSettles ==
    ASSUME NEW row \in Row, Consistent(row), NEW reserved \in Nat, NEW actual \in Nat,
           actual <= reserved, reserved <= row.reserved
    PROVE  CanSettle(row, reserved, actual)
BY DEF Row, Consistent, CanSettle, Available, ExtraNeeded

\* settle_in_tx never fails for an actor whose clients leave _hold_reserved_cost
\* alone: no commit, no rejection and no timeout meets a "reserved mismatch" or a
\* balance that is too small, whatever other requests have reserved and settled
\* since.
THEOREM SettlementsSucceed == Spec => []Settleable
<1>1. TInv /\ PInv /\ ObligationsBacked /\ SInv => Settleable
    <2> SUFFICES ASSUME TInv, PInv, ObligationsBacked, SInv,
                        NEW a \in Actors, SettledBy(SelfPaid(a)) = 0
                 PROVE  /\ \A t \in TasksOf(a) : task[t].pc = "finalize" /\ ~SelfPriced(task[t]) =>
                              CanSettle(ledger[a], task[t].reserved, task[t].reserved)
                        /\ \A h \in PendingHolds(a) :
                              CanSettle(ledger[a], hold[h].reserved, CommitmentCost(hold[h].reserved))
        BY DEF Settleable
    <2>1. /\ ledger[a] \in Row /\ Consistent(ledger[a])
          /\ \A h \in PendingHolds(a) : hold[h].reserved <= ledger[a].reserved
          /\ \A t \in TasksOf(a) : Open(task[t]) <= ledger[a].reserved
        <3> DEFINE f == [h \in PendingIn(hold, a) |-> hold[h].reserved]
                   g == [t \in OwnedIn(task, a) |-> Open(task[t])]
        <3>1. /\ HoldTable(hold) /\ TaskTable(task)
              /\ Obligations(a) = SumFunction(f) + SumFunction(g)
            BY ObligationSums DEF Locked, OpenSum
        <3>2. /\ DOMAIN f = PendingHolds(a) /\ Summable(f)
              /\ \A h \in DOMAIN f : f[h] = hold[h].reserved /\ f[h] \in Nat
            <4>1. PendingHolds(a) = PendingIn(hold, a)
                BY DEF PendingHolds, PendingIn
            <4> QED
                BY <3>1, <4>1, LocksSummable
        <3>3. /\ DOMAIN g = TasksOf(a) /\ Summable(g)
              /\ \A t \in DOMAIN g : g[t] = Open(task[t]) /\ g[t] \in Nat
            <4>1. TasksOf(a) = OwnedIn(task, a)
                BY DEF TasksOf, OwnedIn
            <4> QED
                BY <3>1, <4>1, OpenSummable
        <3> HIDE DEF f, g
        <3>4. /\ SumFunction(f) \in Int /\ SumFunction(f) >= 0
              /\ SumFunction(g) \in Int /\ SumFunction(g) >= 0
            BY <3>2, <3>3, SumFunctionInt, SumNat
        <3>5. \A h \in DOMAIN f : f[h] <= SumFunction(f)
            BY <3>2, SumCovers
        <3>6. \A t \in DOMAIN g : g[t] <= SumFunction(g)
            BY <3>3, SumCovers
        <3>7. /\ ledger[a] \in Row /\ Consistent(ledger[a]) /\ ledger[a].reserved \in Int
              /\ ledger[a].reserved >= SumFunction(f) + SumFunction(g)
            BY <3>1, <3>4 DEF TInv, TypeOK, Row, SInv, LedgerSound, ObligationsBacked
        <3> QED
            BY <3>2, <3>3, <3>4, <3>5, <3>6, <3>7
    <2>2. ASSUME NEW t \in TasksOf(a), task[t].pc = "finalize", ~SelfPriced(task[t])
          PROVE  CanSettle(ledger[a], task[t].reserved, task[t].reserved)
        <3>1. t \in Tasks
            BY DEF TasksOf
        <3>2. Open(task[t]) = task[t].reserved
            BY <2>2 DEF Open, Post
        <3>3. task[t].reserved \in Nat
            BY <3>1, <3>2, TaskAmounts
        <3> QED
            BY <2>1, <3>2, <3>3, ReservedSettles
    <2>3. ASSUME NEW h \in PendingHolds(a)
          PROVE  CanSettle(ledger[a], hold[h].reserved, CommitmentCost(hold[h].reserved))
        <3>1. hold[h].reserved \in Nat
            BY DEF PendingHolds, TInv, TypeOK, NoHold, HoldRow
        <3>2. /\ CommitmentCost(hold[h].reserved) \in Nat
              /\ CommitmentCost(hold[h].reserved) <= hold[h].reserved
            BY <3>1, CommitmentBounded
        <3> QED
            BY <2>1, <3>1, <3>2, ReservedSettles
    <2> QED
        BY <2>2, <2>3
<1>2. TInv /\ PInv /\ ObligationsBacked /\ SInv /\ [Next]_vars
         => (TInv /\ PInv /\ ObligationsBacked /\ SInv)'
    BY NextTInv, NextPInv, NextBacked, NextSInv
<1> QED
    BY <1>1, <1>2, InitTInv, InitPInv, InitBacked, InitSInv, PTL DEF Spec

-----------------------------------------------------------------------------
\* Envelopes are charged for committed actions only.

HeldIn(env, a) == {e \in Envelopes : env[e].status # "absent" /\ env[e].holder = a}

ConsumedSum(env, a) == SumFunction([e \in HeldIn(env, a) |-> env[e].consumed])

\* What an envelope contributes to the charges of a.
Used(row, a) == IF row.status # "absent" /\ row.holder = a THEN row.consumed ELSE 0

\* Finitely many envelopes.
EnvelopeTable(env) ==
    /\ env \in [Envelopes -> EnvelopeRow \cup {NoEnvelope}]
    /\ IsFiniteSet({e \in Envelopes : env[e] # NoEnvelope})

\* ChargesBacked is not inductive: the charge comes two transactions after the
\* event it is for.  What is still to be charged is covered as well.
CInv == \A a \in Actors : ConsumedSum(envelope, a) + DueSum(task, a) <= Spent(a)

\* What the envelopes of an actor have consumed are finitely many natural numbers.
LEMMA ConsumedSummable ==
    ASSUME NEW env, EnvelopeTable(env), NEW a, NEW f, f = [e \in HeldIn(env, a) |-> env[e].consumed]
    PROVE  /\ DOMAIN f = HeldIn(env, a)
           /\ Summable(f)
           /\ \A e \in DOMAIN f : f[e] = env[e].consumed /\ f[e] \in Nat
<1>1. HeldIn(env, a) \subseteq {e \in Envelopes : env[e] # NoEnvelope}
    BY DEF HeldIn, NoEnvelope
<1>2. IsFiniteSet(HeldIn(env, a))
    BY <1>1, FS_Subset DEF EnvelopeTable
<1>3. \A e \in HeldIn(env, a) : env[e].consumed \in Nat
    BY <1>1 DEF EnvelopeTable, EnvelopeRow, HeldIn
<1> QED
    BY <1>2, <1>3 DEF Summable

\* A change of one envelope.
LEMMA ConsumedStep ==
    ASSUME NEW env, NEW env2, EnvelopeTable(env), EnvelopeTable(env2), NEW e \in Envelopes,
           \A g \in Envelopes \ {e} : env2[g] = env[g], NEW a
    PROVE  /\ ConsumedSum(env, a) \in Int /\ Used(env[e], a) \in Int /\ Used(env2[e], a) \in Int
           /\ ConsumedSum(env2, a) = ConsumedSum(env, a) - Used(env[e], a) + Used(env2[e], a)
<1> DEFINE f == [g \in HeldIn(env, a) |-> env[g].consumed]
           f2 == [g \in HeldIn(env2, a) |-> env2[g].consumed]
<1>0. ConsumedSum(env, a) = SumFunction(f) /\ ConsumedSum(env2, a) = SumFunction(f2)
    BY DEF ConsumedSum
<1>1. /\ DOMAIN f = HeldIn(env, a) /\ Summable(f)
      /\ \A g \in DOMAIN f : f[g] = env[g].consumed
    BY ConsumedSummable
<1>2. /\ DOMAIN f2 = HeldIn(env2, a) /\ Summable(f2)
      /\ \A g \in DOMAIN f2 : f2[g] = env2[g].consumed
    BY ConsumedSummable
<1> HIDE DEF f, f2
<1>3. HeldIn(env, a) \ {e} = HeldIn(env2, a) \ {e}
    BY DEF HeldIn
<1>4. \A g \in DOMAIN f \ {e} : f2[g] = f[g]
    BY <1>1, <1>2, <1>3 DEF HeldIn
<1>5. /\ SumFunction(f) \in Int
      /\ SumFunction(f2) = SumFunction(f) - Term(f, e) + Term(f2, e)
    BY <1>1, <1>2, <1>3, <1>4, SumStep
<1>6. Term(f, e) = Used(env[e], a) /\ Term(f2, e) = Used(env2[e], a)
    BY <1>1, <1>2 DEF Term, Used, HeldIn
<1>7. Term(f, e) \in Int /\ Term(f2, e) \in Int
    BY <1>1, <1>2 DEF Term, Summable
<1> QED
    BY <1>0, <1>5, <1>6, <1>7

\* The tables of a state are finite, before and after a step.
LEMMA ChargeTables ==
    ASSUME TInv, PInv, TInv', PInv', NEW a \in Actors
    PROVE  /\ EnvelopeTable(envelope) /\ EnvelopeTable(envelope')
           /\ TaskTable(task) /\ TaskTable(task')
           /\ ConsumedSum(envelope, a) \in Int /\ DueSum(task, a) \in Int
           /\ DueSum(task', a) \in Int /\ Spent(a) \in Int
<1>1. EnvelopeTable(envelope) /\ EnvelopeTable(envelope') /\ TaskTable(task) /\ TaskTable(task')
    BY TaskAmounts, TaskAmountsNext
    DEF TInv, TypeOK, PInv, FiniteRows, EnvelopeTable, TaskTable
<1> DEFINE f == [e \in HeldIn(envelope, a) |-> envelope[e].consumed]
           g == [t \in OwnedIn(task, a) |-> Due(task[t])]
           g2 == [t \in OwnedIn(task', a) |-> Due(task'[t])]
<1>2. Summable(f) /\ ConsumedSum(envelope, a) = SumFunction(f)
    BY <1>1, ConsumedSummable DEF ConsumedSum
<1>3. Summable(g) /\ DueSum(task, a) = SumFunction(g)
    BY <1>1, DueSummable DEF DueSum
<1>4. Summable(g2) /\ DueSum(task', a) = SumFunction(g2)
    BY <1>1, DueSummable DEF DueSum
<1>5. Spent(a) \in Int
    <2>1. log \in Seq(EventRow) /\ AgentEvents(a) \in SUBSET DOMAIN log
        BY DEF TInv, TypeOK, AgentEvents
    <2> QED
        BY <2>1, SettledInt DEF Spent
<1> HIDE DEF f, g, g2
<1> QED
    BY <1>1, <1>2, <1>3, <1>4, <1>5, SumFunctionInt

\* What a step adds to the energy spent by a.
Adds(event, a) ==
    IF event.actor = a /\ event.type \in {"create", "mutate", "execute"} THEN Taken(event) ELSE 0

\* An event adds what it settles to what its actor has spent.
LEMMA SpentGrows ==
    ASSUME TInv, NEW event \in EventRow, log' = Append(log, event), NEW a \in Actors
    PROVE  Spent(a)' = Spent(a) + Adds(event, a) /\ Adds(event, a) \in Nat
<1> DEFINE J == {i \in DOMAIN log' : log'[i].actor = a /\ log'[i].type \in {"create", "mutate", "execute"}}
<1>0. log \in Seq(EventRow)
    BY DEF TInv, TypeOK
<1>1. /\ DOMAIN log' = DOMAIN log \cup {Len(log) + 1}
      /\ \A i \in DOMAIN log : log'[i] = log[i]
      /\ log'[Len(log) + 1] = event
      /\ Len(log) + 1 \notin DOMAIN log
    BY <1>0, Appended
<1>2. /\ AgentEvents(a) \in SUBSET DOMAIN log /\ J \in SUBSET DOMAIN log'
      /\ J \ {Len(log) + 1} = AgentEvents(a)
      /\ Len(log) + 1 \in J <=>
            event.actor = a /\ event.type \in {"create", "mutate", "execute"}
    BY <1>1 DEF AgentEvents
<1> HIDE DEF J
<1>3. SumFunction([i \in J |-> Taken(log'[i])]) =
         SettledBy(AgentEvents(a)) + IF Len(log) + 1 \in J THEN Taken(event) ELSE 0
    BY <1>0, <1>2, SettledGrows
<1>4. SumFunction([i \in J |-> Taken(log'[i])]) = SettledBy(AgentEvents(a)) + Adds(event, a)
    BY <1>2, <1>3 DEF Adds
<1>5. Spent(a)' = SumFunction([i \in J |-> Taken(log'[i])])
    BY DEF Spent, SettledBy, AgentEvents, J
<1>6. Adds(event, a) \in Nat
    BY TakenType DEF Adds
<1> QED
    BY <1>4, <1>5, <1>6 DEF Spent

\* A step of a task that charges no more than what is due and what it spends.
LEMMA TaskCharges ==
    ASSUME TInv, PInv, TInv', PInv', CInv, NEW t \in Tasks, NEW row, Update(t, row),
           NEW spends \in [Actors -> Nat],
           \A a \in Actors :
              /\ Spent(a)' = Spent(a) + spends[a]
              /\ ConsumedSum(envelope', a) \in Int
              /\ ConsumedSum(envelope', a) + DueOf(row, a)
                    <= ConsumedSum(envelope, a) + DueOf(task[t], a) + spends[a]
    PROVE  CInv'
<1> SUFFICES ASSUME NEW a \in Actors
             PROVE  ConsumedSum(envelope', a) + DueSum(task', a) <= Spent(a)'
    BY DEF CInv
<1>0. task'[t] = row /\ \A s \in Tasks \ {t} : task'[s] = task[s]
    BY DEF TInv, TypeOK, Update
<1>1. /\ TaskTable(task) /\ TaskTable(task')
      /\ ConsumedSum(envelope, a) \in Int /\ DueSum(task, a) \in Int /\ Spent(a) \in Int
    BY ChargeTables
<1>2. /\ DueOf(task[t], a) \in Int /\ DueOf(row, a) \in Int
      /\ DueSum(task', a) = DueSum(task, a) - DueOf(task[t], a) + DueOf(row, a)
    BY <1>0, <1>1, DueStep
<1>3. ConsumedSum(envelope, a) + DueSum(task, a) <= Spent(a)
    BY DEF CInv
<1> QED
    BY <1>1, <1>2, <1>3

\* A task that goes on or returns owes its envelope no more than before.
LEMMA KeptDue ==
    ASSUME NEW r, Due(r) \in Nat, NEW row, Kept(r, row), NEW a
    PROVE  DueOf(r, a) \in Nat /\ DueOf(row, a) \in Nat /\ DueOf(row, a) <= DueOf(r, a)
<1>1. DueOf(r, a) \in Nat
    BY DEF DueOf
<1>2. CASE row = Returned
    BY <1>1, <1>2 DEF DueOf, Owns, Returned, NewTask
<1>3. CASE row # Returned
    <2>1. Due(row) = Due(r) \/ Due(row) = 0
        BY <1>3 DEF Kept, Due
    <2> QED
        BY <1>1, <1>3, <2>1 DEF Kept, DueOf, Owns
<1> QED
    BY <1>2, <1>3

\* Steps that leave the envelopes alone and charge nothing: whatever they append
\* to the log only adds to what is spent.
LEMMA NothingCharged ==
    ASSUME TInv, PInv, TInv', PInv', CInv, NEW t \in Tasks, NEW row, Update(t, row),
           \A a \in Actors :
              DueOf(task[t], a) \in Nat /\ DueOf(row, a) \in Nat /\ DueOf(row, a) <= DueOf(task[t], a),
           UNCHANGED log \/ \E event \in EventRow : log' = Append(log, event),
           UNCHANGED envelope
    PROVE  CInv'
<1>1. \A a \in Actors : ConsumedSum(envelope, a) \in Int
    BY ChargeTables
<1>2. CASE UNCHANGED log
    <2> DEFINE spends == [a \in Actors |-> 0]
    <2>1. spends \in [Actors -> Nat] /\ \A a \in Actors : spends[a] = 0
        OBVIOUS
    <2>2. \A a \in Actors : Spent(a)' = Spent(a) /\ Spent(a) \in Int
        BY <1>2, ChargeTables DEF Spent, SettledBy, AgentEvents
    <2>3. \A a \in Actors :
              /\ Spent(a)' = Spent(a) + spends[a]
              /\ ConsumedSum(envelope', a) \in Int
              /\ ConsumedSum(envelope', a) + DueOf(row, a)
                    <= ConsumedSum(envelope, a) + DueOf(task[t], a) + spends[a]
        BY <1>1, <2>1, <2>2
    <2> HIDE DEF spends
    <2> QED
        BY <2>1, <2>3, TaskCharges
<1>3. ASSUME NEW event \in EventRow, log' = Append(log, event) PROVE CInv'
    <2> DEFINE spends == [a \in Actors |-> Adds(event, a)]
    <2>1. \A a \in Actors : Spent(a)' = Spent(a) + Adds(event, a) /\ Adds(event, a) \in Nat
        BY <1>3, SpentGrows
    <2>2. spends \in [Actors -> Nat] /\ \A a \in Actors : spends[a] = Adds(event, a)
        BY <2>1
    <2> HIDE DEF spends
    <2>3. \A a \in Actors :
              /\ Spent(a)' = Spent(a) + spends[a]
              /\ ConsumedSum(envelope', a) \in Int
              /\ ConsumedSum(envelope', a) + DueOf(row, a)
                    <= ConsumedSum(envelope, a) + DueOf(task[t], a) + spends[a]
        BY <1>1, <2>1, <2>2
    <2> QED
        BY <2>2, <2>3, TaskCharges
<1> QED
    BY <1>2, <1>3

\* The steps on the way to a commit, and the ones that give up.
LEMMA QuietCharges ==
    ASSUME TInv, PInv, TInv', PInv', CInv, NEW t \in Tasks,
           \/ Abort(t) \/ SkipTimeout(t) \/ SkipBudget(t) \/ Check(t) \/ CheckLineage(t)
           \/ Authorize(t) \/ ListHolds(t) \/ Respond(t) \/ Parse(t)
           \/ RejectPayload(t) \/ Account(t) \/ Lifecycle(t)
    PROVE  CInv'
<1>0. task[t] \in TaskRow
    BY DEF TInv, TypeOK
<1>1. PICK row : Update(t, row) /\ Kept(task[t], row)
    BY QuietRow
<1>2. UNCHANGED <<envelope, log>>
    BY DEF Abort, SkipTimeout, SkipBudget, Check, CheckLineage, Authorize,
           ListHolds, Respond, Parse, RejectPayload, Account, Lifecycle, db
<1>3. \A a \in Actors :
          DueOf(task[t], a) \in Nat /\ DueOf(row, a) \in Nat /\ DueOf(row, a) <= DueOf(task[t], a)
    BY <1>1, TaskAmounts, KeptDue
<1> QED
    BY <1>1, <1>2, <1>3, NothingCharged

\* A request that is before its commit has nothing to charge.
LEMMA NotDue ==
    ASSUME NEW r, ~Charging(r) \/ r.action = None, NEW a
    PROVE  DueOf(r, a) = 0
BY DEF DueOf, Due, Owns

\* The events of a hold charge no envelope.
LEMMA HoldCharges ==
    ASSUME TInv, PInv, TInv', PInv', CInv, NEW t \in Tasks,
           \/ Submit(t) \/ ExpireHold(t) \/ Resolve(t) \/ Trigger(t) \/ ReserveEnergy(t)
           \/ TakePrepaid(t)
    PROVE  CInv'
<1>0. task[t] \in TaskRow /\ log \in Seq(EventRow)
    BY DEF TInv, TypeOK
<1>1. UNCHANGED envelope
    BY DEF Submit, ExpireHold, Resolve, Trigger, ReserveEnergy, TakePrepaid, db
<1>2. UNCHANGED log \/ \E event \in EventRow : log' = Append(log, event)
    <2>1. CASE Submit(t) \/ ReserveEnergy(t) \/ TakePrepaid(t)
        BY <2>1 DEF Submit, ReserveEnergy, TakePrepaid, db
    <2>2. CASE ExpireHold(t)
        BY <2>2, ExpireHoldExplained DEF Explains, Settles
    <2>3. CASE Resolve(t)
        BY <2>3, ResolveExplained DEF Explains, Settles
    <2>4. CASE Trigger(t)
        BY <2>4, ReservationExplained DEF Explains, Settles
    <2> QED
        BY <2>1, <2>2, <2>3, <2>4
<1>3. ASSUME NEW row, Update(t, row), ~Charging(row) \/ row.action = None, ~Charging(task[t])
      PROVE  CInv'
    <2>1. \A a \in Actors : DueOf(task[t], a) = 0 /\ DueOf(row, a) = 0
        BY <1>3, NotDue
    <2> QED
        BY <1>1, <1>2, <1>3, <2>1, NothingCharged
<1>4. Returned.action = None
    BY DEF Returned, NewTask
<1>5. CASE Return(t) /\ ~Charging(task[t])
    BY <1>3, <1>4, <1>5 DEF Return
<1>6. CASE Submit(t)
    <2>1. PICK a \in Requests : Update(t, [task[t] EXCEPT !.pc = "check", !.action = a])
        BY <1>6 DEF Submit
    <2>2. ~Charging([task[t] EXCEPT !.pc = "check", !.action = a])
        BY <1>0 DEF TaskRow, Charging
    <2>3. ~Charging(task[t])
        BY <1>6 DEF Submit, Charging
    <2> QED
        BY <1>3, <2>1, <2>2, <2>3
<1>7. CASE ExpireHold(t)
    <2>1. PICK row : Update(t, row) /\ Kept(task[t], row)
        BY <1>7, ExpireRow
    <2>2. ~Charging(task[t])
        BY <1>7 DEF ExpireHold, Charging
    <2> QED
        BY <1>3, <1>4, <2>1, <2>2 DEF Kept
<1>8. CASE Resolve(t)
    <2> DEFINE h == task[t].action.arg.hold
               again == [NewTask EXCEPT !.pc = "check", !.action = hold[h].action,
                                        !.via = h, !.reserved = hold[h].reserved]
    <2>1. Return(t) \/ Update(t, again)
        BY <1>8 DEF Resolve
    <2>2. ~Charging(task[t]) /\ ~Charging(again)
        BY <1>8 DEF Resolve, Charging, NewTask
    <2> HIDE DEF again
    <2> QED
        BY <1>3, <1>5, <2>1, <2>2
<1>9. CASE Trigger(t)
    BY <1>5, <1>9 DEF Trigger, Charging
<1>10. CASE ReserveEnergy(t)
    <2> DEFINE row == [task[t] EXCEPT !.pc = "finalize", !.reserved = QuoteCost(task[t].action)]
    <2>1. Return(t) \/ Update(t, row)
        BY <1>10 DEF ReserveEnergy
    <2>2. ~Charging(task[t]) /\ ~Charging(row)
        BY <1>0, <1>10 DEF ReserveEnergy, Charging, TaskRow
    <2> HIDE DEF row
    <2> QED
        BY <1>3, <1>5, <2>1, <2>2
<1>11. CASE TakePrepaid(t)
    <2> DEFINE row == [task[t] EXCEPT !.pc = "finalize", !.reserved = task[t].action.prepaid]
    <2>1. Update(t, row)
        BY <1>11 DEF TakePrepaid
    <2>2. ~Charging(task[t]) /\ ~Charging(row)
        BY <1>0, <1>11 DEF TakePrepaid, Charging, TaskRow
    <2> HIDE DEF row
    <2> QED
        BY <1>3, <2>1, <2>2
<1> QED
    BY <1>6, <1>7, <1>8, <1>9, <1>10, <1>11

\* The expiry of an envelope keeps what it has consumed.
LEMMA ExpireEnvelopeCharges ==
    ASSUME TInv, PInv, TInv', PInv', CInv, NEW t \in Tasks, ExpireEnvelope(t)
    PROVE  CInv'
<1> DEFINE e == task[t].envelope
           spends == [a \in Actors |-> 0]
<1>0. task[t] \in TaskRow /\ TaskOK(task[t], actor, envelope)
    BY DEF TInv, TypeOK, TasksOK
<1>1. PICK row : Update(t, row) /\ Kept(task[t], row)
    BY QuietRow
<1>2. e \in Envelopes /\ envelope[e] # NoEnvelope
    BY <1>0 DEF TaskOK, TaskRow, ExpireEnvelope
<1>3. /\ envelope \in [Envelopes -> EnvelopeRow \cup {NoEnvelope}]
      /\ envelope[e] \in EnvelopeRow
      /\ envelope' = [envelope EXCEPT ![e].status = "expired"]
      /\ UNCHANGED log
    BY <1>2 DEF TInv, TypeOK, ExpireEnvelope
<1>4. /\ envelope[e].status # "absent" /\ envelope'[e].status # "absent"
      /\ envelope'[e].holder = envelope[e].holder
      /\ envelope'[e].consumed = envelope[e].consumed
      /\ \A g \in Envelopes \ {e} : envelope'[g] = envelope[g]
    BY <1>2, <1>3 DEF EnvelopeRow
<1> HIDE DEF e
<1>5. ASSUME NEW a \in Actors
      PROVE  /\ Spent(a)' = Spent(a) /\ Spent(a) \in Int
             /\ ConsumedSum(envelope, a) \in Int
             /\ ConsumedSum(envelope', a) = ConsumedSum(envelope, a)
    <2>1. Spent(a)' = Spent(a)
        BY <1>3 DEF Spent, SettledBy, AgentEvents
    <2>2. EnvelopeTable(envelope) /\ EnvelopeTable(envelope') /\ Spent(a) \in Int
        BY ChargeTables
    <2>3. Used(envelope'[e], a) = Used(envelope[e], a)
        BY <1>4 DEF Used
    <2> QED
        BY <1>2, <1>4, <2>1, <2>2, <2>3, ConsumedStep
<1>6. \A a \in Actors :
          DueOf(task[t], a) \in Nat /\ DueOf(row, a) \in Nat /\ DueOf(row, a) <= DueOf(task[t], a)
    BY <1>1, TaskAmounts, KeptDue
<1>7. spends \in [Actors -> Nat] /\ \A a \in Actors : spends[a] = 0
    OBVIOUS
<1> HIDE DEF spends
<1>8. \A a \in Actors :
          /\ Spent(a)' = Spent(a) + spends[a]
          /\ ConsumedSum(envelope', a) \in Int
          /\ ConsumedSum(envelope', a) + DueOf(row, a)
                <= ConsumedSum(envelope, a) + DueOf(task[t], a) + spends[a]
    BY <1>5, <1>6, <1>7
<1> QED
    BY <1>1, <1>7, <1>8, TaskCharges

\* A charge moves what was due to the envelope of the same actor.
LEMMA ConsumeCharges ==
    ASSUME TInv, PInv, TInv', PInv', CInv, NEW t \in Tasks, Consume(t)
    PROVE  CInv'
<1> DEFINE e == task[t].envelope
           q == task[t].action
           cost == task[t].reserved
           spends == [a \in Actors |-> 0]
<1>0. /\ task[t] \in TaskRow /\ TaskOK(task[t], actor, envelope)
      /\ Story(task[t], actor, envelope, hold)
      /\ envelope \in [Envelopes -> EnvelopeRow \cup {NoEnvelope}]
    BY DEF TInv, TypeOK, TasksOK, PInv, Stories
<1>1. PICK row : Update(t, row) /\ Kept(task[t], row)
    BY QuietRow
<1>2. /\ e \in Envelopes /\ envelope[e] # NoEnvelope /\ q # None /\ cost \in Nat
      /\ envelope[e].holder = q.actor /\ Charging(task[t])
    <2>1. cost \in Int /\ cost > 0
        BY <1>0 DEF TaskOK, TaskRow, Amount, Consume
    <2> QED
        BY <1>0, <2>1 DEF TaskOK, TaskRow, Consume, Story, KnownEnvelopes, Charging
<1>3. UNCHANGED log /\ envelope[e] \in EnvelopeRow
    BY <1>0, <1>2 DEF Consume
<1>4. CASE UNCHANGED envelope
    <2>1. \A a \in Actors :
              DueOf(task[t], a) \in Nat /\ DueOf(row, a) \in Nat /\ DueOf(row, a) <= DueOf(task[t], a)
        BY <1>1, TaskAmounts, KeptDue
    <2> QED
        BY <1>1, <1>3, <1>4, <2>1, NothingCharged
<1>5. CASE ~UNCHANGED envelope
    <2> DEFINE consumed == envelope[e].consumed + cost
               status == IF task[t].halt THEN "expired" ELSE envelope[e].status
    <2>1. envelope' = [envelope EXCEPT ![e].consumed = consumed, ![e].status = status]
        <3>1. envelope' = [envelope EXCEPT ![e].consumed = consumed,
                                           ![e].status = IF task[t].halt THEN "expired" ELSE @]
            BY <1>5 DEF Consume
        <3> QED
            BY <1>0, <1>2, <1>3, <3>1 DEF EnvelopeRow
    <2>2. envelope[e].status # "absent" /\ status # "absent" /\ envelope[e].consumed \in Nat
        BY <1>3 DEF EnvelopeRow
    <2> HIDE DEF status, consumed
    <2>3. /\ envelope'[e].status = status
          /\ envelope'[e].holder = envelope[e].holder
          /\ envelope'[e].consumed = consumed
          /\ \A g \in Envelopes \ {e} : envelope'[g] = envelope[g]
        BY <1>0, <1>2, <1>3, <2>1 DEF EnvelopeRow
    <2>4. \A a : Used(envelope'[e], a) =
                    Used(envelope[e], a) + IF a = q.actor THEN cost ELSE 0
        BY <1>2, <2>2, <2>3 DEF Used, consumed
    <2>5. \A a : DueOf(task[t], a) = IF a = q.actor THEN cost ELSE 0
        BY <1>2 DEF DueOf, Owns, Due
    <2>6. \A a : DueOf(row, a) = 0
        <3>1. \A r : r = At(task[t], AfterBudget(q)) => ~Charging(r) \/ r.action = None
            <4>1. AfterBudget(q) \in {"lifecycle", "done"}
                BY DEF AfterBudget
            <4>2. CASE AfterBudget(q) = "done"
                BY <4>2 DEF At, Returned, NewTask
            <4>3. CASE AfterBudget(q) = "lifecycle"
                BY <1>0, <4>3 DEF At, TaskRow, Charging
            <4> QED
                BY <4>1, <4>2, <4>3
        <3>2. row = At(task[t], AfterBudget(q))
            <4>1. Update(t, At(task[t], AfterBudget(q)))
                BY DEF Consume, Goto
            <4>2. task'[t] = row /\ task'[t] = At(task[t], AfterBudget(q))
                BY <1>1, <4>1 DEF Update, TInv, TypeOK
            <4> QED
                BY <4>2
        <3> QED
            BY <3>1, <3>2, NotDue
    <2>7. spends \in [Actors -> Nat] /\ \A a \in Actors : spends[a] = 0
        OBVIOUS
    <2> HIDE DEF spends
    <2>8. ASSUME NEW a \in Actors
          PROVE  /\ Spent(a)' = Spent(a) + spends[a]
                 /\ ConsumedSum(envelope', a) \in Int
                 /\ ConsumedSum(envelope', a) + DueOf(row, a)
                       <= ConsumedSum(envelope, a) + DueOf(task[t], a) + spends[a]
        <3>1. EnvelopeTable(envelope) /\ EnvelopeTable(envelope') /\ Spent(a) \in Int
            BY ChargeTables
        <3>2. /\ ConsumedSum(envelope, a) \in Int /\ Used(envelope[e], a) \in Int
              /\ Used(envelope'[e], a) \in Int
              /\ ConsumedSum(envelope', a) =
                    ConsumedSum(envelope, a) - Used(envelope[e], a) + Used(envelope'[e], a)
            <4> HIDE DEF e
            <4> QED
                BY <1>2, <2>3, <3>1, ConsumedStep
        <3>3. Spent(a)' = Spent(a)
            BY <1>3 DEF Spent, SettledBy, AgentEvents
        <3>4. Used(envelope'[e], a) = Used(envelope[e], a) + DueOf(task[t], a)
            BY <2>4, <2>5
        <3>5. DueOf(task[t], a) \in Int
            BY <1>2, <2>5
        <3> HIDE DEF e
        <3> QED
            BY <2>6, <2>7, <3>1, <3>2, <3>3, <3>4, <3>5
    <2> QED
        BY <1>1, <2>7, <2>8, TaskCharges
<1> QED
    BY <1>4, <1>5

\* A commit adds to what is spent what its task will charge; an envelope it
\* creates has consumed nothing.
LEMMA FinalizeCharges ==
    ASSUME TInv, PInv, TInv', PInv', CInv, NEW t \in Tasks, Finalize(t)
    PROVE  CInv'
<1> DEFINE q == task[t].action
           cost == task[t].reserved
           event == ActionEvent(task[t])
           row == At(task[t], AfterCommit(q, cost))
           spends == [a \in Actors |-> Adds(event, a)]
<1>0. /\ task[t] \in TaskRow /\ TaskOK(task[t], actor, envelope)
      /\ envelope \in [Envelopes -> EnvelopeRow \cup {NoEnvelope}]
    BY DEF TInv, TypeOK, TasksOK
<1>1. ~Charging(task[t])
    BY DEF Finalize, Charging
<1>2. CASE Return(t) /\ UNCHANGED db
    <2>1. Returned.action = None
        BY DEF Returned, NewTask
    <2>2. \A a \in Actors : DueOf(task[t], a) = 0 /\ DueOf(Returned, a) = 0
        BY <1>1, <2>1, NotDue
    <2> QED
        BY <1>2, <2>2, NothingCharged DEF Return, db
<1>3. q \in Requests /\ q # None /\ cost \in Int
    BY <1>0 DEF Finalize, TaskOK, TaskRow, Amount
<1>4. q.actor \in Actors /\ q.type \in Types
    BY <1>3, RequestsAssumption DEF RequestOK
<1>5. /\ event \in EventRow /\ event.actor = q.actor /\ event.type = q.type
      /\ Taken(event) \in Nat /\ (cost > 0 => Taken(event) = cost)
    <2>1. event \in EventRow
        BY <1>0, <1>3, ActionEventType
    <2>2. event.actor = q.actor /\ event.type = q.type /\ event.settled = cost
        BY DEF ActionEvent
    <2> HIDE DEF event
    <2> QED
        BY <1>3, <2>1, <2>2, TakenType
<1> HIDE DEF event
<1>6. \A a : DueOf(row, a) \in Nat /\ DueOf(row, a) <= Adds(event, a)
    <2>1. CASE AfterCommit(q, cost) = "done"
        BY <1>3, <1>5, <2>1 DEF At, Returned, NewTask, DueOf, Owns, Adds
    <2>2. CASE AfterCommit(q, cost) = "lifecycle"
        <3>1. row.pc = "lifecycle"
            BY <1>0, <2>2 DEF At, TaskRow
        <3> QED
            BY <1>3, <1>5, <3>1 DEF DueOf, Due, Charging, Adds
    <2>3. CASE AfterCommit(q, cost) = "account"
        <3>1. row.action = q /\ row.reserved = cost
            BY <1>0, <2>3 DEF At, TaskRow
        <3>2. cost > 0 /\ q.type \in {"create", "mutate", "execute"}
            BY <1>4, <2>3 DEF AfterCommit, AfterBudget, StateChanging, Types
        <3> HIDE DEF row
        <3> QED
            BY <1>3, <1>5, <3>1, <3>2 DEF DueOf, Due, Owns, Adds
    <2> QED
        BY <2>1, <2>2, <2>3 DEF AfterCommit, AfterBudget
<1>7. \A a : DueOf(task[t], a) = 0
    BY <1>1, NotDue
<1>8. ASSUME log' = Append(log, event), Update(t, row),
             \/ UNCHANGED envelope
             \/ \E e \in Envelopes :
                   /\ envelope[e] = NoEnvelope
                   /\ envelope' = [envelope EXCEPT ![e] = GrantedEnvelope(q, task[t].parent)]
      PROVE  CInv'
    <2> HIDE DEF row
    <2>1. \A a \in Actors : Spent(a)' = Spent(a) + Adds(event, a) /\ Adds(event, a) \in Nat
        BY <1>5, <1>8, SpentGrows
    <2>2. spends \in [Actors -> Nat] /\ \A a \in Actors : spends[a] = Adds(event, a)
        BY <2>1
    <2> HIDE DEF spends
    <2>3. ASSUME NEW a \in Actors
          PROVE  /\ ConsumedSum(envelope, a) \in Int
                 /\ ConsumedSum(envelope', a) = ConsumedSum(envelope, a)
        <3>1. EnvelopeTable(envelope) /\ EnvelopeTable(envelope') /\ ConsumedSum(envelope, a) \in Int
            BY ChargeTables
        <3>2. CASE UNCHANGED envelope
            BY <3>1, <3>2
        <3>3. ASSUME NEW e \in Envelopes, envelope[e] = NoEnvelope,
                     envelope' = [envelope EXCEPT ![e] = GrantedEnvelope(q, task[t].parent)]
              PROVE  ConsumedSum(envelope', a) = ConsumedSum(envelope, a)
            <4>1. /\ envelope'[e] = GrantedEnvelope(q, task[t].parent)
                  /\ \A g \in Envelopes \ {e} : envelope'[g] = envelope[g]
                BY <1>0, <3>3
            <4>2. Used(envelope[e], a) = 0
                BY <3>3 DEF Used, NoEnvelope
            <4>3. Used(envelope'[e], a) = 0
                BY <4>1 DEF Used, GrantedEnvelope
            <4>4. ConsumedSum(envelope', a) =
                     ConsumedSum(envelope, a) - Used(envelope[e], a) + Used(envelope'[e], a)
                BY <3>1, <4>1, ConsumedStep
            <4> QED
                BY <3>1, <4>2, <4>3, <4>4
        <3> QED
            BY <1>8, <3>1, <3>2, <3>3
    <2>4. \A a \in Actors :
              /\ Spent(a)' = Spent(a) + spends[a]
              /\ ConsumedSum(envelope', a) \in Int
              /\ ConsumedSum(envelope', a) + DueOf(row, a)
                    <= ConsumedSum(envelope, a) + DueOf(task[t], a) + spends[a]
        BY <1>6, <1>7, <2>1, <2>2, <2>3
    <2> QED
        BY <1>8, <2>2, <2>4, TaskCharges
<1> QED
    BY <1>2, <1>8 DEF Finalize, Goto, event

\* Production and time charge nothing; a crash only forgets charges.
LEMMA SystemCharges ==
    ASSUME TInv, PInv, TInv', PInv', CInv, System \/ UNCHANGED vars
    PROVE  CInv'
<1> SUFFICES ASSUME NEW a \in Actors
             PROVE  ConsumedSum(envelope', a) + DueSum(task', a) <= Spent(a)'
    BY DEF CInv
<1>0. UNCHANGED <<envelope, log>>
    BY DEF System, ListShares, CreditShares, CreditFails, Elapse, Crash, Restart, db, vars
<1>1. \A t \in Tasks : task'[t] = task[t] \/ task'[t].action = None
    BY DEF System, ListShares, CreditShares, CreditFails, Elapse, Crash, Restart, vars, Returned, NewTask
<1>2. /\ TaskTable(task) /\ TaskTable(task')
      /\ ConsumedSum(envelope, a) \in Int /\ DueSum(task, a) \in Int
      /\ DueSum(task', a) \in Int /\ Spent(a) \in Int
    BY ChargeTables
<1>3. DueSum(task', a) <= DueSum(task, a)
    BY <1>1, <1>2, ForgetStep
<1>4. Spent(a)' = Spent(a)
    BY <1>0 DEF Spent, SettledBy, AgentEvents
<1>5. ConsumedSum(envelope, a) + DueSum(task, a) <= Spent(a)
    BY DEF CInv
<1> QED
    BY <1>0, <1>2, <1>3, <1>4, <1>5

\* Nothing is consumed and nothing is due at the start.
LEMMA InitCInv == Init => CInv
<1> SUFFICES ASSUME Init, NEW a \in Actors
             PROVE  ConsumedSum(envelope, a) + DueSum(task, a) <= Spent(a)
    BY DEF CInv
<1>1. ConsumedSum(envelope, a) = 0
    <2> DEFINE f == [e \in HeldIn(envelope, a) |-> envelope[e].consumed]
    <2>1. EnvelopeTable(envelope)
        BY TablesAssumption DEF Init, EnvelopeTable
    <2>2. DOMAIN f = HeldIn(envelope, a) /\ Summable(f) /\ \A e \in DOMAIN f : f[e] = envelope[e].consumed
        BY <2>1, ConsumedSummable
    <2>3. ConsumedSum(envelope, a) = SumFunction(f)
        BY DEF ConsumedSum
    <2> HIDE DEF f
    <2>4. \A e \in DOMAIN f : f[e] = 0
        BY <2>2, TablesAssumption DEF Init, HeldIn, NoEnvelope
    <2> QED
        BY <2>2, <2>3, <2>4, SumZero DEF Summable
<1>2. DueSum(task, a) = 0
    <2>1. OwnedIn(task, a) = {}
        BY DEF Init, OwnedIn, NewTask
    <2> QED
        BY <2>1, SumFunctionEmpty DEF DueSum
<1>3. Spent(a) = 0
    <2>1. AgentEvents(a) = {}
        BY DEF Init, AgentEvents
    <2> QED
        BY <2>1, SumFunctionEmpty DEF Spent, SettledBy
<1> QED
    BY <1>1, <1>2, <1>3

\* CInv is inductive relative to TInv and PInv.
LEMMA NextCInv == TInv /\ PInv /\ TInv' /\ PInv' /\ CInv /\ [Next]_vars => CInv'
<1> SUFFICES ASSUME TInv, PInv, TInv', PInv', CInv, [Next]_vars PROVE CInv'
    OBVIOUS
<1>1. ASSUME NEW t \in Tasks, TaskStep(t) PROVE CInv'
    BY <1>1, QuietCharges, HoldCharges, ExpireEnvelopeCharges, ConsumeCharges, FinalizeCharges
    DEF TaskStep, Progress
<1>2. ASSUME NEW t \in Tasks, ClientStep(t) PROVE CInv'
    BY <1>2, QuietCharges, HoldCharges DEF ClientStep
<1> QED
    BY <1>1, <1>2, SystemCharges DEF Next

\* The envelopes of an actor have never consumed more than the events of that
\* actor have taken from the ledger: although a charge is a later transaction on an envelope
\* that is read anew, nothing is charged twice, and nothing that did not commit.
THEOREM ChargesAreSpent == Spec => []ChargesBacked
<1>1. TInv /\ PInv /\ CInv /\ [Next]_vars => (TInv /\ PInv /\ CInv)'
    BY NextTInv, NextPInv, NextCInv
<1>2. TInv /\ PInv /\ CInv => ChargesBacked
    <2> SUFFICES ASSUME TInv, PInv, CInv, NEW a \in Actors
                 PROVE  SumFunction([e \in HeldBy(a) |-> envelope[e].consumed]) <= Spent(a)
        BY DEF ChargesBacked
    <2> DEFINE f == [e \in HeldIn(envelope, a) |-> envelope[e].consumed]
               g == [t \in OwnedIn(task, a) |-> Due(task[t])]
    <2>1. EnvelopeTable(envelope) /\ TaskTable(task)
        BY TaskAmounts DEF TInv, TypeOK, PInv, FiniteRows, EnvelopeTable, TaskTable
    <2>2. Summable(f) /\ ConsumedSum(envelope, a) = SumFunction(f)
        BY <2>1, ConsumedSummable DEF ConsumedSum
    <2>3. DueSum(task, a) = SumFunction(g)
        BY DEF DueSum
    <2>4. Summable(g) /\ \A t \in DOMAIN g : g[t] \in Nat
        BY <2>1, DueSummable
    <2>5. SumFunction([e \in HeldBy(a) |-> envelope[e].consumed]) = SumFunction(f)
        BY DEF HeldBy, HeldIn
    <2> HIDE DEF f, g
    <2>6. ConsumedSum(envelope, a) \in Int /\ DueSum(task, a) \in Int /\ DueSum(task, a) >= 0
        BY <2>2, <2>3, <2>4, SumFunctionInt, SumNat
    <2>7. Spent(a) \in Int
        <3>1. log \in Seq(EventRow) /\ AgentEvents(a) \in SUBSET DOMAIN log
            BY DEF TInv, TypeOK, AgentEvents
        <3> QED
            BY <3>1, SettledInt DEF Spent
    <2>8. ConsumedSum(envelope, a) + DueSum(task, a) <= Spent(a)
        BY DEF CInv
    <2> QED
        BY <2>2, <2>5, <2>6, <2>7, <2>8
<1> QED
    BY <1>1, <1>2, InitTInv, InitPInv, InitCInv, PTL DEF Spec
=============================================================================
