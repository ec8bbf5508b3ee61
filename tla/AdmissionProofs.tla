-------------------------- MODULE AdmissionProofs ---------------------------
(***************************************************************************)
(* What the checks at the head of submit_action guarantee about the steps  *)
(* that follow them.  A task acts on what it has read earlier; the tables  *)
(* keep that true, because a row is never deleted and the columns a task   *)
(* relies on are never updated (Evolves).                                  *)
(***************************************************************************)
EXTENDS KernelProofs

-----------------------------------------------------------------------------
\* What a task knows.

\* The envelope rows as far as a request may rely on them: they never change.
Grants(env, a) ==
    /\ env # NoEnvelope
    /\ env.holder = a.actor
    /\ a.type \in env.actions
    /\ \E p \in env.targets : GlobMatch(p, a.target)

\* Some envelope of the actor permits the action without a hold.
Cleared(a, env) == \E e \in Envelopes : Grants(env[e], a) /\ ~HoldTriggered(env[e], a)

\* What a task knows of its actor once the request has passed the check.
KnownActor(r, act) ==
    /\ r.pc = "new" => r = NewTask
    /\ r.pc \notin {"new", "check", "done"} \/ r.reserved > 0 =>
          r.action # None /\ act[r.action.actor] # NoActor
    /\ r.pc \in {"list_late", "expire_late", "resolve"} => act[r.action.actor].kind = "human"

\* A task that re-executes a hold carries its action and its reservation.
CarriesHold(r, hld) ==
    /\ r.via # None =>
          /\ hld[r.via] # NoHold
          /\ hld[r.via].action = r.action
          /\ hld[r.via].reserved = r.reserved
    /\ r.pc = "reserve" => r.via = None

\* The state-changing steps of an agent that carries no approved hold and whose
\* client sent no _hold_approved.
Unheld(r, act) ==
    /\ r.pc \in {"respond", "list_late", "expire_late", "resolve", "parse", "reserve", "finalize",
                 "account", "consume", "lifecycle"}
    /\ r.via = None /\ ~SelfApproved(r)
    /\ StateChanging(r.action.type)
    /\ act[r.action.actor].kind = "agent"

\* What a task knows of the envelopes it has read.
KnownEnvelopes(r, act, env) ==
    /\ r.pc \in {"list_holds", "expire_holds"} =>
          r.envelope # None /\ Grants(env[r.envelope], r.action)
    /\ r.pc = "consume" =>
          /\ r.envelope # None /\ env[r.envelope] # NoEnvelope
          /\ env[r.envelope].holder = r.action.actor
    /\ Unheld(r, act) => Cleared(r.action, env)

\* The envelope delegates no more than its parent has.
Shrinks(parent, child) ==
    /\ child.budget <= parent.budget
    /\ TargetsCovered(parent.targets, child.targets)
    /\ child.actions \subseteq parent.actions

\* What a task knows of the parent of the envelope it creates.
KnownParent(r, env) ==
    r.parent # None =>
        /\ IsCreateEnvelope(r.action)
        /\ env[r.parent] # NoEnvelope
        /\ Shrinks(env[r.parent], r.action.arg)

\* What the record of a task says about the tables.
Story(r, act, env, hld) ==
    /\ KnownActor(r, act)
    /\ CarriesHold(r, hld)
    /\ KnownEnvelopes(r, act, env)
    /\ KnownParent(r, env)

\* Every task's record is true of the tables.
Stories == \A t \in Tasks : Story(task[t], actor, envelope, hold)

\* A hold is of an actor that exists, the one whose action it holds.
HoldsNamed ==
    \A h \in Holds : hold[h] # NoHold =>
        hold[h].agent = hold[h].action.actor /\ Exists(hold[h].agent)

\* The actors and the payers of the log exist.
EventsNamed == \A i \in DOMAIN log : Exists(log[i].actor) /\ Exists(log[i].payer)

\* An agent's event that carries no hold and no _hold_approved of its client was
\* permitted without one.
EventsCleared ==
    \A i \in DOMAIN log :
        /\ log[i].type \in {"create", "mutate", "execute"}
        /\ actor[log[i].actor].kind = "agent"
        /\ log[i].hold = None /\ ~log[i].selfApproved
        => Cleared(log[i], envelope)

\* The approval of a hold is in the log, by a human.
ApprovalLogged ==
    \A h \in Holds : hold[h].status = "approved" =>
        \E i \in DOMAIN log :
            /\ log[i].type = "hold_response"
            /\ log[i].hold = h
            /\ actor[log[i].actor].kind = "human"

\* The tables and the calls in flight are finite.
FiniteRows ==
    /\ IsFiniteSet({h \in Holds : hold[h] # NoHold})
    /\ IsFiniteSet({e \in Envelopes : envelope[e] # NoEnvelope})
    /\ IsFiniteSet({t \in Tasks : task[t].action # None})

\* HeldActionsApproved and DelegationShrinks are about rows that tasks insert on
\* the strength of what they read steps earlier: PInv says what they know.
PInv ==
    /\ Stories
    /\ HoldsNamed
    /\ EventsNamed
    /\ EventsCleared
    /\ ApprovalLogged
    /\ DelegationShrinks
    /\ FiniteRows

-----------------------------------------------------------------------------
\* What no transaction does to a row.

KeepsActors(act, act2) ==
    \A a \in Actors : act[a] # NoActor => act2[a] # NoActor /\ act2[a].kind = act[a].kind

KeepsEnvelopes(env, env2) ==
    \A e \in Envelopes : env[e] # NoEnvelope =>
        /\ env2[e] # NoEnvelope
        /\ env2[e].holder = env[e].holder /\ env2[e].budget = env[e].budget
        /\ env2[e].targets = env[e].targets /\ env2[e].actions = env[e].actions
        /\ env2[e].holdOn = env[e].holdOn /\ env2[e].parent = env[e].parent

KeepsHolds(hld, hld2) ==
    \A h \in Holds : hld[h] # NoHold =>
        /\ hld2[h] # NoHold
        /\ hld2[h].agent = hld[h].agent /\ hld2[h].action = hld[h].action
        /\ hld2[h].reserved = hld[h].reserved

Evolves ==
    KeepsActors(actor, actor') /\ KeepsEnvelopes(envelope, envelope') /\ KeepsHolds(hold, hold')

\* Tables that do not change.
LEMMA KeepsAll ==
    /\ \A act : KeepsActors(act, act)
    /\ \A env : KeepsEnvelopes(env, env)
    /\ \A hld : KeepsHolds(hld, hld)
BY DEF KeepsActors, KeepsEnvelopes, KeepsHolds

\* A lifecycle operation changes the status or the share of an actor only.
LEMMA LifecycleKeeps ==
    ASSUME TInv, NEW t \in Tasks, Lifecycle(t)
    PROVE  KeepsActors(actor, actor')
<1> DEFINE a == task[t].action
           arg == a.arg
<1>1. arg.subject \in Actors /\ actor[arg.subject] # NoActor
    <2>1. task[t] \in TaskRow /\ TaskOK(task[t], actor, envelope)
        BY DEF TInv, TypeOK, TasksOK
    <2>2. a \in Requests /\ IsLifecycle(a) /\ actor[arg.subject] # NoActor
        BY <2>1 DEF Lifecycle, TaskOK, TaskRow
    <2> QED
        BY <2>2, RequestsAssumption DEF RequestOK
<1>2. actor \in [Actors -> ActorRow \cup {NoActor}]
    BY DEF TInv, TypeOK
<1>3. \A b \in FrozenWith(arg.subject) : b \in Actors /\ actor[b] \in ActorRow
    BY <1>1, <1>2 DEF FrozenWith, NoActor
<1>4. \A b \in Actors : actor[b] \in ActorRow =>
          /\ [actor[b] EXCEPT !.status = "frozen"].kind = actor[b].kind
          /\ [actor[b] EXCEPT !.status = "frozen"] # NoActor
          /\ [actor[b] EXCEPT !.status = "active"].kind = actor[b].kind
          /\ [actor[b] EXCEPT !.status = "active"] # NoActor
          /\ [actor[b] EXCEPT !.share = arg.share].kind = actor[b].kind
          /\ [actor[b] EXCEPT !.share = arg.share] # NoActor
    BY DEF ActorRow, NoActor
<1>5. CASE actor' = [b \in Actors |-> IF b \in FrozenWith(arg.subject)
                                      THEN [actor[b] EXCEPT !.status = "frozen"] ELSE actor[b]]
    <2> HIDE DEF arg
    <2> QED
        BY <1>2, <1>3, <1>4, <1>5 DEF KeepsActors
<1>6. CASE actor' = [actor EXCEPT ![arg.subject].status = "active"]
    <2> HIDE DEF arg
    <2> QED
        BY <1>1, <1>2, <1>4, <1>6 DEF KeepsActors
<1>7. CASE actor' = [actor EXCEPT ![arg.subject].share = arg.share]
    <2> HIDE DEF arg
    <2> QED
        BY <1>1, <1>2, <1>4, <1>7 DEF KeepsActors
<1> QED
    BY <1>5, <1>6, <1>7 DEF Lifecycle

\* The expiry and the charge of an envelope change its status and what is
\* consumed of it only.
LEMMA ChargeKeeps ==
    ASSUME TInv, NEW t \in Tasks, ExpireEnvelope(t) \/ Consume(t)
    PROVE  KeepsEnvelopes(envelope, envelope')
<1> DEFINE e == task[t].envelope
<1>1. e \in Envelopes /\ envelope[e] \in EnvelopeRow
    <2>1. task[t] \in TaskRow /\ TaskOK(task[t], actor, envelope)
        BY DEF TInv, TypeOK, TasksOK
    <2> QED
        BY <2>1 DEF ExpireEnvelope, Consume, TaskOK, TaskRow, TInv, TypeOK
<1>2. envelope \in [Envelopes -> EnvelopeRow \cup {NoEnvelope}]
    BY DEF TInv, TypeOK
<1>3. CASE ExpireEnvelope(t)
    <2>1. envelope' = [envelope EXCEPT ![e].status = "expired"]
        BY <1>3 DEF ExpireEnvelope
    <2> QED
        BY <1>1, <1>2, <2>1 DEF KeepsEnvelopes, EnvelopeRow, NoEnvelope
<1>4. CASE Consume(t)
    <2> DEFINE consumed == envelope[e].consumed + task[t].reserved
               status == IF task[t].halt THEN "expired" ELSE envelope[e].status
    <2>1. \/ envelope' = envelope
          \/ envelope' = [envelope EXCEPT ![e] = [envelope[e] EXCEPT !.consumed = consumed,
                                                                     !.status = status]]
        BY <1>1, <1>2, <1>4 DEF Consume
    <2> DEFINE row == [envelope[e] EXCEPT !.consumed = consumed, !.status = status]
    <2> HIDE DEF consumed, status
    <2>2. /\ row.holder = envelope[e].holder /\ row.budget = envelope[e].budget
          /\ row.targets = envelope[e].targets /\ row.actions = envelope[e].actions
          /\ row.holdOn = envelope[e].holdOn /\ row.parent = envelope[e].parent
          /\ row # NoEnvelope
        BY <1>1 DEF EnvelopeRow, NoEnvelope
    <2>3. envelope' = envelope \/ envelope' = [envelope EXCEPT ![e] = row]
        BY <2>1
    <2> HIDE DEF row
    <2> QED
        BY <1>1, <1>2, <2>2, <2>3, KeepsAll DEF KeepsEnvelopes
<1> QED
    BY <1>3, <1>4

\* A decision changes the status of a hold only.
LEMMA DecisionKeeps ==
    ASSUME TInv, NEW h \in Holds, StillPending(hold[h]), NEW status,
           hold' = [hold EXCEPT ![h].status = status]
    PROVE  KeepsHolds(hold, hold')
<1>1. hold \in [Holds -> HoldRow \cup {NoHold}]
    BY DEF TInv, TypeOK
<1>2. hold[h] \in HoldRow
    BY <1>1 DEF StillPending, NoHold
<1> QED
    BY <1>1, <1>2 DEF KeepsHolds, HoldRow, NoHold

\* A commit inserts rows under ids that were free.
LEMMA FinalizeKeeps ==
    ASSUME TInv, NEW t \in Tasks, Finalize(t)
    PROVE  Evolves
<1> DEFINE a == task[t].action
<1>1. CASE UNCHANGED db
    BY <1>1, KeepsAll DEF Evolves, db
<1>2. ASSUME IsCreateActor(a) => ~Exists(a.arg.id),
             IF IsCreateActor(a) THEN actor' = [actor EXCEPT ![a.arg.id] = NewActor(a)]
             ELSE UNCHANGED actor,
             IF IsCreateEnvelope(a)
             THEN \E e \in Envelopes :
                     /\ envelope[e] = NoEnvelope
                     /\ envelope' = [envelope EXCEPT ![e] = GrantedEnvelope(a, task[t].parent)]
             ELSE UNCHANGED envelope,
             UNCHANGED hold
      PROVE  Evolves
    <2>1. KeepsActors(actor, actor')
        <3>1. CASE IsCreateActor(a)
            BY <1>2, <3>1 DEF KeepsActors, Exists, TInv, TypeOK
        <3>2. CASE ~IsCreateActor(a)
            BY <1>2, <3>2, KeepsAll
        <3> QED
            BY <3>1, <3>2
    <2>2. KeepsEnvelopes(envelope, envelope')
        <3>1. CASE IsCreateEnvelope(a)
            <4>1. PICK e \in Envelopes :
                     /\ envelope[e] = NoEnvelope
                     /\ envelope' = [envelope EXCEPT ![e] = GrantedEnvelope(a, task[t].parent)]
                BY <1>2, <3>1
            <4> QED
                BY <4>1 DEF KeepsEnvelopes, TInv, TypeOK
        <3>2. CASE ~IsCreateEnvelope(a)
            BY <1>2, <3>2, KeepsAll
        <3> QED
            BY <3>1, <3>2
    <2> QED
        BY <1>2, <2>1, <2>2, KeepsAll DEF Evolves
<1> QED
    BY <1>1, <1>2 DEF Finalize

\* No step deletes a row, turns an agent into a human or a human into an agent,
\* or changes what an envelope grants or what a hold is about.
LEMMA Evolution == TInv /\ [Next]_vars => Evolves
<1> SUFFICES ASSUME TInv, [Next]_vars PROVE Evolves
    OBVIOUS
<1>1. CASE UNCHANGED db \/ UNCHANGED <<actor, envelope, hold>>
    BY <1>1, KeepsAll DEF Evolves, db
<1>2. CASE System \/ UNCHANGED vars
    BY <1>1, <1>2 DEF System, ListShares, CreditShares, CreditFails, Elapse, Crash, Restart, vars, db
<1>3. ASSUME NEW t \in Tasks, ClientStep(t) PROVE Evolves
    BY <1>1, <1>3 DEF ClientStep, Submit, Abort, SkipTimeout, SkipBudget
<1>4. ASSUME NEW t \in Tasks, Progress(t) PROVE Evolves
    <2>0. task[t] \in TaskRow /\ TaskOK(task[t], actor, envelope)
        BY DEF TInv, TypeOK, TasksOK
    <2>1. CASE \/ Check(t) \/ CheckLineage(t) \/ Authorize(t) \/ ListHolds(t) \/ Respond(t) \/ Parse(t)
               \/ RejectPayload(t) \/ Account(t) \/ ReserveEnergy(t) \/ TakePrepaid(t)
        <3>1. UNCHANGED db \/ UNCHANGED <<actor, envelope, hold>>
            BY <2>1 DEF Check, CheckLineage, Authorize, ListHolds, Respond, Parse, RejectPayload,
                        Account, ReserveEnergy, TakePrepaid
        <3> QED
            BY <1>1, <3>1
    <2>2. CASE ExpireEnvelope(t) \/ Consume(t)
        BY <2>2, ChargeKeeps, KeepsAll DEF ExpireEnvelope, Consume, Evolves
    <2>3. CASE Lifecycle(t)
        BY <2>3, LifecycleKeeps, KeepsAll DEF Lifecycle, Evolves
    <2>4. CASE Finalize(t)
        BY <2>4, FinalizeKeeps
    <2>5. CASE ExpireHold(t)
        <3>1. CASE UNCHANGED db
            BY <1>1, <3>1
        <3>2. CASE ~UNCHANGED db
            <4>1. PICK h \in task[t].todo :
                     /\ StillPending(hold[h])
                     /\ hold' = [hold EXCEPT ![h].status = "timed_out"]
                     /\ UNCHANGED <<actor, envelope>>
                BY <2>5, <3>2 DEF ExpireHold
            <4>2. h \in Holds
                BY <2>0 DEF TaskRow
            <4> QED
                BY <4>1, <4>2, DecisionKeeps, KeepsAll DEF Evolves
        <3> QED
            BY <3>1, <3>2
    <2>6. CASE Resolve(t)
        <3> DEFINE h == task[t].action.arg.hold
        <3>1. CASE UNCHANGED db
            BY <1>1, <3>1
        <3>2. CASE ~UNCHANGED db
            <4>1. /\ StillPending(hold[h])
                  /\ hold' = [hold EXCEPT ![h].status = Decided(task[t].action.arg.decision)]
                  /\ UNCHANGED <<actor, envelope>>
                BY <2>6, <3>2 DEF Resolve
            <4>2. h \in Holds
                BY <2>0, <2>6, RequestsAssumption DEF Resolve, TaskOK, TaskRow, RequestOK
            <4> QED
                BY <4>1, <4>2, DecisionKeeps, KeepsAll DEF Evolves
        <3> QED
            BY <3>1, <3>2
    <2>7. CASE Trigger(t)
        <3>1. CASE UNCHANGED db
            BY <1>1, <3>1
        <3>2. ASSUME NEW h \in Holds, hold[h] = NoHold, NEW row,
                     hold' = [hold EXCEPT ![h] = row], UNCHANGED <<actor, envelope>>
              PROVE  Evolves
            <4>1. KeepsHolds(hold, hold')
                BY <3>2 DEF KeepsHolds, TInv, TypeOK
            <4> QED
                BY <3>2, <4>1, KeepsAll DEF Evolves
        <3> QED
            BY <2>7, <3>1, <3>2 DEF Trigger
    <2> QED
        BY <1>4, <2>1, <2>2, <2>3, <2>4, <2>5, <2>6, <2>7 DEF Progress
<1> QED
    BY <1>2, <1>3, <1>4 DEF Next, TaskStep

-----------------------------------------------------------------------------
\* The tasks' knowledge.

\* What a task knows stays true while the tables evolve.
LEMMA StoryPersists ==
    ASSUME NEW r \in TaskRow, NEW act, NEW act2, NEW env, NEW env2, NEW hld, NEW hld2,
           act2 \in [Actors -> ActorRow \cup {NoActor}],
           KeepsActors(act, act2), KeepsEnvelopes(env, env2), KeepsHolds(hld, hld2),
           Story(r, act, env, hld)
    PROVE  Story(r, act2, env2, hld2)
<1>1. r.action # None => r.action \in Requests /\ r.action.actor \in Actors
    BY RequestsAssumption DEF RequestOK, TaskRow
<1>2. /\ r.envelope # None => r.envelope \in Envelopes
      /\ r.parent # None => r.parent \in Envelopes
      /\ r.via # None => r.via \in Holds
    BY DEF TaskRow
<1>3. KnownActor(r, act2)
    BY <1>1 DEF Story, KnownActor, KeepsActors
<1>4. CarriesHold(r, hld2)
    BY <1>2 DEF Story, CarriesHold, KeepsHolds
<1>5. \A a : \A e \in Envelopes : Grants(env[e], a) => Grants(env2[e], a)
    BY DEF Grants, KeepsEnvelopes
<1>6. \A a : \A e \in Envelopes :
         env[e] # NoEnvelope /\ HoldTriggered(env2[e], a) => HoldTriggered(env[e], a)
    BY DEF HoldTriggered, KeepsEnvelopes
<1>7. KnownEnvelopes(r, act2, env2)
    <2>1. r.pc \in {"list_holds", "expire_holds"} =>
             r.envelope # None /\ Grants(env2[r.envelope], r.action)
        BY <1>2, <1>5 DEF Story, KnownEnvelopes
    <2>2. r.pc = "consume" =>
             /\ r.envelope # None /\ env2[r.envelope] # NoEnvelope
             /\ env2[r.envelope].holder = r.action.actor
        BY <1>2 DEF Story, KnownEnvelopes, KeepsEnvelopes
    <2>3. Unheld(r, act2) => Unheld(r, act)
        BY <1>1 DEF Story, KnownActor, Unheld, KeepsActors
    <2>4. Cleared(r.action, env) => Cleared(r.action, env2)
        BY <1>5, <1>6 DEF Cleared, Grants
    <2> QED
        BY <2>1, <2>2, <2>3, <2>4 DEF Story, KnownEnvelopes
<1>8. KnownParent(r, env2)
    BY <1>2 DEF Story, KnownParent, KeepsEnvelopes, Shrinks
<1> QED
    BY <1>3, <1>4, <1>7, <1>8 DEF Story

\* A call that has returned claims nothing.
LEMMA ReturnedStory ==
    ASSUME NEW act, NEW env, NEW hld
    PROVE  Story(Returned, act, env, hld)
<1>1. /\ Returned.pc = "done" /\ Returned.reserved = 0 /\ Returned.via = None
      /\ Returned.parent = None
    BY DEF Returned, NewTask
<1> QED
    BY <1>1 DEF Story, KnownActor, CarriesHold, KnownEnvelopes, Unheld, KnownParent

\* A record that goes on with the request of another knows what that one knew
\* and what it has read since.
LEMMA StoryGoesOn ==
    ASSUME NEW r, NEW row, NEW act, NEW env, NEW hld, Story(r, act, env, hld),
           row.action = r.action, row.via = r.via, row.via # None => row.reserved = r.reserved,
           row.pc # "new",
           row.pc \notin {"check", "done"} \/ row.reserved > 0 =>
              r.action # None /\ act[r.action.actor] # NoActor,
           row.pc \in {"list_late", "expire_late", "resolve"} =>
              act[r.action.actor].kind = "human",
           row.pc = "reserve" => r.via = None,
           KnownEnvelopes(row, act, env),
           row.parent = r.parent \/ KnownParent(row, env)
    PROVE  Story(row, act, env, hld)
<1>1. KnownActor(row, act)
    BY DEF KnownActor
<1>2. CarriesHold(row, hld)
    BY DEF Story, CarriesHold
<1>3. KnownParent(row, env)
    BY DEF Story, KnownParent
<1> QED
    BY <1>1, <1>2, <1>3 DEF Story

\* A request is routed once it is authorised: a human's, an observe, one that
\* carries an approved hold or its client's _hold_approved, or one that an
\* envelope clears.
LEMMA RoutedStory ==
    ASSUME NEW r \in TaskRow, NEW row, NEW act, NEW env, NEW hld, Story(r, act, env, hld),
           r.action # None, act[r.action.actor] # NoActor,
           \/ r.via # None \/ SelfApproved(r) \/ ~StateChanging(r.action.type)
           \/ act[r.action.actor].kind # "agent" \/ Cleared(r.action, env),
           row.action = r.action, row.via = r.via, row.reserved = r.reserved,
           row.parent = r.parent, row.pc = Route(r.action, r.via)
    PROVE  Story(row, act, env, hld)
<1>1. row.pc \in {"respond", "parse", "finalize", "reserve"}
    BY RouteSteps
<1>2. row.pc = "reserve" => r.via = None
    BY DEF Route, AfterParse
<1>3. KnownEnvelopes(row, act, env)
    BY <1>1 DEF KnownEnvelopes, Unheld, SelfApproved
<1> QED
    BY <1>1, <1>2, <1>3, StoryGoesOn

\* The task moves to a record that is true of the tables as they are.
Retold(t) == \E row : Update(t, row) /\ Story(row, actor, envelope, hold)

\* An answer.
LEMMA ReturnRetold ==
    ASSUME NEW t, Return(t)
    PROVE  Retold(t)
BY ReturnedStory DEF Return, Retold

\* Where an agent's request goes with an envelope that grants it.
LEMMA AuthorizedStory ==
    ASSUME TInv, Stories, NEW t \in Tasks, NEW e \in Envelopes, Grants(envelope[e], task[t].action),
           task[t].action # None, Exists(task[t].action.actor),
           NEW row, row.action = task[t].action, row.via = task[t].via,
           row.reserved = task[t].reserved, row.parent = task[t].parent,
           row.pc = AfterAuthorize(t, e)
    PROVE  Story(row, actor, envelope, hold)
<1> DEFINE r == task[t]
<1>0. r \in TaskRow /\ Story(r, actor, envelope, hold)
    BY DEF TInv, TypeOK, Stories
<1>1. CASE row.pc = "trigger"
    <2>1. KnownEnvelopes(row, actor, envelope)
        BY <1>1 DEF KnownEnvelopes, Unheld
    <2> QED
        BY <1>0, <1>1, <2>1, StoryGoesOn DEF Exists
<1>2. CASE row.pc = Route(r.action, r.via) /\
              (r.via # None \/ SelfApproved(r) \/ ~HoldTriggered(envelope[e], r.action))
    <2>1. r.via # None \/ SelfApproved(r) \/ Cleared(r.action, envelope)
        BY <1>2 DEF Cleared
    <2> QED
        BY <1>0, <1>2, <2>1, RoutedStory DEF Exists
<1> QED
    BY <1>1, <1>2 DEF AfterAuthorize

\* The steps up to the authorisation, and the failures.
LEMMA EarlyStory ==
    ASSUME TInv, Stories, NEW t \in Tasks,
           \/ Submit(t) \/ Abort(t) \/ Check(t) \/ CheckLineage(t) \/ ExpireEnvelope(t)
           \/ Respond(t) \/ SkipTimeout(t) \/ RejectPayload(t) \/ Trigger(t) \/ Lifecycle(t)
    PROVE  Retold(t)
<1> DEFINE r == task[t]
           a == r.action
<1>0. r \in TaskRow /\ TaskOK(r, actor, envelope) /\ Story(r, actor, envelope, hold)
    BY DEF TInv, TypeOK, TasksOK, Stories
<1>1. CASE Return(t)
    BY <1>1, ReturnRetold
<1>2. ASSUME NEW pc, Goto(t, pc), Story(At(r, pc), actor, envelope, hold) PROVE Retold(t)
    BY <1>2 DEF Goto, Retold
<1>3. \A pc : pc # "done" => /\ At(r, pc).pc = pc /\ At(r, pc).action = a
                             /\ At(r, pc).via = r.via /\ At(r, pc).reserved = r.reserved
                             /\ At(r, pc).parent = r.parent
    BY <1>0 DEF At, TaskRow
<1>4. ASSUME NEW pc \in {"lineage", "authorize", "list_late", "resolve"}, Goto(t, pc),
             a # None, Exists(a.actor),
             pc \in {"list_late", "resolve"} => actor[a.actor].kind = "human"
      PROVE  Retold(t)
    <2> DEFINE row == At(r, pc)
    <2>1. /\ row.pc = pc /\ row.action = a /\ row.via = r.via /\ row.reserved = r.reserved
          /\ row.parent = r.parent
        BY <1>3
    <2> HIDE DEF row
    <2>2. KnownEnvelopes(row, actor, envelope)
        BY <1>4, <2>1 DEF KnownEnvelopes, Unheld
    <2>3. Story(row, actor, envelope, hold)
        BY <1>0, <1>4, <2>1, <2>2, StoryGoesOn DEF Exists
    <2> QED
        BY <1>2, <1>4, <2>3 DEF row
<1>5. ASSUME Goto(t, Route(a, r.via)), a # None, Exists(a.actor),
             ~StateChanging(a.type) \/ actor[a.actor].kind # "agent"
      PROVE  Retold(t)
    <2> DEFINE row == At(r, Route(a, r.via))
    <2>1. Route(a, r.via) # "done"
        BY RouteSteps
    <2>2. /\ row.pc = Route(a, r.via) /\ row.action = a /\ row.via = r.via
          /\ row.reserved = r.reserved /\ row.parent = r.parent
        BY <1>3, <2>1
    <2> HIDE DEF row
    <2>3. Story(row, actor, envelope, hold)
        BY <1>0, <1>5, <2>2, RoutedStory DEF Exists
    <2> QED
        BY <1>2, <1>5, <2>3 DEF row
<1>6. CASE Submit(t)
    <2>1. PICK b \in Requests : Update(t, [r EXCEPT !.pc = "check", !.action = b])
        BY <1>6 DEF Submit
    <2> DEFINE row == [r EXCEPT !.pc = "check", !.action = b]
    <2>2. r = NewTask
        BY <1>0, <1>6 DEF Submit, Story, KnownActor
    <2>3. row.pc = "check" /\ row.reserved = 0 /\ row.via = None /\ row.parent = None
        BY <2>2 DEF NewTask
    <2> HIDE DEF row
    <2>4. Story(row, actor, envelope, hold)
        BY <2>3 DEF Story, KnownActor, CarriesHold, KnownEnvelopes, Unheld, KnownParent
    <2> QED
        BY <2>1, <2>4 DEF row, Retold
<1>7. CASE Abort(t) \/ RejectPayload(t) \/ Trigger(t) \/ Lifecycle(t)
    BY <1>1, <1>7 DEF Abort, RejectPayload, Trigger, Lifecycle
<1>8. CASE Check(t)
    <2>1. a # None
        BY <1>0, <1>8 DEF Check, TaskOK
    <2> QED
        BY <1>1, <1>4, <1>5, <1>8, <2>1 DEF Check, AfterCheck, MayEnter
<1>9. r.pc \notin {"new", "check", "done"} => a # None /\ Exists(a.actor)
    BY <1>0 DEF Story, KnownActor, Exists
<1>10. CASE CheckLineage(t)
    BY <1>1, <1>4, <1>9, <1>10 DEF CheckLineage
<1>11. CASE ExpireEnvelope(t)
    BY <1>1, <1>5, <1>9, <1>11 DEF ExpireEnvelope
<1>12. CASE Respond(t) \/ SkipTimeout(t)
    BY <1>1, <1>4, <1>9, <1>12 DEF Respond, SkipTimeout
<1> QED
    BY <1>6, <1>7, <1>8, <1>10, <1>11, <1>12

\* The authorisation reads an envelope and keeps what it grants.
LEMMA AuthorizeStory ==
    ASSUME TInv, Stories, NEW t \in Tasks, Authorize(t)
    PROVE  Retold(t)
<1> DEFINE r == task[t]
           a == r.action
<1>0. r \in TaskRow /\ Story(r, actor, envelope, hold) /\ r.pc = "authorize"
    BY DEF TInv, TypeOK, Stories, Authorize
<1>1. a # None /\ Exists(a.actor)
    BY <1>0 DEF Story, KnownActor, Exists
<1>2. CASE Return(t)
    BY <1>2, ReturnRetold
<1>3. ASSUME actor[a.actor].kind = "human", Goto(t, Route(a, r.via))
      PROVE  Retold(t)
    <2> DEFINE row == At(r, Route(a, r.via))
    <2>1. Route(a, r.via) # "done"
        BY RouteSteps
    <2>2. /\ row.pc = Route(a, r.via) /\ row.action = a /\ row.via = r.via
          /\ row.reserved = r.reserved /\ row.parent = r.parent
        BY <1>0, <2>1 DEF At, TaskRow
    <2> HIDE DEF row
    <2>3. Story(row, actor, envelope, hold)
        BY <1>0, <1>1, <1>3, <2>2, RoutedStory DEF Exists
    <2> QED
        BY <1>3, <2>3 DEF row, Goto, Retold
<1>4. ASSUME NEW e \in NewestActive(a.actor), NEW pc,
             Update(t, [r EXCEPT !.pc = pc, !.envelope = e]),
             \/ pc = "expire_envelope"
             \/ EnvelopeCovers(envelope[e], a) /\ pc \in {"list_holds", AfterAuthorize(t, e)}
      PROVE  Retold(t)
    <2> DEFINE row == [r EXCEPT !.pc = pc, !.envelope = e]
    <2>1. e \in Envelopes /\ envelope[e] # NoEnvelope /\ e # None /\ envelope[e].holder = a.actor
        BY <1>4, NewestExists DEF NewestActive, ActiveEnvelopes
    <2>2. /\ row.pc = pc /\ row.action = a /\ row.via = r.via /\ row.envelope = e
          /\ row.reserved = r.reserved /\ row.parent = r.parent
        BY <1>0 DEF TaskRow
    <2>3. EnvelopeCovers(envelope[e], a) => Grants(envelope[e], a)
        BY <2>1 DEF EnvelopeCovers, Grants
    <2> HIDE DEF row
    <2>4. CASE pc = "expire_envelope" \/ (pc = "list_holds" /\ EnvelopeCovers(envelope[e], a))
        <3>1. KnownEnvelopes(row, actor, envelope)
            BY <2>1, <2>2, <2>3, <2>4 DEF KnownEnvelopes, Unheld
        <3>2. Story(row, actor, envelope, hold)
            BY <1>0, <1>1, <2>2, <2>4, <3>1, StoryGoesOn DEF Exists
        <3> QED
            BY <1>4, <3>2 DEF row, Retold
    <2>5. CASE pc = AfterAuthorize(t, e) /\ EnvelopeCovers(envelope[e], a)
        <3>1. Story(row, actor, envelope, hold)
            BY <1>1, <2>1, <2>2, <2>3, <2>5, AuthorizedStory
        <3> QED
            BY <1>4, <3>1 DEF row, Retold
    <2> QED
        BY <1>4, <2>4, <2>5
<1> QED
    BY <1>2, <1>3, <1>4 DEF Authorize

\* The expiry of overdue holds goes on with the envelope that was read.
LEMMA ExpiryStory ==
    ASSUME TInv, Stories, NEW t \in Tasks, ListHolds(t) \/ ExpireHold(t)
    PROVE  Retold(t)
<1> DEFINE r == task[t]
           a == r.action
<1>0. /\ r \in TaskRow /\ Story(r, actor, envelope, hold)
      /\ r.pc \in {"list_holds", "expire_holds", "list_late", "expire_late"}
    BY DEF TInv, TypeOK, Stories, ListHolds, ExpireHold
<1>1. a # None /\ Exists(a.actor)
    BY <1>0 DEF Story, KnownActor, Exists
<1>2. CASE Return(t)
    BY <1>2, ReturnRetold
<1>3. ASSUME NEW todo, NEW pc, Update(t, At([r EXCEPT !.todo = todo], pc)),
             IF r.pc \in {"list_late", "expire_late"} THEN pc \in {"done", "expire_late"}
             ELSE pc \in {"expire_holds", AfterAuthorize(t, r.envelope)}
      PROVE  Retold(t)
    <2> DEFINE row == At([r EXCEPT !.todo = todo], pc)
    <2>1. CASE pc = "done"
        BY <1>2, <1>3, <2>1 DEF At, Return
    <2>2. CASE pc # "done"
        <3>1. /\ row.pc = pc /\ row.action = a /\ row.via = r.via /\ row.envelope = r.envelope
              /\ row.reserved = r.reserved /\ row.parent = r.parent
            BY <1>0, <2>2 DEF At, TaskRow
        <3> HIDE DEF row
        <3>2. CASE pc = "expire_late" /\ r.pc \in {"list_late", "expire_late"}
            <4>1. actor[a.actor].kind = "human"
                BY <1>0, <3>2 DEF Story, KnownActor
            <4>2. KnownEnvelopes(row, actor, envelope)
                BY <3>1, <3>2, <4>1 DEF KnownEnvelopes, Unheld
            <4>3. Story(row, actor, envelope, hold)
                BY <1>0, <1>1, <3>1, <3>2, <4>1, <4>2, StoryGoesOn DEF Exists
            <4> QED
                BY <1>3, <4>3 DEF row, Retold
        <3>3. CASE r.pc \in {"list_holds", "expire_holds"}
            <4>1. r.envelope \in Envelopes /\ Grants(envelope[r.envelope], a)
                BY <1>0, <3>3 DEF Story, KnownEnvelopes, TaskRow
            <4>2. CASE pc = "expire_holds"
                <5>1. KnownEnvelopes(row, actor, envelope)
                    BY <3>1, <4>1, <4>2, NoneAssumption DEF KnownEnvelopes, Unheld
                <5>2. Story(row, actor, envelope, hold)
                    BY <1>0, <1>1, <3>1, <4>2, <5>1, StoryGoesOn DEF Exists
                <5> QED
                    BY <1>3, <5>2 DEF row, Retold
            <4>3. CASE pc = AfterAuthorize(t, r.envelope)
                <5>1. Story(row, actor, envelope, hold)
                    BY <1>1, <3>1, <4>1, <4>3, AuthorizedStory
                <5> QED
                    BY <1>3, <5>1 DEF row, Retold
            <4> QED
                BY <1>3, <3>3, <4>2, <4>3
        <3> QED
            BY <1>0, <1>3, <2>2, <3>2, <3>3
    <2> QED
        BY <2>1, <2>2
<1>4. CASE ListHolds(t)
    <2> DEFINE late == r.pc = "list_late"
               e == IF late THEN hold[a.arg.hold].envelope ELSE r.envelope
               todo == OverdueHolds(e)
               after == IF late THEN "done" ELSE AfterAuthorize(t, e)
               pc == IF todo = {} THEN after ELSE IF late THEN "expire_late" ELSE "expire_holds"
    <2>1. r.pc \in {"list_holds", "list_late"} /\ Update(t, At([r EXCEPT !.todo = todo], pc))
        BY <1>4 DEF ListHolds
    <2>2. IF r.pc \in {"list_late", "expire_late"} THEN pc \in {"done", "expire_late"}
          ELSE pc \in {"expire_holds", AfterAuthorize(t, r.envelope)}
        BY <2>1
    <2> HIDE DEF todo, pc
    <2> QED
        BY <1>3, <2>1, <2>2
<1>5. CASE ExpireHold(t)
    <2> DEFINE after == IF r.pc = "expire_late" THEN "done" ELSE AfterAuthorize(t, r.envelope)
               todo(h) == r.todo \ {h}
               pc(h) == IF todo(h) = {} THEN after ELSE r.pc
    <2>1. /\ r.pc \in {"expire_holds", "expire_late"}
          /\ Return(t) \/ \E h \in r.todo : Update(t, At([r EXCEPT !.todo = todo(h)], pc(h)))
        BY <1>5 DEF ExpireHold
    <2>2. \A h : IF r.pc \in {"list_late", "expire_late"} THEN pc(h) \in {"done", "expire_late"}
                 ELSE pc(h) \in {"expire_holds", AfterAuthorize(t, r.envelope)}
        BY <2>1
    <2> HIDE DEF todo, pc
    <2> QED
        BY <1>2, <1>3, <2>1, <2>2
<1> QED
    BY <1>4, <1>5

\* After an approval the task carries the hold, its action and its reservation.
LEMMA ResolveStory ==
    ASSUME TInv, Stories, HoldsNamed, NEW t \in Tasks, Resolve(t)
    PROVE  Retold(t)
<1> DEFINE h == task[t].action.arg.hold
           r == hold[h]
           again == [NewTask EXCEPT !.pc = "check", !.action = r.action,
                                    !.via = h, !.reserved = r.reserved]
<1>1. CASE Return(t)
    BY <1>1, ReturnRetold
<1>2. CASE StillPending(r) /\ Update(t, again)
    <2>1. h \in Holds
        <3>1. task[t] \in TaskRow /\ TaskOK(task[t], actor, envelope)
            BY DEF TInv, TypeOK, TasksOK
        <3> QED
            BY <3>1, RequestsAssumption DEF Resolve, TaskOK, TaskRow, RequestOK
    <2>2. r \in HoldRow /\ r # NoHold
        BY <1>2, <2>1 DEF TInv, TypeOK, StillPending, NoHold
    <2>3. r.action # None /\ actor[r.action.actor] # NoActor
        BY <2>1, <2>2, NoneAssumption DEF HoldsNamed, HoldRow, Exists
    <2>4. /\ again.pc = "check" /\ again.action = r.action /\ again.via = h
          /\ again.reserved = r.reserved /\ again.parent = None
        BY DEF NewTask
    <2>5. Story(again, actor, envelope, hold)
        <3> HIDE DEF again
        <3> QED
            BY <2>2, <2>3, <2>4 DEF Story, KnownActor, CarriesHold, KnownEnvelopes, Unheld, KnownParent
    <2> QED
        BY <1>2, <2>5 DEF Retold
<1> QED
    BY <1>1, <1>2 DEF Resolve

\* The parent that Parse keeps has room for the child.
LEMMA ParseStory ==
    ASSUME TInv, Stories, NEW t \in Tasks, Parse(t)
    PROVE  Retold(t)
<1> DEFINE r == task[t]
           a == r.action
           next == AfterParse(r.via)
<1>0. r \in TaskRow /\ Story(r, actor, envelope, hold) /\ r.pc = "parse"
    BY DEF TInv, TypeOK, Stories, Parse
<1>1. a \in Requests /\ a # None /\ Exists(a.actor)
    BY <1>0 DEF Story, KnownActor, Exists, TaskRow
<1>2. next \in {"finalize", "reserve"} /\ (next = "reserve" => r.via = None)
    BY DEF AfterParse
<1>3. CASE Return(t) \/ Goto(t, "done")
    BY <1>3, ReturnRetold DEF Goto, At, Return
<1>4. ASSUME NEW row, Update(t, row), row.pc = next, row.action = a, row.via = r.via,
             row.reserved = r.reserved, row.parent = r.parent \/ KnownParent(row, envelope)
      PROVE  Retold(t)
    <2> HIDE DEF next
    <2>1. KnownEnvelopes(row, actor, envelope)
        BY <1>0, <1>2, <1>4 DEF Story, KnownEnvelopes, Unheld, SelfApproved
    <2>2. Story(row, actor, envelope, hold)
        BY <1>0, <1>1, <1>2, <1>4, <2>1, StoryGoesOn DEF Exists
    <2> QED
        BY <1>4, <2>2 DEF Retold
<1>5. CASE Goto(t, next)
    <2> DEFINE row == At(r, next)
    <2>1. /\ row.pc = next /\ row.action = a /\ row.via = r.via /\ row.reserved = r.reserved
          /\ row.parent = r.parent
        BY <1>0, <1>2 DEF At, TaskRow
    <2>2. Update(t, row)
        BY <1>5 DEF Goto
    <2> HIDE DEF row
    <2> QED
        BY <1>4, <2>1, <2>2
<1>6. ASSUME IsCreateEnvelope(a), NEW p \in NewestActive(a.actor),
             ReducesEnvelope(envelope[p], a.arg),
             Update(t, [r EXCEPT !.pc = next, !.parent = p])
      PROVE  Retold(t)
    <2> DEFINE row == [r EXCEPT !.pc = next, !.parent = p]
    <2>1. /\ row.pc = next /\ row.action = a /\ row.via = r.via /\ row.reserved = r.reserved
          /\ row.parent = p
        BY <1>0 DEF TaskRow
    <2>2. p \in Envelopes /\ envelope[p] # NoEnvelope
        BY <1>6, NewestExists
    <2>3. envelope[p] \in EnvelopeRow
        BY <2>2 DEF TInv, TypeOK
    <2>4. envelope[p].budget \in Nat /\ envelope[p].consumed \in Nat /\ a.arg.budget \in Int
        BY <1>1, <1>6, <2>3, RequestsAssumption DEF EnvelopeRow, RequestOK
    <2>5. Shrinks(envelope[p], a.arg)
        BY <1>6, <2>4 DEF ReducesEnvelope, Shrinks
    <2> HIDE DEF row
    <2>6. KnownParent(row, envelope)
        BY <1>6, <2>1, <2>2, <2>5 DEF KnownParent
    <2> QED
        BY <1>4, <1>6, <2>1, <2>6 DEF row
<1> QED
    BY <1>3, <1>5, <1>6 DEF Parse

\* The steps from the reservation on keep what was known at the authorisation.
LEMMA LateStory ==
    ASSUME TInv, Stories, NEW t \in Tasks,
           \/ ReserveEnergy(t) \/ TakePrepaid(t) \/ Finalize(t)
           \/ Account(t) \/ Consume(t) \/ SkipBudget(t)
    PROVE  Retold(t)
<1> DEFINE r == task[t]
           a == r.action
<1>0. /\ r \in TaskRow /\ Story(r, actor, envelope, hold)
      /\ r.pc \in {"reserve", "finalize", "account", "consume"}
    BY DEF TInv, TypeOK, Stories, ReserveEnergy, TakePrepaid, Finalize, Account, Consume, SkipBudget
<1>1. a # None /\ Exists(a.actor)
    BY <1>0 DEF Story, KnownActor, Exists
<1>2. CASE Return(t)
    BY <1>2, ReturnRetold
<1>3. ASSUME NEW row, Update(t, row), row.pc \in {"finalize", "account", "consume", "lifecycle"},
             row.action = a, row.via = r.via, row.parent = r.parent,
             row.reserved = r.reserved \/ r.pc = "reserve",
             row.pc = "consume" =>
                /\ row.envelope # None /\ envelope[row.envelope] # NoEnvelope
                /\ envelope[row.envelope].holder = a.actor
      PROVE  Retold(t)
    <2>1. r.pc = "reserve" => r.via = None
        BY <1>0 DEF Story, CarriesHold
    <2>2. KnownEnvelopes(row, actor, envelope)
        BY <1>0, <1>3 DEF Story, KnownEnvelopes, Unheld, SelfApproved
    <2>3. Story(row, actor, envelope, hold)
        BY <1>0, <1>1, <1>3, <2>1, <2>2, StoryGoesOn DEF Exists
    <2> QED
        BY <1>3, <2>3 DEF Retold
<1>4. ASSUME NEW pc \in {"account", "lifecycle", "done"}, Goto(t, pc), r.pc # "reserve"
      PROVE  Retold(t)
    <2> DEFINE row == At(r, pc)
    <2>1. CASE pc = "done"
        BY <1>2, <1>4, <2>1 DEF Goto, At, Return
    <2>2. CASE pc # "done"
        <3>1. /\ row.pc = pc /\ row.action = a /\ row.via = r.via /\ row.reserved = r.reserved
              /\ row.parent = r.parent
            BY <1>0, <2>2 DEF At, TaskRow
        <3>2. Update(t, row)
            BY <1>4 DEF Goto
        <3> HIDE DEF row
        <3> QED
            BY <1>3, <1>4, <2>2, <3>1, <3>2
    <2> QED
        BY <2>1, <2>2
<1>5. /\ AfterBudget(a) \in {"lifecycle", "done"}
      /\ \A cost : AfterCommit(a, cost) \in {"account", "lifecycle", "done"}
    BY DEF AfterBudget, AfterCommit
<1>6. CASE ReserveEnergy(t) \/ TakePrepaid(t)
    <2> DEFINE row(cost) == [r EXCEPT !.pc = "finalize", !.reserved = cost]
    <2>1. /\ r.pc = "reserve"
          /\ \A cost : /\ row(cost).pc = "finalize" /\ row(cost).action = a
                       /\ row(cost).via = r.via /\ row(cost).parent = r.parent
        BY <1>0, <1>6 DEF TaskRow, ReserveEnergy, TakePrepaid
    <2>2. Return(t) \/ \E cost : Update(t, row(cost))
        BY <1>6 DEF ReserveEnergy, TakePrepaid
    <2> HIDE DEF row
    <2> QED
        BY <1>2, <1>3, <2>1, <2>2
<1>7. CASE Finalize(t)
    BY <1>2, <1>4, <1>5, <1>7 DEF Finalize
<1>8. CASE Consume(t) \/ SkipBudget(t)
    BY <1>4, <1>5, <1>8 DEF Consume, SkipBudget
<1>9. CASE Account(t)
    <2>1. ASSUME NEW e \in NewestActive(a.actor), NEW halt,
                 Update(t, [r EXCEPT !.pc = "consume", !.envelope = e, !.halt = halt])
          PROVE  Retold(t)
        <3> DEFINE row == [r EXCEPT !.pc = "consume", !.envelope = e, !.halt = halt]
        <3>1. /\ row.pc = "consume" /\ row.action = a /\ row.via = r.via /\ row.parent = r.parent
              /\ row.reserved = r.reserved /\ row.envelope = e
            BY <1>0 DEF TaskRow
        <3>2. e # None /\ envelope[e] # NoEnvelope /\ envelope[e].holder = a.actor
            BY <2>1, NewestExists DEF NewestActive, ActiveEnvelopes
        <3> HIDE DEF row
        <3> QED
            BY <1>3, <2>1, <3>1, <3>2 DEF row
    <2> QED
        BY <1>4, <1>5, <1>9, <2>1 DEF Account
<1> QED
    BY <1>6, <1>7, <1>8, <1>9

\* Whatever a task does next, its record is true of the tables.
LEMMA TaskStory ==
    ASSUME TInv, Stories, HoldsNamed, NEW t \in Tasks, TaskStep(t) \/ ClientStep(t)
    PROVE  Retold(t)
BY EarlyStory, AuthorizeStory, ExpiryStory, ResolveStory, ParseStory, LateStory
DEF TaskStep, ClientStep, Progress

\* The tasks' records stay true of the tables.
LEMMA StoriesNext ==
    ASSUME TInv, TInv', Stories, HoldsNamed, Evolves, [Next]_vars
    PROVE  Stories'
<1>1. task \in [Tasks -> TaskRow] /\ task' \in [Tasks -> TaskRow]
      /\ actor' \in [Actors -> ActorRow \cup {NoActor}]
    BY DEF TInv, TypeOK
<1>2. SUFFICES \A t \in Tasks : Story(task'[t], actor, envelope, hold)
    BY <1>1, StoryPersists DEF Evolves, Stories
<1>3. CASE UNCHANGED task
    BY <1>3 DEF Stories
<1>4. CASE Crash
    <2>1. \A t \in Tasks : task'[t] \in {task[t], Returned}
        BY <1>4 DEF Crash
    <2> QED
        BY <2>1, ReturnedStory DEF Stories
<1>5. ASSUME NEW t \in Tasks, TaskStep(t) \/ ClientStep(t)
      PROVE  \A s \in Tasks : Story(task'[s], actor, envelope, hold)
    <2>1. PICK row : Update(t, row) /\ Story(row, actor, envelope, hold)
        BY <1>5, TaskStory DEF Retold
    <2>2. \A s \in Tasks : task'[s] \in {task[s], row}
        BY <1>1, <2>1 DEF Update
    <2> QED
        BY <2>1, <2>2 DEF Stories
<1> QED
    BY <1>3, <1>4, <1>5 DEF Next, System, ListShares, CreditShares, CreditFails, Elapse, Restart, vars

-----------------------------------------------------------------------------
\* The rows that tasks insert.

\* An event of actors that exist; an agent's, without a hold and without its
\* client's _hold_approved, is cleared.
Accounted(event) ==
    /\ Exists(event.actor)
    /\ Exists(event.payer)
    /\ /\ event.type \in {"create", "mutate", "execute"}
       /\ actor[event.actor].kind = "agent"
       /\ event.hold = None /\ ~event.selfApproved
       => Cleared(event, envelope)

\* A step appends at most one event, and accounts for it.
LEMMA LogStep ==
    ASSUME TInv, Stories, HoldsNamed, [Next]_vars
    PROVE  UNCHANGED log \/ \E event : log' = Append(log, event) /\ Accounted(event)
<1>0. CASE UNCHANGED log
    BY <1>0
<1>1. CASE System \/ UNCHANGED vars
    BY <1>0, <1>1 DEF System, ListShares, CreditShares, CreditFails, Elapse, Crash, Restart, vars, db
<1>2. ASSUME NEW t \in Tasks, ClientStep(t) PROVE UNCHANGED log
    BY <1>2 DEF ClientStep, Submit, Abort, SkipTimeout, SkipBudget, db
<1>3. ASSUME NEW t \in Tasks, Progress(t), ~UNCHANGED log
      PROVE  \E event : log' = Append(log, event) /\ Accounted(event)
    <2> DEFINE r == task[t]
               a == r.action
    <2>0. r \in TaskRow /\ TaskOK(r, actor, envelope) /\ Story(r, actor, envelope, hold)
        BY DEF TInv, TypeOK, TasksOK, Stories
    <2>1. r.pc \notin {"new", "check", "done"} => a # None /\ a \in Requests /\ Exists(a.actor)
        BY <2>0 DEF Story, KnownActor, Exists, TaskRow
    <2>2. \A type, by, payer, h, c, d :
             /\ HoldEvent(type, by, payer, h, c, d).actor = by
             /\ HoldEvent(type, by, payer, h, c, d).payer = payer
             /\ HoldEvent(type, by, payer, h, c, d).type = type
        BY DEF HoldEvent
    <2>3. \A h \in Holds : StillPending(hold[h]) => Exists(hold[h].agent)
        BY DEF StillPending, HoldsNamed, NoHold
    <2>4. CASE ExpireHold(t)
        <3> DEFINE event(h) == HoldEvent("hold_timeout", hold[h].agent, hold[h].agent, h,
                                         hold[h].reserved, CommitmentCost(hold[h].reserved))
        <3>1. PICK h \in r.todo : StillPending(hold[h]) /\ log' = Append(log, event(h))
            BY <1>3, <2>4 DEF ExpireHold, db
        <3>2. Accounted(event(h))
            <4>1. h \in Holds
                BY <2>0 DEF TaskRow
            <4>2. /\ event(h).actor = hold[h].agent /\ event(h).payer = hold[h].agent
                  /\ event(h).type = "hold_timeout"
                BY <2>2
            <4> HIDE DEF event
            <4> QED
                BY <2>3, <3>1, <4>1, <4>2 DEF Accounted
        <3> QED
            BY <3>1, <3>2
    <2>5. CASE Resolve(t)
        <3> DEFINE h == a.arg.hold
                   cost == IF a.arg.decision = "reject" THEN CommitmentCost(hold[h].reserved) ELSE 0
                   event == HoldEvent("hold_response", a.actor, hold[h].agent, h,
                                      hold[h].reserved, cost)
        <3>1. r.pc = "resolve" /\ StillPending(hold[h]) /\ log' = Append(log, event)
            BY <1>3, <2>5 DEF Resolve, db
        <3>2. h \in Holds
            BY <2>0, <3>1, RequestsAssumption DEF TaskOK, TaskRow, RequestOK
        <3>3. /\ event.actor = a.actor /\ event.payer = hold[h].agent
              /\ event.type = "hold_response"
            <4> HIDE DEF cost, h, a
            <4> QED
                BY DEF HoldEvent
        <3> HIDE DEF event
        <3>4. Accounted(event)
            BY <2>1, <2>3, <3>1, <3>2, <3>3 DEF Accounted
        <3> QED
            BY <3>1, <3>4
    <2>6. CASE Trigger(t)
        <3> DEFINE event(h) == HoldEvent("hold_request", a.actor, a.actor, h, QuoteCost(a), 0)
        <3>1. r.pc = "trigger"
            BY <2>6 DEF Trigger
        <3>2. PICK h \in Holds : log' = Append(log, event(h))
            BY <1>3, <2>6, Zenon DEF Trigger, db
        <3>3. /\ event(h).actor = a.actor /\ event(h).payer = a.actor
              /\ event(h).type = "hold_request"
            BY <2>2
        <3> HIDE DEF event
        <3>4. Accounted(event(h))
            BY <2>1, <3>1, <3>3 DEF Accounted
        <3> QED
            BY <3>2, <3>4
    <2>7. CASE Finalize(t)
        <3> DEFINE event == ActionEvent(r)
        <3>1. r.pc = "finalize" /\ log' = Append(log, event)
            BY <1>3, <2>7 DEF Finalize, db
        <3>2. /\ event.actor = a.actor /\ event.payer = a.actor /\ event.type = a.type
              /\ event.target = a.target /\ event.hold = r.via
              /\ event.selfApproved = SelfApproved(r)
            BY DEF ActionEvent
        <3> HIDE DEF event
        <3>3. Cleared(a, envelope) => Cleared(event, envelope)
            BY <3>2 DEF Cleared, Grants, HoldTriggered
        <3>4. /\ a.type \in {"create", "mutate", "execute"} /\ actor[a.actor].kind = "agent"
              /\ r.via = None /\ ~SelfApproved(r)
              => Cleared(a, envelope)
            BY <2>0, <3>1 DEF Story, KnownEnvelopes, Unheld, StateChanging
        <3>5. Accounted(event)
            BY <2>1, <3>1, <3>2, <3>3, <3>4 DEF Accounted
        <3> QED
            BY <3>1, <3>5
    <2> QED
        BY <1>3, <2>4, <2>5, <2>6, <2>7
        DEF Progress, Check, CheckLineage, Authorize, ExpireEnvelope, ListHolds, Respond, Parse,
            ReserveEnergy, TakePrepaid, RejectPayload, Account, Consume, Lifecycle, db
<1> QED
    BY <1>1, <1>2, <1>3 DEF Next, TaskStep

\* The events of the log stay accounted for.
LEMMA EventsNext ==
    ASSUME TInv, TInv', Stories, HoldsNamed, EventsNamed, EventsCleared, Evolves, [Next]_vars
    PROVE  EventsNamed' /\ EventsCleared'
<1>0. log \in Seq(EventRow) /\ log' \in Seq(EventRow)
    BY DEF TInv, TypeOK
<1>1. ASSUME NEW i \in DOMAIN log' PROVE Accounted(log'[i])
    <2>1. CASE i \in DOMAIN log /\ log'[i] = log[i]
        BY <2>1 DEF EventsNamed, EventsCleared, Accounted
    <2>2. CASE UNCHANGED log
        BY <1>1, <2>1, <2>2
    <2>3. ASSUME NEW event, log' = Append(log, event), Accounted(event) PROVE Accounted(log'[i])
        <3>1. (i \in DOMAIN log /\ log'[i] = log[i]) \/ log'[i] = event
            BY <1>0, <1>1, <2>3
        <3> QED
            BY <2>1, <2>3, <3>1
    <2> QED
        BY <2>2, <2>3, LogStep
<1>2. ASSUME NEW i \in DOMAIN log' PROVE log'[i].actor \in Actors /\ log'[i].payer \in Actors
    <2>1. log'[i] \in EventRow
        BY <1>0, <1>2
    <2> QED
        BY <2>1 DEF EventRow
<1>3. EventsNamed'
    BY <1>1, <1>2 DEF EventsNamed, Accounted, Exists, Evolves, KeepsActors
<1>4. \A event : Cleared(event, envelope) => Cleared(event, envelope')
    BY DEF Cleared, Grants, HoldTriggered, Evolves, KeepsEnvelopes
<1>5. EventsCleared'
    BY <1>1, <1>2, <1>4 DEF EventsCleared, Accounted, Exists, Evolves, KeepsActors
<1> QED
    BY <1>3, <1>5

\* What a step may do to the holds: nothing, decide one, or open one.
LEMMA HoldStep ==
    ASSUME TInv, Stories, [Next]_vars
    PROVE  \/ UNCHANGED hold
           \/ \E h \in Holds, status \in {"approved", "rejected", "timed_out"} :
                 /\ StillPending(hold[h])
                 /\ hold' = [hold EXCEPT ![h].status = status]
                 /\ status = "approved" =>
                       \E event : /\ log' = Append(log, event)
                                  /\ event.type = "hold_response" /\ event.hold = h
                                  /\ Exists(event.actor) /\ actor[event.actor].kind = "human"
           \/ \E h \in Holds, row \in HoldRow :
                 /\ hold[h] = NoHold
                 /\ hold' = [hold EXCEPT ![h] = row]
                 /\ row.status = "pending" /\ row.agent = row.action.actor /\ Exists(row.agent)
<1>0. CASE UNCHANGED hold
    BY <1>0
<1>1. CASE System \/ UNCHANGED vars
    BY <1>0, <1>1 DEF System, ListShares, CreditShares, CreditFails, Elapse, Crash, Restart, vars, db
<1>2. ASSUME NEW t \in Tasks, ClientStep(t) PROVE UNCHANGED hold
    BY <1>2 DEF ClientStep, Submit, Abort, SkipTimeout, SkipBudget, db
<1>3. ASSUME NEW t \in Tasks, TaskStep(t), ~UNCHANGED hold
      PROVE  ExpireHold(t) \/ Resolve(t) \/ Trigger(t)
    BY <1>3
    DEF TaskStep, Progress, Check, CheckLineage, Authorize, ExpireEnvelope, ListHolds, Respond, Parse,
        ReserveEnergy, TakePrepaid, RejectPayload, Finalize, Account, Consume, Lifecycle, db
<1>4. ASSUME NEW t \in Tasks, ExpireHold(t), ~UNCHANGED hold
      PROVE  \E h \in Holds : StillPending(hold[h]) /\ hold' = [hold EXCEPT ![h].status = "timed_out"]
    <2>1. task[t].todo \subseteq Holds
        BY DEF TInv, TypeOK, TaskRow
    <2> QED
        BY <1>4, <2>1 DEF ExpireHold, db
<1>5. ASSUME NEW t \in Tasks, Resolve(t), ~UNCHANGED hold
      PROVE  \E h \in Holds, status \in {"approved", "rejected", "timed_out"} :
                 /\ StillPending(hold[h])
                 /\ hold' = [hold EXCEPT ![h].status = status]
                 /\ \E event : /\ log' = Append(log, event)
                               /\ event.type = "hold_response" /\ event.hold = h
                               /\ Exists(event.actor) /\ actor[event.actor].kind = "human"
    <2> DEFINE a == task[t].action
               h == a.arg.hold
               cost == IF a.arg.decision = "reject" THEN CommitmentCost(hold[h].reserved) ELSE 0
               event == HoldEvent("hold_response", a.actor, hold[h].agent, h, hold[h].reserved, cost)
    <2>1. /\ task[t].pc = "resolve" /\ StillPending(hold[h]) /\ log' = Append(log, event)
          /\ hold' = [hold EXCEPT ![h].status = Decided(a.arg.decision)]
        BY <1>5 DEF Resolve, db
    <2>2. /\ task[t] \in TaskRow /\ TaskOK(task[t], actor, envelope)
          /\ Story(task[t], actor, envelope, hold)
        BY DEF TInv, TypeOK, TasksOK, Stories
    <2>3. h \in Holds
        BY <2>1, <2>2, RequestsAssumption DEF TaskOK, TaskRow, RequestOK
    <2>4. Exists(a.actor) /\ actor[a.actor].kind = "human"
        BY <2>1, <2>2 DEF Story, KnownActor, Exists
    <2>5. event.type = "hold_response" /\ event.hold = h /\ event.actor = a.actor
        BY DEF HoldEvent
    <2>6. Decided(a.arg.decision) \in {"approved", "rejected", "timed_out"}
        BY DEF Decided
    <2> HIDE DEF event, h
    <2> QED
        BY <2>1, <2>3, <2>4, <2>5, <2>6
<1>6. ASSUME NEW t \in Tasks, Trigger(t), ~UNCHANGED hold
      PROVE  \E h \in Holds, row \in HoldRow :
                 /\ hold[h] = NoHold
                 /\ hold' = [hold EXCEPT ![h] = row]
                 /\ row.status = "pending" /\ row.agent = row.action.actor /\ Exists(row.agent)
    <2> DEFINE a == task[t].action
               row == [status |-> "pending", envelope |-> task[t].envelope, agent |-> a.actor,
                       action |-> a, reserved |-> QuoteCost(a), triggeredAt |-> clock]
    <2>1. PICK h \in Holds : hold[h] = NoHold /\ hold' = [hold EXCEPT ![h] = row]
        BY <1>6, Zenon DEF Trigger, db
    <2>2. /\ task[t] \in TaskRow /\ TaskOK(task[t], actor, envelope)
          /\ Story(task[t], actor, envelope, hold) /\ task[t].pc = "trigger"
        BY <1>6 DEF TInv, TypeOK, TasksOK, Stories, Trigger
    <2>3. a \in Requests /\ Exists(a.actor) /\ task[t].envelope \in Envelopes
        BY <2>2 DEF Story, KnownActor, Exists, TaskRow, TaskOK
    <2>4. QuoteCost(a) \in Nat /\ a.actor \in Actors /\ clock \in Nat
        BY <2>3, QuotePositive, RequestsAssumption DEF RequestOK, TInv, TypeOK
    <2>5. row \in HoldRow
        BY <2>3, <2>4 DEF HoldRow
    <2>6. row.status = "pending" /\ row.agent = row.action.actor /\ Exists(row.agent)
        BY <2>3
    <2> HIDE DEF row
    <2> QED
        BY <2>1, <2>5, <2>6
<1>7. "timed_out" \in {"approved", "rejected", "timed_out"} /\ "timed_out" # "approved"
    OBVIOUS
<1> QED
    <2>1. CASE \E t \in Tasks : ExpireHold(t)
        BY <1>0, <1>4, <1>7, <2>1
    <2>2. CASE \E t \in Tasks : Resolve(t)
        BY <1>0, <1>5, <2>2
    <2>3. CASE \E t \in Tasks : Trigger(t)
        BY <1>0, <1>6, <2>3
    <2> QED
        BY <1>0, <1>1, <1>2, <1>3, <2>1, <2>2, <2>3 DEF Next

\* The holds stay named, and their approvals logged.
LEMMA HoldsNext ==
    ASSUME TInv, TInv', Stories, HoldsNamed, EventsNamed, ApprovalLogged, Evolves, [Next]_vars
    PROVE  HoldsNamed' /\ ApprovalLogged'
<1>0. /\ hold \in [Holds -> HoldRow \cup {NoHold}] /\ hold' \in [Holds -> HoldRow \cup {NoHold}]
      /\ log \in Seq(EventRow) /\ log' \in Seq(EventRow)
    BY DEF TInv, TypeOK
<1>1. \A h \in Holds : hold[h] # NoHold => hold[h].agent \in Actors
    BY <1>0 DEF HoldRow
<1>2. \A i \in DOMAIN log : log[i].actor \in Actors
    <2> SUFFICES ASSUME NEW i \in DOMAIN log PROVE log[i].actor \in Actors
        OBVIOUS
    <2>1. log[i] \in EventRow
        BY <1>0
    <2> QED
        BY <2>1 DEF EventRow
<1>3. \A i \in DOMAIN log : i \in DOMAIN log' /\ log'[i] = log[i]
    <2>1. CASE UNCHANGED log
        BY <2>1
    <2>2. CASE \E event : log' = Append(log, event)
        BY <1>0, <2>2
    <2> QED
        BY <2>1, <2>2, LogStep
<1>4. ASSUME NEW h \in Holds, hold[h] # NoHold
      PROVE  hold'[h].agent = hold'[h].action.actor /\ actor'[hold'[h].agent] # NoActor
    BY <1>1, <1>4 DEF HoldsNamed, Evolves, KeepsHolds, KeepsActors, Exists
<1>5. ASSUME NEW h \in Holds, hold[h].status = "approved"
      PROVE  \E i \in DOMAIN log' : /\ log'[i].type = "hold_response" /\ log'[i].hold = h
                                    /\ actor'[log'[i].actor].kind = "human"
    <2>1. PICK i \in DOMAIN log : /\ log[i].type = "hold_response" /\ log[i].hold = h
                                  /\ actor[log[i].actor].kind = "human"
        BY <1>5 DEF ApprovalLogged
    <2> QED
        BY <1>2, <1>3, <2>1 DEF EventsNamed, Exists, Evolves, KeepsActors
<1>6. CASE UNCHANGED hold
    BY <1>4, <1>5, <1>6 DEF HoldsNamed, ApprovalLogged, Exists
<1>7. ASSUME NEW h \in Holds, NEW status \in {"approved", "rejected", "timed_out"},
             StillPending(hold[h]),
             hold' = [hold EXCEPT ![h].status = status],
             status = "approved" =>
                 \E event : /\ log' = Append(log, event)
                            /\ event.type = "hold_response" /\ event.hold = h
                            /\ Exists(event.actor) /\ actor[event.actor].kind = "human"
      PROVE  HoldsNamed' /\ ApprovalLogged'
    <2>1. hold[h] \in HoldRow /\ hold[h] # NoHold
        BY <1>0, <1>7 DEF StillPending, NoHold
    <2>2. hold'[h].status = status /\ \A g \in Holds \ {h} : hold'[g] = hold[g]
        BY <1>0, <1>7, <2>1 DEF HoldRow
    <2>3. HoldsNamed'
        BY <1>4, <2>1, <2>2 DEF HoldsNamed, Exists
    <2>4. ASSUME status = "approved"
          PROVE  \E i \in DOMAIN log' : /\ log'[i].type = "hold_response" /\ log'[i].hold = h
                                        /\ actor'[log'[i].actor].kind = "human"
        <3>1. PICK event : /\ log' = Append(log, event)
                           /\ event.type = "hold_response" /\ event.hold = h
                           /\ Exists(event.actor) /\ actor[event.actor].kind = "human"
            BY <1>7, <2>4
        <3> DEFINE i == Len(log) + 1
        <3>2. i \in DOMAIN log' /\ log'[i] = event
            BY <1>0, <3>1
        <3>3. event.actor \in Actors
            <4>1. log'[i] \in EventRow
                BY <1>0, <3>2
            <4> QED
                BY <3>2, <4>1 DEF EventRow
        <3>4. actor'[event.actor].kind = "human"
            BY <3>1, <3>3 DEF Exists, Evolves, KeepsActors
        <3> HIDE DEF i
        <3> QED
            BY <3>1, <3>2, <3>4
    <2>5. ApprovalLogged'
        BY <1>5, <2>2, <2>4 DEF ApprovalLogged
    <2> QED
        BY <2>3, <2>5
<1>8. ASSUME NEW h \in Holds, NEW row \in HoldRow,
             hold' = [hold EXCEPT ![h] = row],
             row.status = "pending", row.agent = row.action.actor, Exists(row.agent)
      PROVE  HoldsNamed' /\ ApprovalLogged'
    <2>1. hold'[h] = row /\ \A g \in Holds \ {h} : hold'[g] = hold[g]
        BY <1>0, <1>8
    <2>2. actor'[row.agent] # NoActor
        BY <1>8 DEF HoldRow, Exists, Evolves, KeepsActors
    <2>3. HoldsNamed'
        BY <1>4, <1>8, <2>1, <2>2 DEF HoldsNamed, Exists
    <2>4. ApprovalLogged'
        BY <1>5, <1>8, <2>1 DEF ApprovalLogged
    <2> QED
        BY <2>3, <2>4
<1> QED
    BY <1>6, <1>7, <1>8, HoldStep

\* What a step may do to the envelopes: change the status and the charge of one
\* row, or insert one that is a reduction of its parent.
LEMMA EnvelopeStep ==
    ASSUME TInv, Stories, [Next]_vars
    PROVE  \/ \A e \in Envelopes : envelope[e] = NoEnvelope => envelope'[e] = NoEnvelope
           \/ \E row : \E e \in Envelopes :
                 /\ envelope[e] = NoEnvelope
                 /\ envelope' = [envelope EXCEPT ![e] = row]
                 /\ row.consumed = 0
                 /\ row.parent # None =>
                       /\ row.parent \in Envelopes
                       /\ envelope[row.parent] # NoEnvelope
                       /\ Shrinks(envelope[row.parent], row)
<1>0. envelope \in [Envelopes -> EnvelopeRow \cup {NoEnvelope}]
    BY DEF TInv, TypeOK
<1>1. CASE UNCHANGED envelope
    BY <1>1
<1>2. CASE System \/ UNCHANGED vars
    BY <1>1, <1>2 DEF System, ListShares, CreditShares, CreditFails, Elapse, Crash, Restart, vars, db
<1>3. ASSUME NEW t \in Tasks, ClientStep(t) PROVE UNCHANGED envelope
    BY <1>3 DEF ClientStep, Submit, Abort, SkipTimeout, SkipBudget, db
<1>4. ASSUME NEW t \in Tasks, TaskStep(t), ~UNCHANGED envelope
      PROVE  ExpireEnvelope(t) \/ Consume(t) \/ Finalize(t)
    BY <1>4
    DEF TaskStep, Progress, Check, CheckLineage, Authorize, ListHolds, ExpireHold, Trigger, Respond,
        Resolve, Parse, ReserveEnergy, TakePrepaid, RejectPayload, Account, Lifecycle, db
<1>5. ASSUME NEW t \in Tasks, ExpireEnvelope(t) \/ Consume(t)
      PROVE  \A e \in Envelopes : envelope[e] = NoEnvelope => envelope'[e] = NoEnvelope
    <2> DEFINE f == task[t].envelope
               consumed == envelope[f].consumed + task[t].reserved
    <2>1. f \in Envelopes /\ envelope[f] # NoEnvelope
        BY <1>5 DEF TInv, TypeOK, TasksOK, TaskOK, TaskRow, ExpireEnvelope, Consume
    <2>2. \/ envelope' = envelope
          \/ \E row : envelope' = [envelope EXCEPT ![f] = row]
        <3>1. CASE ExpireEnvelope(t)
            BY <1>0, <2>1, <3>1 DEF ExpireEnvelope
        <3>2. CASE Consume(t)
            <4>1. \/ envelope' = envelope
                  \/ envelope' = [envelope EXCEPT ![f] =
                        [envelope[f] EXCEPT !.consumed = consumed,
                                            !.status = IF task[t].halt THEN "expired" ELSE @]]
                BY <1>0, <2>1, <3>2 DEF Consume
            <4> QED
                BY <4>1
        <3> QED
            BY <1>5, <3>1, <3>2
    <2> QED
        BY <1>0, <2>1, <2>2
<1>6. ASSUME NEW t \in Tasks, Finalize(t), ~UNCHANGED envelope
      PROVE  \E row : \E e \in Envelopes :
                 /\ envelope[e] = NoEnvelope
                 /\ envelope' = [envelope EXCEPT ![e] = row]
                 /\ row.consumed = 0
                 /\ row.parent # None =>
                       /\ row.parent \in Envelopes
                       /\ envelope[row.parent] # NoEnvelope
                       /\ Shrinks(envelope[row.parent], row)
    <2> DEFINE r == task[t]
               row == GrantedEnvelope(r.action, r.parent)
    <2>1. PICK e \in Envelopes : envelope[e] = NoEnvelope /\ envelope' = [envelope EXCEPT ![e] = row]
        BY <1>6 DEF Finalize, db
    <2>2. r \in TaskRow /\ Story(r, actor, envelope, hold)
        BY DEF TInv, TypeOK, Stories
    <2>3. /\ row.consumed = 0 /\ row.parent = r.parent /\ row.budget = r.action.arg.budget
          /\ row.targets = r.action.arg.targets /\ row.actions = r.action.arg.actions
        BY DEF GrantedEnvelope
    <2> HIDE DEF row
    <2>4. row.parent # None =>
                       /\ row.parent \in Envelopes
                       /\ envelope[row.parent] # NoEnvelope
                       /\ Shrinks(envelope[row.parent], row)
        BY <2>2, <2>3 DEF Story, KnownParent, Shrinks, TaskRow
    <2> QED
        BY <2>1, <2>3, <2>4
<1> QED
    <2>1. CASE \E t \in Tasks : ExpireEnvelope(t) \/ Consume(t)
        BY <1>5, <2>1
    <2>2. CASE \E t \in Tasks : Finalize(t)
        BY <1>1, <1>6, <2>2
    <2> QED
        BY <1>1, <1>2, <1>3, <1>4, <2>1, <2>2 DEF Next

\* A row of the envelopes table, seen by its status or by its absence.
LEMMA EnvelopeRows ==
    ASSUME NEW env \in [Envelopes -> EnvelopeRow \cup {NoEnvelope}], NEW e \in Envelopes
    PROVE  /\ env[e].status # "absent" <=> env[e] # NoEnvelope
           /\ env[e] # NoEnvelope => env[e].parent \in Envelopes \cup {None}
<1>1. CASE env[e] = NoEnvelope
    BY <1>1 DEF NoEnvelope
<1>2. CASE env[e] \in EnvelopeRow
    <2>1. env[e].status \in {"active", "expired"} /\ env[e].parent \in Envelopes \cup {None}
        BY <1>2 DEF EnvelopeRow
    <2> QED
        BY <2>1 DEF NoEnvelope
<1> QED
    BY <1>1, <1>2

\* A child keeps to its parent.
LEMMA DelegationNext ==
    ASSUME TInv, TInv', Stories, DelegationShrinks, Evolves, [Next]_vars
    PROVE  DelegationShrinks'
<1>0. /\ envelope \in [Envelopes -> EnvelopeRow \cup {NoEnvelope}]
      /\ envelope' \in [Envelopes -> EnvelopeRow \cup {NoEnvelope}]
    BY DEF TInv, TypeOK
<1>1. \A e \in Envelopes : envelope[e] # NoEnvelope /\ envelope[e].parent # None =>
         /\ envelope[envelope[e].parent] # NoEnvelope
         /\ Shrinks(envelope[envelope[e].parent], envelope[e])
    BY <1>0, EnvelopeRows DEF DelegationShrinks, Shrinks
<1>2. ASSUME NEW e \in Envelopes, envelope[e] # NoEnvelope, envelope'[e].parent # None
      PROVE  /\ envelope'[envelope'[e].parent] # NoEnvelope
             /\ Shrinks(envelope'[envelope'[e].parent], envelope'[e])
    <2>1. envelope'[e].parent = envelope[e].parent /\ envelope[e].parent \in Envelopes
        BY <1>0, <1>2, EnvelopeRows DEF Evolves, KeepsEnvelopes
    <2> QED
        BY <1>1, <1>2, <2>1 DEF Evolves, KeepsEnvelopes, Shrinks
<1>3. ASSUME NEW e \in Envelopes, envelope[e] = NoEnvelope, envelope'[e] # NoEnvelope,
             envelope'[e].parent # None
      PROVE  /\ envelope'[envelope'[e].parent] # NoEnvelope
             /\ Shrinks(envelope'[envelope'[e].parent], envelope'[e])
    <2>1. PICK row : \E f \in Envelopes :
                 /\ envelope' = [envelope EXCEPT ![f] = row]
                 /\ row.parent # None =>
                       /\ row.parent \in Envelopes
                       /\ envelope[row.parent] # NoEnvelope
                       /\ Shrinks(envelope[row.parent], row)
        BY <1>3, EnvelopeStep
    <2>2. envelope'[e] = row
        BY <1>0, <1>3, <2>1
    <2> QED
        BY <1>3, <2>1, <2>2 DEF Evolves, KeepsEnvelopes, Shrinks
<1>4. \A e \in Envelopes :
         /\ envelope'[e].status # "absent" <=> envelope'[e] # NoEnvelope
         /\ envelope'[e] # NoEnvelope => envelope'[e].parent \in Envelopes \cup {None}
    BY <1>0, EnvelopeRows
<1> QED
    BY <1>2, <1>3, <1>4 DEF DelegationShrinks, Shrinks

\* One element more.
LEMMA OneMore ==
    ASSUME NEW S, IsFiniteSet(S), NEW x, NEW T, T \subseteq S \cup {x}
    PROVE  IsFiniteSet(T)
<1>1. IsFiniteSet(S \cup {x})
    BY FS_AddElement
<1> QED
    BY <1>1, FS_Subset

\* A step adds at most one row to each table and starts at most one call.
LEMMA FiniteNext ==
    ASSUME TInv, Stories, HoldsNamed, FiniteRows, [Next]_vars
    PROVE  FiniteRows'
<1> DEFINE H == {h \in Holds : hold[h] # NoHold}
           E == {e \in Envelopes : envelope[e] # NoEnvelope}
           T == {t \in Tasks : task[t].action # None}
           H2 == {h \in Holds : hold'[h] # NoHold}
           E2 == {e \in Envelopes : envelope'[e] # NoEnvelope}
           T2 == {t \in Tasks : task'[t].action # None}
<1>0. IsFiniteSet(H) /\ IsFiniteSet(E) /\ IsFiniteSet(T)
    BY DEF FiniteRows
<1>1. \E x : H2 \subseteq H \cup {x}
    <2>0. hold \in [Holds -> HoldRow \cup {NoHold}]
        BY DEF TInv, TypeOK
    <2>1. CASE UNCHANGED hold
        BY <2>1
    <2>2. ASSUME NEW h \in Holds, NEW f, hold' = [hold EXCEPT ![h] = f] PROVE H2 \subseteq H \cup {h}
        BY <2>0, <2>2
    <2>3. ASSUME NEW h \in Holds, NEW status, hold' = [hold EXCEPT ![h].status = status]
          PROVE  H2 \subseteq H \cup {h}
        BY <2>0, <2>3
    <2> HIDE DEF H, H2
    <2> QED
        BY <2>1, <2>2, <2>3, HoldStep
<1>2. \E x : E2 \subseteq E \cup {x}
    <2>0. envelope \in [Envelopes -> EnvelopeRow \cup {NoEnvelope}]
        BY DEF TInv, TypeOK
    <2>1. CASE \A e \in Envelopes : envelope[e] = NoEnvelope => envelope'[e] = NoEnvelope
        BY <2>1
    <2>2. ASSUME NEW e \in Envelopes, NEW row, envelope' = [envelope EXCEPT ![e] = row]
          PROVE  E2 \subseteq E \cup {e}
        BY <2>0, <2>2
    <2> HIDE DEF E, E2
    <2> QED
        BY <2>1, <2>2, EnvelopeStep
<1>3. \E x : T2 \subseteq T \cup {x}
    <2>0. task \in [Tasks -> TaskRow]
        BY DEF TInv, TypeOK
    <2>1. CASE UNCHANGED task
        BY <2>1
    <2>2. CASE Crash
        <3>1. \A t \in Tasks : task'[t] = task[t] \/ task'[t].action = None
            BY <2>2 DEF Crash, Returned, NewTask
        <3> QED
            BY <3>1
    <2>3. ASSUME NEW t \in Tasks, TaskStep(t) \/ ClientStep(t)
          PROVE  T2 \subseteq T \cup {t}
        <3>1. PICK row : Update(t, row)
            BY <2>3, TaskStory DEF Retold
        <3> QED
            BY <2>0, <3>1 DEF Update
    <2> HIDE DEF T, T2
    <2> QED
        BY <2>1, <2>2, <2>3
        DEF Next, System, ListShares, CreditShares, CreditFails, Elapse, Restart, vars
<1>4. IsFiniteSet(H2) /\ IsFiniteSet(E2) /\ IsFiniteSet(T2)
    <2> HIDE DEF H, E, T, H2, E2, T2
    <2> QED
        BY <1>0, <1>1, <1>2, <1>3, OneMore
<1> QED
    BY <1>4 DEF FiniteRows

\* No hold, no event, no call, and no delegated envelope at the start.
LEMMA InitPInv == Init => PInv
<1> SUFFICES ASSUME Init PROVE PInv
    OBVIOUS
<1>1. Stories
    <2>1. Story(NewTask, actor, envelope, hold)
        BY DEF NewTask, Story, KnownActor, CarriesHold, KnownEnvelopes, Unheld, KnownParent
    <2> QED
        BY <2>1 DEF Init, Stories
<1>2. HoldsNamed /\ EventsNamed /\ EventsCleared /\ ApprovalLogged
    BY DEF Init, HoldsNamed, EventsNamed, EventsCleared, ApprovalLogged, NoHold
<1>3. DelegationShrinks
    <2>1. envelope \in [Envelopes -> EnvelopeRow \cup {NoEnvelope}]
        BY TablesAssumption DEF Init
    <2>2. \A e \in Envelopes : envelope[e] # NoEnvelope => envelope[e].parent = None
        BY TablesAssumption DEF Init
    <2> QED
        BY <2>1, <2>2, EnvelopeRows DEF DelegationShrinks
<1>4. FiniteRows
    <2>1. {h \in Holds : hold[h] # NoHold} = {}
        BY DEF Init
    <2>2. {t \in Tasks : task[t].action # None} = {}
        BY DEF Init, NewTask
    <2>3. IsFiniteSet({e \in Envelopes : envelope[e] # NoEnvelope})
        BY TablesAssumption DEF Init
    <2> QED
        BY <2>1, <2>2, <2>3, FS_EmptySet DEF FiniteRows
<1> QED
    BY <1>1, <1>2, <1>3, <1>4 DEF PInv

\* PInv is inductive relative to TInv.
LEMMA NextPInv == TInv /\ TInv' /\ PInv /\ [Next]_vars => PInv'
<1> SUFFICES ASSUME TInv, TInv', PInv, [Next]_vars PROVE PInv'
    OBVIOUS
<1>1. Evolves
    BY Evolution
<1> QED
    BY <1>1, StoriesNext, HoldsNext, EventsNext, DelegationNext, FiniteNext DEF PInv

\* PInv holds of every behaviour of the kernel.
LEMMA PipelineInvariant == Spec => [](TInv /\ PInv)
<1>1. TInv /\ PInv /\ [Next]_vars => (TInv /\ PInv)'
    BY NextTInv, NextPInv
<1> QED
    BY <1>1, InitTInv, InitPInv, PTL DEF Spec

\* A delegated envelope stays within its parent: the parent is read when the
\* request is parsed and the child inserted in a later transaction, between
\* which the parent may be charged, expired or crashed away from; what it
\* grants never changes.
THEOREM DelegationNeverWidens == Spec => []DelegationShrinks
<1>1. PInv => DelegationShrinks
    BY DEF PInv
<1> QED
    BY <1>1, PipelineInvariant, PTL
=============================================================================
