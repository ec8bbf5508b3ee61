----------------------------- MODULE HoldProofs -----------------------------
(***************************************************************************)
(* The history of a hold: its events come in order and once each, and they *)
(* agree with the hold_requests table, however humans, timeouts, the       *)
(* re-execution of approved actions and crashes interleave.  So a held     *)
(* action waits for its approval, and the kernel implements HoldLifecycle. *)
(***************************************************************************)
EXTENDS AdmissionProofs

-----------------------------------------------------------------------------
(***************************************************************************)
(* The history of a hold.                                                  *)
(***************************************************************************)

\* The task has committed its event; what follows only accounts for it.
Post(r) == r.pc \in {"account", "consume", "lifecycle"}

\* An event about a hold is never older than its row.
HoldsKnown == \A i \in DOMAIN log : log[i].hold # None => hold[log[i].hold] # NoHold

\* A task re-executes a hold only after its approval, and no other task does.
ViaApproved == \A t \in Tasks : task[t].via # None => hold[task[t].via].status = "approved"

ViaOnce ==
    \A s, t \in Tasks : s # t /\ task[s].via # None => task[s].via # task[t].via

\* As long as that task has not committed, the held action is not in the log.
NotYetRun ==
    \A t \in Tasks : \A i \in DOMAIN log :
        task[t].via # None /\ log[i].hold = task[t].via /\ Stage(log[i]) = 3 => Post(task[t])

\* HoldEventsInOrder alone is not inductive: a task that re-executes a hold
\* could append a second execution, and a pending row could have its decision
\* in the log already.
HInv ==
    /\ HoldsKnown
    /\ HoldEventsInOrder
    /\ HoldsMatchLog
    /\ ViaApproved
    /\ ViaOnce
    /\ NotYetRun

-----------------------------------------------------------------------------
\* Every event is a request, a decision or an execution of a hold.
LEMMA StageRange == \A event : Stage(event) \in {1, 2, 3}
BY DEF Stage

\* A step of a task keeps or drops the hold it re-executes and does not take it
\* back to before its commit.
Steady(r, row) == row.via = None \/ (row.via = r.via /\ (Post(r) => Post(row)))

\* A call that returns drops the hold it re-executed.
LEMMA ReturnedSteady ==
    ASSUME NEW r
    PROVE  Steady(r, Returned)
<1>1. Returned.via = None
    BY DEF Returned, NewTask
<1> QED
    BY <1>1 DEF Steady

\* A change of program counter is steady when it does not go back before the commit.
LEMMA AtSteady ==
    ASSUME NEW r \in TaskRow, NEW pc, Post(r) => pc \in {"account", "consume", "lifecycle", "done"}
    PROVE  Steady(r, At(r, pc))
<1>1. CASE pc = "done"
    BY <1>1, ReturnedSteady DEF At
<1>2. CASE pc # "done"
    <2>1. At(r, pc) = [r EXCEPT !.pc = pc]
        BY <1>2 DEF At
    <2>2. [r EXCEPT !.pc = pc].via = r.via /\ [r EXCEPT !.pc = pc].pc = pc
        BY DEF TaskRow
    <2> QED
        BY <1>2, <2>1, <2>2 DEF Steady, Post
<1> QED
    BY <1>1, <1>2

\* Steps that leave the holds and the log alone.
LEMMA SteadyStep ==
    ASSUME TInv, HInv, NEW t \in Tasks, NEW row, Update(t, row), Steady(task[t], row),
           UNCHANGED <<hold, log>>
    PROVE  HInv'
<1>1. task' = [task EXCEPT ![t] = row] /\ task \in [Tasks -> TaskRow]
    BY DEF Update, TInv, TypeOK
<1>2. HoldsKnown' /\ HoldEventsInOrder' /\ HoldsMatchLog'
    BY DEF HInv, HoldsKnown, HoldEventsInOrder, HoldsMatchLog
<1>3. ViaApproved'
    BY <1>1 DEF HInv, ViaApproved, Steady
<1>4. ViaOnce'
    BY <1>1 DEF HInv, ViaOnce, Steady
<1>5. NotYetRun'
    <2> SUFFICES ASSUME NEW s \in Tasks, NEW i \in DOMAIN log,
                        task'[s].via # None, log[i].hold = task'[s].via, Stage(log[i]) = 3
                 PROVE  Post(task'[s])
        BY DEF NotYetRun
    <2>1. CASE s # t
        BY <1>1, <2>1 DEF HInv, NotYetRun
    <2>2. CASE s = t
        <3>1. task'[s] = row
            BY <1>1, <2>2
        <3>2. Post(task[t])
            BY <2>2, <3>1 DEF HInv, NotYetRun, Steady
        <3> QED
            BY <3>1, <3>2 DEF Steady
    <2> QED
        BY <2>1, <2>2
<1> QED
    BY <1>2, <1>3, <1>4, <1>5 DEF HInv

\* The steps that neither append to the log nor touch a hold keep HInv: the checks, the
\* reservation, the budget, the lifecycle operation, and a failed call.
LEMMA SteadyActions ==
    ASSUME TInv, HInv, NEW t \in Tasks,
           \/ Submit(t) \/ Abort(t) \/ SkipTimeout(t) \/ SkipBudget(t) \/ Check(t) \/ CheckLineage(t)
           \/ Authorize(t) \/ ExpireEnvelope(t)
           \/ ListHolds(t) \/ Respond(t) \/ Parse(t) \/ ReserveEnergy(t) \/ TakePrepaid(t)
           \/ RejectPayload(t) \/ Account(t) \/ Consume(t) \/ Lifecycle(t)
    PROVE  HInv'
<1>0. task[t] \in TaskRow
    BY DEF TInv, TypeOK
<1>1. UNCHANGED <<hold, log>>
    BY DEF Submit, Abort, SkipTimeout, SkipBudget, Check, CheckLineage, Authorize, ExpireEnvelope,
           ListHolds, Respond, Parse, ReserveEnergy, TakePrepaid, RejectPayload, Account, Consume,
           Lifecycle, db
<1>2. CASE Return(t)
    BY <1>1, <1>2, ReturnedSteady, SteadyStep DEF Return
<1>3. ASSUME NEW pc, Goto(t, pc), ~Post(task[t]) \/ pc \in {"lifecycle", "done"}
      PROVE  HInv'
    BY <1>0, <1>1, <1>3, AtSteady, SteadyStep DEF Goto
<1>4. CASE Submit(t)
    <2>1. PICK a \in Requests : Update(t, [task[t] EXCEPT !.pc = "check", !.action = a])
        BY <1>4 DEF Submit
    <2>2. Steady(task[t], [task[t] EXCEPT !.pc = "check", !.action = a])
        BY <1>0, <1>4 DEF Steady, TaskRow, Submit, Post
    <2> QED
        BY <1>1, <2>1, <2>2, SteadyStep
<1>5. CASE Abort(t) \/ RejectPayload(t) \/ Lifecycle(t)
    BY <1>2, <1>5 DEF Abort, RejectPayload, Lifecycle
<1>6. CASE Check(t) \/ CheckLineage(t)
    BY <1>2, <1>3, <1>6 DEF Check, CheckLineage, Post
<1>7. CASE ExpireEnvelope(t)
    BY <1>2, <1>3, <1>7 DEF ExpireEnvelope, Post
<1>8. CASE Respond(t) \/ SkipTimeout(t)
    BY <1>2, <1>3, <1>8 DEF Respond, SkipTimeout, Post
<1>9. CASE Authorize(t)
    <2>1. ~Post(task[t])
        BY <1>9 DEF Authorize, Post
    <2>2. ASSUME NEW e, NEW pc, Update(t, [task[t] EXCEPT !.pc = pc, !.envelope = e])
          PROVE  HInv'
        <3>1. Steady(task[t], [task[t] EXCEPT !.pc = pc, !.envelope = e])
            BY <1>0, <2>1 DEF Steady, TaskRow
        <3> QED
            BY <1>1, <2>2, <3>1, SteadyStep
    <2> QED
        BY <1>2, <1>3, <1>9, <2>1, <2>2 DEF Authorize
<1>10. CASE ListHolds(t)
    <2>1. PICK todo, pc : Update(t, At([task[t] EXCEPT !.todo = todo], pc))
        BY <1>10 DEF ListHolds
    <2>2. Steady(task[t], At([task[t] EXCEPT !.todo = todo], pc))
        BY <1>0, <1>10 DEF Steady, At, Returned, NewTask, TaskRow, Post, ListHolds
    <2> QED
        BY <1>1, <2>1, <2>2, SteadyStep
<1>11. CASE Parse(t)
    <2>1. ~Post(task[t])
        BY <1>11 DEF Parse, Post
    <2>2. ASSUME NEW p, NEW pc, Update(t, [task[t] EXCEPT !.pc = pc, !.parent = p])
          PROVE  HInv'
        <3>1. Steady(task[t], [task[t] EXCEPT !.pc = pc, !.parent = p])
            BY <1>0, <2>1 DEF Steady, TaskRow
        <3> QED
            BY <1>1, <2>2, <3>1, SteadyStep
    <2> QED
        BY <1>2, <1>3, <1>11, <2>1, <2>2 DEF Parse
<1>12. CASE ReserveEnergy(t) \/ TakePrepaid(t)
    <2>1. ASSUME NEW c, Update(t, [task[t] EXCEPT !.pc = "finalize", !.reserved = c])
          PROVE  HInv'
        <3>1. Steady(task[t], [task[t] EXCEPT !.pc = "finalize", !.reserved = c])
            BY <1>0, <1>12 DEF Steady, TaskRow, ReserveEnergy, TakePrepaid, Post
        <3> QED
            BY <1>1, <2>1, <3>1, SteadyStep
    <2> QED
        BY <1>2, <1>12, <2>1 DEF ReserveEnergy, TakePrepaid
<1>13. CASE Account(t)
    <2>1. ASSUME NEW e, NEW halt,
                 Update(t, [task[t] EXCEPT !.pc = "consume", !.envelope = e, !.halt = halt])
          PROVE  HInv'
        <3>1. Steady(task[t], [task[t] EXCEPT !.pc = "consume", !.envelope = e, !.halt = halt])
            BY <1>0 DEF Steady, TaskRow, Post
        <3> QED
            BY <1>1, <2>1, <3>1, SteadyStep
    <2>2. AfterBudget(task[t].action) \in {"lifecycle", "done"}
        BY DEF AfterBudget
    <2> QED
        BY <1>3, <1>13, <2>1, <2>2 DEF Account
<1>14. CASE Consume(t) \/ SkipBudget(t)
    <2>1. AfterBudget(task[t].action) \in {"lifecycle", "done"}
        BY DEF AfterBudget
    <2> QED
        BY <1>3, <1>14, <2>1 DEF Consume, SkipBudget
<1> QED
    BY <1>4, <1>5, <1>6, <1>7, <1>8, <1>9, <1>10, <1>11, <1>12, <1>13, <1>14

-----------------------------------------------------------------------------
\* Steps that write the history.

\* The log after an append: the old events, then the new one.
LEMMA Appended ==
    ASSUME log \in Seq(EventRow), NEW event, log' = Append(log, event)
    PROVE  /\ DOMAIN log' = DOMAIN log \cup {Len(log) + 1}
           /\ \A i \in DOMAIN log : i \in Nat /\ i < Len(log) + 1 /\ log'[i] = log[i]
           /\ log'[Len(log) + 1] = event
           /\ Len(log) + 1 \notin DOMAIN log
OBVIOUS

\* Every entry of a well-typed log is an event row with a well-typed hold.
LEMMA LogRows ==
    ASSUME log \in Seq(EventRow), NEW i \in DOMAIN log
    PROVE  log[i] \in EventRow /\ log[i].hold \in Holds \cup {None}
<1>1. log[i] \in EventRow
    OBVIOUS
<1> QED
    BY <1>1 DEF EventRow

\* What an event took from the ledger is a natural number, its settled_energy
\* when that is one.
LEMMA TakenType ==
    ASSUME NEW event \in EventRow
    PROVE  /\ Taken(event) \in Nat
           /\ event.settled \in Nat => Taken(event) = event.settled
<1>1. event.settled \in Amount
    BY DEF EventRow
<1> QED
    BY <1>1 DEF Amount, Taken

\* What a set of events has taken is a number, and a set that may gain the
\* event that is appended has taken that much more.
LEMMA SettledGrows ==
    ASSUME log \in Seq(EventRow), NEW event \in EventRow, log' = Append(log, event),
           NEW I \in SUBSET DOMAIN log, NEW J \in SUBSET DOMAIN log', J \ {Len(log) + 1} = I
    PROVE  /\ SettledBy(I) \in Int
           /\ SumFunction([i \in J |-> Taken(log'[i])]) =
                 SettledBy(I) + IF Len(log) + 1 \in J THEN Taken(event) ELSE 0
<1> DEFINE n == Len(log) + 1
           f == [i \in I |-> Taken(log[i])]
           g == [i \in J |-> Taken(log'[i])]
<1>0. n \in Nat /\ DOMAIN log = 1..Len(log) /\ DOMAIN log' = 1..n
    OBVIOUS
<1>1. /\ \A i \in DOMAIN log : log'[i] = log[i] /\ i # n
      /\ log'[n] = event
    BY Appended
<1>2. IsFiniteSet(I) /\ IsFiniteSet(J)
    <2>1. IsFiniteSet(DOMAIN log) /\ IsFiniteSet(DOMAIN log')
        BY <1>0, FS_Interval
    <2> QED
        BY <2>1, FS_Subset
<1>3. \A i \in I : Taken(log[i]) \in Int
    BY LogRows, TakenType
<1>4. Taken(event) \in Int
    BY TakenType
<1>5. \A i \in J : Taken(log'[i]) \in Int
    BY <1>1, <1>3, <1>4
<1>6. /\ DOMAIN f = I /\ DOMAIN g = J
      /\ \A i \in I : f[i] = Taken(log[i])
      /\ \A i \in J : g[i] = Taken(log'[i])
    OBVIOUS
<1> HIDE DEF f, g
<1>7. Summable(f) /\ Summable(g)
    BY <1>2, <1>3, <1>5, <1>6 DEF Summable
<1>8. n \notin I /\ I \ {n} = J \ {n} /\ \A i \in I \ {n} : g[i] = f[i]
    BY <1>1, <1>6
<1>9. Term(f, n) = 0
    BY <1>6, <1>8 DEF Term
<1>10. Term(g, n) = IF n \in J THEN Taken(event) ELSE 0
    BY <1>1, <1>6 DEF Term
<1>11. SumFunction(f) \in Int /\ SumFunction(g) = SumFunction(f) - Term(f, n) + Term(g, n)
    BY <1>6, <1>7, <1>8, SumStep
<1>12. SettledBy(I) = SumFunction(f)
    BY DEF SettledBy, f
<1>13. SumFunction(g) = SettledBy(I) + IF n \in J THEN Taken(event) ELSE 0
    BY <1>4, <1>9, <1>10, <1>11, <1>12
<1> QED
    BY <1>11, <1>12, <1>13 DEF g

\* An event that comes after the events of its hold keeps them in order.
LEMMA OrderGrows ==
    ASSUME log \in Seq(EventRow), HoldEventsInOrder, NEW event, log' = Append(log, event),
           \A i \in DOMAIN log :
              event.hold # None /\ log[i].hold = event.hold => Stage(log[i]) < Stage(event)
    PROVE  HoldEventsInOrder'
<1>1. /\ DOMAIN log' = DOMAIN log \cup {Len(log) + 1}
      /\ \A i \in DOMAIN log : i \in Nat /\ i < Len(log) + 1 /\ log'[i] = log[i]
      /\ log'[Len(log) + 1] = event
    BY Appended
<1> SUFFICES ASSUME NEW i \in DOMAIN log', NEW j \in DOMAIN log',
                    i < j, log'[i].hold = log'[j].hold, log'[i].hold # None
             PROVE  Stage(log'[i]) < Stage(log'[j])
    BY DEF HoldEventsInOrder
<1>2. i \in DOMAIN log
    BY <1>1
<1>3. CASE j \in DOMAIN log
    BY <1>1, <1>2, <1>3 DEF HoldEventsInOrder
<1>4. CASE j = Len(log) + 1
    BY <1>1, <1>2, <1>4
<1> QED
    BY <1>1, <1>3, <1>4

\* A pending hold has only its hold_request in the log.
LEMMA PendingHistory ==
    ASSUME HInv, NEW h \in Holds, hold[h].status = "pending", NEW i \in DOMAIN log, log[i].hold = h
    PROVE  Stage(log[i]) = 1
<1>1. h # None
    BY NoneAssumption
<1>2. Stage(log[i]) # 2
    BY DEF HInv, HoldsMatchLog
<1>3. Stage(log[i]) # 3
    BY <1>1 DEF HInv, HoldsMatchLog
<1> QED
    BY <1>2, <1>3, StageRange

\* A hold is decided, by a human or by its timeout, and the decision logged; the
\* task goes on with the held action only if it is an approval.
LEMMA DecisionStep ==
    ASSUME TInv, HInv, NEW t \in Tasks, NEW h \in Holds, hold[h].status = "pending",
           NEW status \in {"approved", "rejected", "timed_out"},
           hold' = [hold EXCEPT ![h].status = status],
           NEW event, event.hold = h, Stage(event) = 2, log' = Append(log, event),
           NEW row, Update(t, row),
           \/ Steady(task[t], row)
           \/ row.via = h /\ status = "approved"
    PROVE  HInv'
<1>0. /\ task \in [Tasks -> TaskRow] /\ task' = [task EXCEPT ![t] = row]
      /\ hold \in [Holds -> HoldRow \cup {NoHold}]
      /\ log \in Seq(EventRow)
      /\ h # None
    BY NoneAssumption DEF TInv, TypeOK, Update
<1>1. /\ DOMAIN log' = DOMAIN log \cup {Len(log) + 1}
      /\ \A i \in DOMAIN log : i \in Nat /\ i < Len(log) + 1 /\ log'[i] = log[i]
      /\ log'[Len(log) + 1] = event
    BY <1>0, Appended
<1>2. /\ hold'[h].status = status
      /\ \A g \in Holds \ {h} : hold'[g] = hold[g]
    <2>1. hold[h] \in HoldRow
        BY <1>0 DEF NoHold
    <2> QED
        BY <1>0, <2>1 DEF HoldRow
<1>3. HoldEventsInOrder'
    <2>1. \A i \in DOMAIN log : log[i].hold = h => Stage(log[i]) < Stage(event)
        BY PendingHistory
    <2> QED
        BY <1>0, <2>1, OrderGrows DEF HInv
<1>4. \A i \in DOMAIN log : log[i].hold \in Holds \cup {None}
    BY <1>0, LogRows
<1>5. HoldsKnown'
    BY <1>0, <1>1, <1>2, <1>4 DEF HInv, HoldsKnown, NoHold
<1>6. HoldsMatchLog'
    <2>1. ASSUME NEW g \in Holds
          PROVE  hold'[g].status \in {"approved", "rejected", "timed_out"}
                    <=> \E i \in DOMAIN log' : log'[i].hold = g /\ Stage(log'[i]) = 2
        <3>1. CASE g = h
            BY <1>1, <1>2, <3>1
        <3>2. CASE g # h
            BY <1>1, <1>2, <3>2 DEF HInv, HoldsMatchLog
        <3> QED
            BY <3>1, <3>2
    <2>2. ASSUME NEW i \in DOMAIN log', log'[i].hold # None, Stage(log'[i]) = 3
          PROVE  hold'[log'[i].hold].status = "approved"
        <3>1. i \in DOMAIN log
            BY <1>1, <2>2
        <3>2. hold[log[i].hold].status = "approved"
            BY <1>1, <2>2, <3>1 DEF HInv, HoldsMatchLog
        <3> QED
            BY <1>1, <1>2, <1>4, <2>2, <3>1, <3>2
    <2> QED
        BY <2>1, <2>2 DEF HoldsMatchLog
<1>7. \A s \in Tasks : task[s].via # h
    BY <1>0 DEF HInv, ViaApproved
<1>8. \A s \in Tasks : task[s].via \in Holds \cup {None}
    BY <1>0 DEF TaskRow
<1>9. ViaApproved'
    BY <1>0, <1>2, <1>7, <1>8 DEF HInv, ViaApproved, Steady
<1>10. ViaOnce'
    BY <1>0, <1>7 DEF HInv, ViaOnce, Steady
<1>11. NotYetRun'
    <2> SUFFICES ASSUME NEW s \in Tasks, NEW i \in DOMAIN log',
                        task'[s].via # None, log'[i].hold = task'[s].via, Stage(log'[i]) = 3
                 PROVE  Post(task'[s])
        BY DEF NotYetRun
    <2>1. i \in DOMAIN log /\ log'[i] = log[i]
        BY <1>1
    <2>2. CASE s # t
        BY <1>0, <2>1, <2>2 DEF HInv, NotYetRun
    <2>3. CASE s = t /\ Steady(task[t], row)
        <3>1. task'[s] = row
            BY <1>0, <2>3
        <3>2. Post(task[t])
            BY <2>1, <2>3, <3>1 DEF HInv, NotYetRun, Steady
        <3> QED
            BY <2>3, <3>1, <3>2 DEF Steady
    <2>4. CASE s = t /\ row.via = h
        <3>1. task'[s] = row
            BY <1>0, <2>4
        <3> QED
            BY <2>1, <2>4, <3>1, PendingHistory
    <2> QED
        BY <2>2, <2>3, <2>4
<1> QED
    BY <1>3, <1>5, <1>6, <1>9, <1>10, <1>11 DEF HInv

\* A timeout adds the one decision of a hold that was still pending.
LEMMA ExpireHoldHistory ==
    ASSUME TInv, HInv, NEW t \in Tasks, ExpireHold(t)
    PROVE  HInv'
<1>0. task[t] \in TaskRow /\ ~Post(task[t])
    BY DEF TInv, TypeOK, ExpireHold, Post
<1>1. CASE Return(t) /\ UNCHANGED db
    BY <1>1, ReturnedSteady, SteadyStep DEF Return, db
<1>2. ASSUME NEW h \in task[t].todo, NEW event, NEW todo, NEW pc,
             StillPending(hold[h]),
             hold' = [hold EXCEPT ![h].status = "timed_out"],
             event.hold = h, Stage(event) = 2, log' = Append(log, event),
             Update(t, At([task[t] EXCEPT !.todo = todo], pc))
      PROVE  HInv'
    <2>1. h \in Holds
        BY <1>0 DEF TaskRow
    <2>2. Steady(task[t], At([task[t] EXCEPT !.todo = todo], pc))
        BY <1>0 DEF Steady, At, Returned, NewTask, TaskRow
    <2> QED
        BY <1>2, <2>1, <2>2, DecisionStep DEF StillPending
<1>3. \A h, a, b, c, d : /\ HoldEvent("hold_timeout", a, b, h, c, d).hold = h
                         /\ Stage(HoldEvent("hold_timeout", a, b, h, c, d)) = 2
    BY DEF HoldEvent, Stage
<1>4. CASE ~(Return(t) /\ UNCHANGED db)
    <2> DEFINE cost(h) == CommitmentCost(hold[h].reserved)
               todo(h) == task[t].todo \ {h}
               pc(h) == IF todo(h) # {} THEN task[t].pc
                        ELSE IF task[t].pc = "expire_late" THEN "done"
                        ELSE AfterAuthorize(t, task[t].envelope)
               event(h) == HoldEvent("hold_timeout", hold[h].agent, hold[h].agent, h,
                                     hold[h].reserved, cost(h))
    <2>1. PICK h \in task[t].todo :
             /\ StillPending(hold[h])
             /\ hold' = [hold EXCEPT ![h].status = "timed_out"]
             /\ log' = Append(log, event(h))
             /\ Update(t, At([task[t] EXCEPT !.todo = todo(h)], pc(h)))
        BY <1>4 DEF ExpireHold
    <2>2. event(h).hold = h /\ Stage(event(h)) = 2
        BY <1>3
    <2> HIDE DEF event, todo, pc
    <2> QED
        BY <1>2, <2>1, <2>2
<1> QED
    BY <1>1, <1>4

\* A hold_response adds the one decision of a pending hold; on approve only this task
\* re-executes it.
LEMMA ResolveHistory ==
    ASSUME TInv, HInv, NEW t \in Tasks, Resolve(t)
    PROVE  HInv'
<1> DEFINE a == task[t].action
           h == a.arg.hold
           r == hold[h]
           reject == a.arg.decision = "reject"
           cost == IF reject THEN CommitmentCost(r.reserved) ELSE 0
           event == HoldEvent("hold_response", a.actor, r.agent, h, r.reserved, cost)
           again == [NewTask EXCEPT !.pc = "check", !.action = r.action,
                                    !.via = h, !.reserved = r.reserved]
<1>1. a \in Requests /\ IsHoldResponse(a)
    BY DEF TInv, TypeOK, TasksOK, Resolve, TaskOK, TaskRow
<1>2. h \in Holds /\ a.arg.decision \in {"approve", "reject"}
    BY <1>1, RequestsAssumption DEF RequestOK
<1>3. CASE Return(t) /\ UNCHANGED db
    BY <1>3, ReturnedSteady, SteadyStep DEF Return, db
<1>4. ASSUME StillPending(r),
             hold' = [hold EXCEPT ![h].status = Decided(a.arg.decision)],
             log' = Append(log, event),
             IF reject THEN Return(t) ELSE Update(t, again)
      PROVE  HInv'
    <2>1. event.hold = h /\ Stage(event) = 2
        BY DEF HoldEvent, Stage
    <2>2. Decided(a.arg.decision) \in {"approved", "rejected", "timed_out"}
        BY DEF Decided
    <2>3. PICK row : /\ Update(t, row)
                     /\ \/ Steady(task[t], row)
                        \/ row.via = h /\ Decided(a.arg.decision) = "approved"
        <3>1. CASE reject
            BY <1>4, <3>1, ReturnedSteady DEF Return
        <3>2. CASE ~reject
            <4>1. again.via = h
                BY DEF NewTask
            <4>2. Decided(a.arg.decision) = "approved"
                BY <1>2, <3>2 DEF Decided
            <4> QED
                BY <1>4, <3>2, <4>1, <4>2
        <3> QED
            BY <3>1, <3>2
    <2> HIDE DEF event
    <2> QED
        BY <1>2, <1>4, <2>1, <2>2, <2>3, DecisionStep DEF StillPending
<1> QED
    BY <1>3, <1>4 DEF Resolve

\* A triggered hold takes a fresh id, so its hold_request is its first event.
LEMMA TriggerHistory ==
    ASSUME TInv, HInv, NEW t \in Tasks, Trigger(t)
    PROVE  HInv'
<1> DEFINE a == task[t].action
           cost == QuoteCost(a)
<1>0. /\ task \in [Tasks -> TaskRow] /\ task' = [task EXCEPT ![t] = Returned]
      /\ hold \in [Holds -> HoldRow \cup {NoHold}]
      /\ log \in Seq(EventRow)
    BY DEF TInv, TypeOK, Update, Trigger, Return
<1>1. CASE UNCHANGED db
    BY <1>1, ReturnedSteady, SteadyStep DEF Trigger, Return, db
<1>2. ASSUME NEW h \in Holds, hold[h] = NoHold, NEW row, NEW event,
             row.status = "pending", hold' = [hold EXCEPT ![h] = row],
             event.hold = h, Stage(event) = 1, log' = Append(log, event)
      PROVE  HInv'
    <2>1. /\ DOMAIN log' = DOMAIN log \cup {Len(log) + 1}
          /\ \A i \in DOMAIN log : i \in Nat /\ i < Len(log) + 1 /\ log'[i] = log[i]
          /\ log'[Len(log) + 1] = event
        BY <1>0, <1>2, Appended
    <2>2. h # None /\ \A i \in DOMAIN log : log[i].hold # h
        BY <1>2, NoneAssumption DEF HInv, HoldsKnown
    <2>3. \A i \in DOMAIN log : log[i].hold \in Holds \cup {None}
        BY <1>0, LogRows
    <2>4. hold'[h].status = "pending" /\ hold'[h] # NoHold /\ \A g \in Holds \ {h} : hold'[g] = hold[g]
        BY <1>0, <1>2 DEF NoHold
    <2>5. HoldEventsInOrder'
        BY <1>0, <1>2, <2>2, OrderGrows DEF HInv
    <2>6. HoldsKnown'
        BY <1>2, <2>1, <2>3, <2>4 DEF HInv, HoldsKnown
    <2>7. HoldsMatchLog'
        <3>1. ASSUME NEW g \in Holds
              PROVE  hold'[g].status \in {"approved", "rejected", "timed_out"}
                        <=> \E i \in DOMAIN log' : log'[i].hold = g /\ Stage(log'[i]) = 2
            <4>1. CASE g = h
                BY <1>2, <2>1, <2>2, <2>4, <4>1
            <4>2. CASE g # h
                BY <1>2, <2>1, <2>4, <4>2 DEF HInv, HoldsMatchLog
            <4> QED
                BY <4>1, <4>2
        <3>2. ASSUME NEW i \in DOMAIN log', log'[i].hold # None, Stage(log'[i]) = 3
              PROVE  hold'[log'[i].hold].status = "approved"
            <4>1. i \in DOMAIN log /\ log'[i] = log[i]
                BY <1>2, <2>1, <3>2
            <4> QED
                BY <2>2, <2>3, <2>4, <3>2, <4>1 DEF HInv, HoldsMatchLog
        <3> QED
            BY <3>1, <3>2 DEF HoldsMatchLog
    <2>8. Returned.via = None
        BY DEF Returned, NewTask
    <2>9. \A s \in Tasks : task[s].via \in Holds \cup {None}
        BY <1>0 DEF TaskRow
    <2>10. \A s \in Tasks : task[s].via # h
        BY <1>2, <2>2 DEF HInv, ViaApproved, NoHold
    <2>11. ViaApproved'
        BY <1>0, <2>4, <2>8, <2>9, <2>10 DEF HInv, ViaApproved
    <2>12. ViaOnce'
        BY <1>0, <2>8 DEF HInv, ViaOnce
    <2>13. NotYetRun'
        BY <1>0, <1>2, <2>1, <2>8 DEF HInv, NotYetRun
    <2> QED
        BY <2>5, <2>6, <2>7, <2>11, <2>12, <2>13 DEF HInv
<1>3. \A h, b, c, d : /\ HoldEvent("hold_request", b, b, h, c, d).hold = h
                      /\ Stage(HoldEvent("hold_request", b, b, h, c, d)) = 1
    BY DEF HoldEvent, Stage
<1>4. CASE ~UNCHANGED db
    <2> DEFINE row == [status |-> "pending", envelope |-> task[t].envelope, agent |-> a.actor,
                       action |-> a, reserved |-> cost, triggeredAt |-> clock]
    <2>1. PICK h \in Holds :
             /\ hold[h] = NoHold
             /\ hold' = [hold EXCEPT ![h] = row]
             /\ log' = Append(log, HoldEvent("hold_request", a.actor, a.actor, h, cost, 0))
        BY <1>4, Zenon DEF Trigger
    <2> DEFINE event == HoldEvent("hold_request", a.actor, a.actor, h, cost, 0)
    <2>2. event.hold = h /\ Stage(event) = 1 /\ log' = Append(log, event)
        BY <1>3, <2>1
    <2>3. row.status = "pending"
        OBVIOUS
    <2> HIDE DEF event, row
    <2> QED
        BY <1>2, <2>1, <2>2, <2>3
<1> QED
    BY <1>1, <1>4

\* A commit adds the one execution of the approved hold it carries, or an event of no hold.
LEMMA FinalizeHistory ==
    ASSUME TInv, HInv, NEW t \in Tasks, Finalize(t)
    PROVE  HInv'
<1> DEFINE a == task[t].action
           cost == task[t].reserved
           event == ActionEvent(task[t])
           after == AfterCommit(a, cost)
           row == At(task[t], after)
<1>0. /\ task \in [Tasks -> TaskRow] /\ task[t] \in TaskRow
      /\ task[t].pc = "finalize" /\ ~Post(task[t])
      /\ log \in Seq(EventRow)
    BY DEF TInv, TypeOK, Finalize, Post
<1>1. CASE Return(t) /\ UNCHANGED db
    BY <1>1, ReturnedSteady, SteadyStep DEF Return, db
<1>2. CASE log' = Append(log, event) /\ Update(t, row) /\ UNCHANGED hold
    <2>1. a \in Requests
        BY <1>0 DEF TInv, TasksOK, TaskOK, TaskRow
    <2>2. event.hold = task[t].via /\ Stage(event) = 3
        BY <2>1, RequestsAssumption DEF ActionEvent, Stage, RequestOK, Types
    <2>3. row.via = None \/ (row.via = task[t].via /\ Post(row))
        <3>1. CASE after = "done"
            BY <3>1 DEF At, Returned, NewTask
        <3>2. CASE after \in {"account", "lifecycle"}
            <4>1. row = [task[t] EXCEPT !.pc = after]
                BY <3>2 DEF At
            <4> QED
                BY <1>0, <3>2, <4>1 DEF TaskRow, Post
        <3> QED
            BY <3>1, <3>2 DEF AfterCommit, AfterBudget
    <2>4. task' = [task EXCEPT ![t] = row]
        BY <1>2 DEF Update
    <2> HIDE DEF event, row
    <2>5. /\ DOMAIN log' = DOMAIN log \cup {Len(log) + 1}
          /\ \A i \in DOMAIN log : i \in Nat /\ i < Len(log) + 1 /\ log'[i] = log[i]
          /\ log'[Len(log) + 1] = event
        BY <1>0, <1>2, Appended
    <2>6. HoldEventsInOrder'
        <3>1. \A i \in DOMAIN log :
                 task[t].via # None /\ log[i].hold = task[t].via => Stage(log[i]) < 3
            BY <1>0, StageRange DEF HInv, NotYetRun
        <3> QED
            BY <1>0, <1>2, <2>2, <3>1, OrderGrows DEF HInv
    <2>7. HoldsKnown'
        BY <1>2, <2>2, <2>5 DEF HInv, HoldsKnown, ViaApproved, NoHold
    <2>8. HoldsMatchLog'
        <3>1. ASSUME NEW g \in Holds
              PROVE  hold'[g].status \in {"approved", "rejected", "timed_out"}
                        <=> \E i \in DOMAIN log' : log'[i].hold = g /\ Stage(log'[i]) = 2
            BY <1>2, <2>2, <2>5 DEF HInv, HoldsMatchLog
        <3>2. ASSUME NEW i \in DOMAIN log', log'[i].hold # None, Stage(log'[i]) = 3
              PROVE  hold'[log'[i].hold].status = "approved"
            BY <1>2, <2>2, <2>5, <3>2 DEF HInv, HoldsMatchLog, ViaApproved
        <3> QED
            BY <3>1, <3>2 DEF HoldsMatchLog
    <2>9. ViaApproved'
        BY <1>0, <1>2, <2>3, <2>4 DEF HInv, ViaApproved
    <2>10. ViaOnce'
        BY <1>0, <2>3, <2>4 DEF HInv, ViaOnce
    <2>11. NotYetRun'
        <3> SUFFICES ASSUME NEW s \in Tasks, NEW i \in DOMAIN log',
                            task'[s].via # None, log'[i].hold = task'[s].via, Stage(log'[i]) = 3
                     PROVE  Post(task'[s])
            BY DEF NotYetRun
        <3>1. CASE s = t
            BY <1>0, <2>3, <2>4, <3>1
        <3>2. CASE s # t /\ i \in DOMAIN log
            BY <1>0, <2>4, <2>5, <3>2 DEF HInv, NotYetRun
        <3>3. CASE s # t /\ i = Len(log) + 1
            BY <1>0, <2>2, <2>4, <2>5, <3>3 DEF HInv, ViaOnce
        <3> QED
            BY <2>5, <3>1, <3>2, <3>3
    <2> QED
        BY <2>6, <2>7, <2>8, <2>9, <2>10, <2>11 DEF HInv
<1> QED
    BY <1>1, <1>2 DEF Finalize, Goto

\* A crash forgets the tasks and keeps the tables.
LEMMA SystemHistory ==
    ASSUME TInv, HInv, System
    PROVE  HInv'
<1>1. UNCHANGED <<hold, log>>
    BY DEF System, ListShares, CreditShares, CreditFails, Elapse, Crash, Restart, db
<1>2. HoldsKnown' /\ HoldEventsInOrder' /\ HoldsMatchLog'
    BY <1>1 DEF HInv, HoldsKnown, HoldEventsInOrder, HoldsMatchLog
<1>3. CASE UNCHANGED task
    BY <1>1, <1>2, <1>3 DEF HInv, ViaApproved, ViaOnce, NotYetRun
<1>4. CASE Crash
    <2>1. task' = [t \in Tasks |-> IF task[t].pc = "new" THEN task[t] ELSE Returned]
        BY <1>4 DEF Crash
    <2>2. Returned.via = None
        BY DEF Returned, NewTask
    <2>3. \A t \in Tasks : task'[t] = task[t] \/ task'[t].via = None
        BY <2>1, <2>2
    <2> QED
        BY <1>1, <1>2, <2>3 DEF HInv, ViaApproved, ViaOnce, NotYetRun
<1> QED
    BY <1>3, <1>4 DEF System, ListShares, CreditShares, CreditFails, Elapse, Restart

\* No holds and no events at the start.
LEMMA InitHInv == Init => HInv
<1> SUFFICES ASSUME Init PROVE HInv
    OBVIOUS
<1>1. HoldsKnown /\ HoldEventsInOrder /\ HoldsMatchLog
    BY DEF Init, HoldsKnown, HoldEventsInOrder, HoldsMatchLog, NoHold
<1>2. \A t \in Tasks : task[t].via = None
    BY DEF Init, NewTask
<1> QED
    BY <1>1, <1>2 DEF HInv, ViaApproved, ViaOnce, NotYetRun

\* HInv is inductive relative to TInv.
LEMMA NextHInv == TInv /\ HInv /\ [Next]_vars => HInv'
<1> SUFFICES ASSUME TInv, HInv, [Next]_vars PROVE HInv'
    OBVIOUS
<1>1. CASE System
    BY <1>1, SystemHistory
<1>2. ASSUME NEW t \in Tasks, TaskStep(t) \/ ClientStep(t) PROVE HInv'
    BY <1>2, SteadyActions, ExpireHoldHistory, ResolveHistory, TriggerHistory, FinalizeHistory
    DEF TaskStep, ClientStep, Progress
<1>3. CASE UNCHANGED vars
    BY <1>3 DEF vars, HInv, HoldsKnown, HoldEventsInOrder, HoldsMatchLog, ViaApproved, ViaOnce,
                NotYetRun
<1> QED
    BY <1>1, <1>2, <1>3 DEF Next

\* HInv holds of every behaviour of the kernel.
LEMMA HoldInvariant == Spec => []HInv
BY InitTInv, NextTInv, InitHInv, NextHInv, PTL DEF Spec

\* Each hold has one hold_request, then at most one decision, then at most one
\* execution: whoever answers, times out, re-executes or crashes, and when.
THEOREM HoldHistory == Spec => []HoldEventsInOrder
<1>1. HInv => HoldEventsInOrder
    BY DEF HInv
<1> QED
    BY <1>1, HoldInvariant, PTL

\* The hold_requests table never disagrees with the log: it is decided exactly
\* when the log says so, and a held action is in the log only if its hold is
\* approved.
THEOREM HoldTableMatches == Spec => []HoldsMatchLog
<1>1. HInv => HoldsMatchLog
    BY DEF HInv
<1> QED
    BY <1>1, HoldInvariant, PTL

\* An agent's action that every envelope of it holds has no event without a
\* human's hold_response for it earlier in the log, or the _hold_approved that
\* its client sent: an event with neither was cleared by an envelope, which never
\* changes what it holds, and an event with a hold comes after the decision on
\* it, which was an approval.
THEOREM HeldActionsWait == Spec => []HeldActionsApproved
<1>1. TInv /\ PInv /\ HInv => HeldActionsApproved
    <2> SUFFICES ASSUME TInv, PInv, HInv, NEW i \in DOMAIN log,
                        log[i].type \in {"create", "mutate", "execute"}, ~log[i].selfApproved,
                        actor[log[i].actor].kind = "agent",
                        AlwaysHeld(log[i].actor, log[i].target, log[i].type)
                 PROVE  \E j \in 1..(i - 1) :
                           /\ log[j].type = "hold_response"
                           /\ log[j].hold = log[i].hold
                           /\ actor[log[j].actor].kind = "human"
        BY DEF HeldActionsApproved
    <2>0. log \in Seq(EventRow) /\ i \in DOMAIN log
        BY DEF TInv, TypeOK
    <2>1. CASE log[i].hold = None
        <3>1. PICK e \in Envelopes : Grants(envelope[e], log[i]) /\ ~HoldTriggered(envelope[e], log[i])
            BY <2>1 DEF PInv, EventsCleared, Cleared
        <3>2. envelope[e].status # "absent"
            BY <3>1, EnvelopeRows DEF TInv, TypeOK, Grants
        <3> QED
            BY <3>1, <3>2 DEF AlwaysHeld, Grants, HoldTriggered
    <2>2. CASE log[i].hold # None
        <3>1. log[i].hold \in Holds /\ Stage(log[i]) = 3
            BY <2>0, <2>2, LogRows DEF Stage
        <3>2. hold[log[i].hold].status = "approved"
            BY <2>2, <3>1 DEF HInv, HoldsMatchLog
        <3>3. PICK j \in DOMAIN log : /\ log[j].type = "hold_response"
                                      /\ log[j].hold = log[i].hold
                                      /\ actor[log[j].actor].kind = "human"
            BY <3>1, <3>2 DEF PInv, ApprovalLogged
        <3>4. Stage(log[j]) = 2
            BY <3>3 DEF Stage
        <3>5. i \in Nat /\ j \in Nat /\ j >= 1 /\ ~(i < j) /\ i # j
            BY <2>0, <2>2, <3>1, <3>3, <3>4 DEF HInv, HoldEventsInOrder
        <3> QED
            BY <3>3, <3>5
    <2> QED
        BY <2>1, <2>2
<1> QED
    BY <1>1, PipelineInvariant, HoldInvariant, PTL

-----------------------------------------------------------------------------
\* The pipeline implements HoldLifecycle.

\* A hold that is not refused and not executed has been charged nothing.
Uncharged ==
    \A h \in Holds : StageOf(h) \in {"absent", "pending", "approved"} => ChargeOf(h) = 0

\* What a step may do to the holds and their events.  Nothing (an event of no
\* hold is not about any):
Aside ==
    /\ UNCHANGED hold
    /\ UNCHANGED log \/ \E event \in EventRow : log' = Append(log, event) /\ event.hold = None

\* a hold_request with its row,
Opens(h, event) ==
    /\ hold[h] = NoHold /\ event.hold = h /\ Stage(event) = 1 /\ event.settled = 0
    /\ \E row \in HoldRow : /\ hold' = [hold EXCEPT ![h] = row]
                            /\ row.status = "pending" /\ row.reserved > 0

\* a decision,
Decides(h, event) ==
    /\ hold[h].status = "pending" /\ event.hold = h /\ Stage(event) = 2
    /\ \/ hold' = [hold EXCEPT ![h].status = "approved"] /\ event.settled = 0
       \/ /\ \E status \in {"rejected", "timed_out"} : hold' = [hold EXCEPT ![h].status = status]
          /\ event.settled = CommitmentCost(hold[h].reserved)

\* or the execution of an approved hold, for what it had locked.
Executes(h, event) ==
    /\ hold[h].status = "approved" /\ ~Executed(h)
    /\ event.hold = h /\ Stage(event) = 3 /\ event.settled = hold[h].reserved
    /\ UNCHANGED hold

HoldMove ==
    \E h \in Holds, event \in EventRow :
        log' = Append(log, event) /\ (Opens(h, event) \/ Decides(h, event) \/ Executes(h, event))

\* A timeout refuses the hold.
LEMMA ExpireHoldMoves ==
    ASSUME TInv, NEW t \in Tasks, ExpireHold(t)
    PROVE  Aside \/ HoldMove
<1>1. CASE UNCHANGED db
    BY <1>1 DEF Aside, db
<1>2. ASSUME NEW h \in task[t].todo, StillPending(hold[h]),
             hold' = [hold EXCEPT ![h].status = "timed_out"],
             log' = Append(log, HoldEvent("hold_timeout", hold[h].agent, hold[h].agent, h,
                                          hold[h].reserved, CommitmentCost(hold[h].reserved)))
      PROVE  HoldMove
    <2>1. h \in Holds
        BY DEF TInv, TypeOK, TaskRow
    <2>2. hold[h].agent \in Actors /\ hold[h].reserved \in Nat
        BY <1>2, <2>1 DEF TInv, TypeOK, StillPending, NoHold, HoldRow
    <2>3. CommitmentCost(hold[h].reserved) \in Nat
        BY <2>2, CommitmentBounded
    <2> DEFINE event == HoldEvent("hold_timeout", hold[h].agent, hold[h].agent, h,
                                  hold[h].reserved, CommitmentCost(hold[h].reserved))
    <2>4. /\ event \in EventRow /\ event.hold = h /\ Stage(event) = 2
          /\ event.settled = CommitmentCost(hold[h].reserved)
        <3>1. hold[h].reserved \in Amount /\ CommitmentCost(hold[h].reserved) \in Amount
            BY <2>2, <2>3 DEF Amount
        <3> QED
            BY <2>1, <2>2, <3>1 DEF HoldEvent, EventRow, EventTypes, Targets, Stage
    <2>5. log' = Append(log, event)
        BY <1>2
    <2> HIDE DEF event
    <2>6. Decides(h, event)
        BY <1>2, <2>4 DEF Decides, StillPending
    <2> QED
        BY <2>1, <2>4, <2>5, <2>6 DEF HoldMove
<1> QED
    BY <1>1, <1>2 DEF ExpireHold

\* A response approves or refuses it.
LEMMA ResolveMoves ==
    ASSUME TInv, NEW t \in Tasks, Resolve(t)
    PROVE  Aside \/ HoldMove
<1> DEFINE a == task[t].action
           h == a.arg.hold
           r == hold[h]
           reject == a.arg.decision = "reject"
           cost == IF reject THEN CommitmentCost(r.reserved) ELSE 0
           event == HoldEvent("hold_response", a.actor, r.agent, h, r.reserved, cost)
<1>1. CASE UNCHANGED db
    BY <1>1 DEF Aside, db
<1>2. ASSUME StillPending(r), hold' = [hold EXCEPT ![h].status = Decided(a.arg.decision)],
             log' = Append(log, event)
      PROVE  HoldMove
    <2>1. a \in Requests /\ IsHoldResponse(a)
        BY DEF TInv, TypeOK, TasksOK, Resolve, TaskOK, TaskRow
    <2>2. a.actor \in Actors /\ h \in Holds /\ a.arg.decision \in {"approve", "reject"}
        BY <2>1, RequestsAssumption DEF RequestOK
    <2>3. r.agent \in Actors /\ r.reserved \in Nat
        BY <1>2, <2>2 DEF TInv, TypeOK, StillPending, NoHold, HoldRow
    <2>4. cost \in Nat
        BY <2>3, CommitmentBounded
    <2>5. /\ event \in EventRow /\ event.hold = h /\ Stage(event) = 2 /\ event.settled = cost
        <3>1. cost \in Amount /\ r.reserved \in Amount
            BY <2>3, <2>4 DEF Amount
        <3> HIDE DEF cost, r
        <3> QED
            BY <2>2, <2>3, <3>1 DEF HoldEvent, EventRow, EventTypes, Targets, Stage
    <2> HIDE DEF event
    <2>6. Decides(h, event)
        <3>1. CASE reject
            <4>1. Decided(a.arg.decision) = "rejected" /\ cost = CommitmentCost(hold[h].reserved)
                BY <3>1 DEF Decided
            <4> QED
                BY <1>2, <2>5, <4>1 DEF Decides, StillPending
        <3>2. CASE ~reject
            <4>1. Decided(a.arg.decision) = "approved" /\ cost = 0
                BY <2>2, <3>2 DEF Decided
            <4> QED
                BY <1>2, <2>5, <4>1 DEF Decides, StillPending
        <3> QED
            BY <3>1, <3>2
    <2> QED
        BY <1>2, <2>2, <2>5, <2>6 DEF HoldMove
<1> QED
    BY <1>1, <1>2 DEF Resolve

\* A trigger opens one.
LEMMA TriggerMoves ==
    ASSUME TInv, TInv', NEW t \in Tasks, Trigger(t)
    PROVE  Aside \/ HoldMove
<1> DEFINE a == task[t].action
           cost == QuoteCost(a)
           row == [status |-> "pending", envelope |-> task[t].envelope, agent |-> a.actor,
                   action |-> a, reserved |-> cost, triggeredAt |-> clock]
<1>1. CASE UNCHANGED db
    BY <1>1 DEF Aside, db
<1>2. CASE ~UNCHANGED db
    <2>0. a \in Requests
        BY DEF TInv, TypeOK, TasksOK, TaskOK, TaskRow, Trigger
    <2>1. a.actor \in Actors /\ cost \in Nat /\ cost > 0
        BY <2>0, QuotePositive, RequestsAssumption DEF RequestOK
    <2>2. PICK h \in Holds :
             /\ hold[h] = NoHold
             /\ hold' = [hold EXCEPT ![h] = row]
             /\ log' = Append(log, HoldEvent("hold_request", a.actor, a.actor, h, cost, 0))
        BY <1>2, Zenon DEF Trigger
    <2> DEFINE event == HoldEvent("hold_request", a.actor, a.actor, h, cost, 0)
    <2> HIDE DEF cost
    <2>3. event \in EventRow /\ event.hold = h /\ Stage(event) = 1 /\ event.settled = 0
        <3>1. cost \in Amount /\ 0 \in Amount
            BY <2>1 DEF Amount
        <3> QED
            BY <2>1, <3>1 DEF HoldEvent, EventRow, EventTypes, Targets, Stage
    <2>4. row.status = "pending" /\ row.reserved = cost
        OBVIOUS
    <2>5. log' = Append(log, event)
        BY <2>2
    <2> HIDE DEF row, event
    <2>6. row \in HoldRow
        <3>1. hold'[h] = row
            BY <2>2 DEF TInv, TypeOK
        <3> QED
            BY <2>4, <3>1 DEF TInv, TypeOK, NoHold
    <2>7. Opens(h, event)
        BY <2>1, <2>2, <2>3, <2>4, <2>6 DEF Opens
    <2> QED
        BY <2>3, <2>5, <2>7 DEF HoldMove
<1> QED
    BY <1>1, <1>2

\* A commit executes the approved hold its task carries, for what it had locked.
LEMMA FinalizeMoves ==
    ASSUME TInv, PInv, HInv, NEW t \in Tasks, Finalize(t)
    PROVE  Aside \/ HoldMove
<1> DEFINE a == task[t].action
           cost == task[t].reserved
           event == ActionEvent(task[t])
<1>0. /\ task[t] \in TaskRow /\ TaskOK(task[t], actor, envelope)
      /\ Story(task[t], actor, envelope, hold)
      /\ task[t].pc = "finalize" /\ ~Post(task[t])
    BY DEF TInv, TypeOK, TasksOK, PInv, Stories, Finalize, Post
<1>1. CASE UNCHANGED db
    BY <1>1 DEF Aside, db
<1>2. CASE log' = Append(log, event) /\ UNCHANGED hold
    <2>1. a \in Requests
        BY <1>0 DEF TaskOK, TaskRow
    <2>2. a.type \in Types
        BY <2>1, RequestsAssumption DEF RequestOK
    <2>3. event.hold = task[t].via /\ Stage(event) = 3 /\ event.settled = cost
        BY <2>2 DEF ActionEvent, Stage, Types
    <2>4. event \in EventRow
        BY <1>0, ActionEventType DEF TaskOK
    <2> HIDE DEF event
    <2>5. CASE task[t].via = None
        BY <1>2, <2>3, <2>4, <2>5 DEF Aside
    <2>6. CASE task[t].via # None
        <3>1. task[t].via \in Holds
            BY <1>0, <2>6 DEF TaskRow
        <3>2. hold[task[t].via].status = "approved"
            BY <2>6 DEF HInv, ViaApproved
        <3>3. ~Executed(task[t].via)
            BY <1>0, <2>6 DEF HInv, NotYetRun, Executed
        <3>4. hold[task[t].via].reserved = cost
            BY <1>0, <2>6 DEF Story, CarriesHold
        <3>5. Executes(task[t].via, event)
            BY <1>2, <2>3, <3>2, <3>3, <3>4 DEF Executes
        <3> QED
            BY <1>2, <2>4, <3>1, <3>5 DEF HoldMove
    <2> QED
        BY <2>5, <2>6
<1> QED
    BY <1>1, <1>2 DEF Finalize

\* Every step is one of these.
LEMMA StepMoves ==
    ASSUME TInv, TInv', PInv, HInv, [Next]_vars
    PROVE  Aside \/ HoldMove
<1>1. CASE System \/ UNCHANGED vars
    BY <1>1 DEF Aside, System, ListShares, CreditShares, CreditFails, Elapse, Crash, Restart, db, vars
<1>2. ASSUME NEW t \in Tasks, ClientStep(t) PROVE Aside
    BY <1>2 DEF Aside, ClientStep, Submit, Abort, SkipTimeout, SkipBudget, db
<1>3. ASSUME NEW t \in Tasks, TaskStep(t) PROVE Aside \/ HoldMove
    <2>1. CASE \/ Check(t) \/ CheckLineage(t) \/ Authorize(t) \/ ExpireEnvelope(t) \/ ListHolds(t)
               \/ Respond(t) \/ Parse(t) \/ ReserveEnergy(t) \/ TakePrepaid(t) \/ RejectPayload(t)
               \/ Account(t) \/ Consume(t) \/ Lifecycle(t)
        <3>1. UNCHANGED <<hold, log>>
            BY <2>1 DEF Check, CheckLineage, Authorize, ExpireEnvelope, ListHolds, Respond, Parse,
                        ReserveEnergy, TakePrepaid, RejectPayload, Account, Consume, Lifecycle, db
        <3> QED
            BY <3>1 DEF Aside
    <2> QED
        BY <1>3, <2>1, ExpireHoldMoves, ResolveMoves, TriggerMoves, FinalizeMoves
        DEF TaskStep, Progress
<1> QED
    BY <1>1, <1>2, <1>3 DEF Next

\* What an appended event does to the history of a hold.
LEMMA HistoryGrows ==
    ASSUME TInv, NEW event \in EventRow, log' = Append(log, event), NEW h \in Holds
    PROVE  /\ Executed(h)' <=> Executed(h) \/ (event.hold = h /\ Stage(event) = 3)
           /\ ChargeOf(h) \in Int
           /\ ChargeOf(h)' = ChargeOf(h) + IF event.hold = h THEN Taken(event) ELSE 0
<1> DEFINE I == {i \in DOMAIN log : log[i].hold = h}
           J == {i \in DOMAIN log' : log'[i].hold = h}
<1>0. log \in Seq(EventRow)
    BY DEF TInv, TypeOK
<1>1. /\ DOMAIN log' = DOMAIN log \cup {Len(log) + 1}
      /\ \A i \in DOMAIN log : log'[i] = log[i]
      /\ log'[Len(log) + 1] = event
      /\ Len(log) + 1 \notin DOMAIN log
    BY <1>0, Appended
<1>2. Executed(h)' <=> Executed(h) \/ (event.hold = h /\ Stage(event) = 3)
    BY <1>1 DEF Executed
<1>3. /\ I \in SUBSET DOMAIN log /\ J \in SUBSET DOMAIN log'
      /\ J \ {Len(log) + 1} = I
      /\ Len(log) + 1 \in J <=> event.hold = h
    BY <1>1
<1>4. ChargeOf(h) = SettledBy(I) /\ ChargeOf(h)' = SumFunction([i \in J |-> Taken(log'[i])])
    BY DEF ChargeOf, SettledBy
<1> HIDE DEF I, J
<1>5. /\ SettledBy(I) \in Int
      /\ SumFunction([i \in J |-> Taken(log'[i])]) =
            SettledBy(I) + IF Len(log) + 1 \in J THEN Taken(event) ELSE 0
    BY <1>0, <1>3, SettledGrows
<1>6. ChargeOf(h)' = ChargeOf(h) + IF event.hold = h THEN Taken(event) ELSE 0
    BY <1>3, <1>4, <1>5
<1> QED
    BY <1>2, <1>4, <1>5, <1>6

\* A step aside is a stutter of HoldLifecycle.
LEMMA AsideStutters ==
    ASSUME TInv, Aside, NEW h \in Holds
    PROVE  StageOf(h)' = StageOf(h) /\ LockOf(h)' = LockOf(h) /\ ChargeOf(h)' = ChargeOf(h)
<1>0. hold' = hold
    BY DEF Aside
<1>1. CASE UNCHANGED log
    BY <1>0, <1>1 DEF StageOf, LockOf, ChargeOf, Executed, SettledBy
<1>2. ASSUME NEW event \in EventRow, log' = Append(log, event), event.hold = None
      PROVE  StageOf(h)' = StageOf(h) /\ LockOf(h)' = LockOf(h) /\ ChargeOf(h)' = ChargeOf(h)
    <2>1. event.hold # h
        BY <1>2, NoneAssumption
    <2>2. (Executed(h)' <=> Executed(h)) /\ ChargeOf(h) \in Int /\ ChargeOf(h)' = ChargeOf(h)
        BY <1>2, <2>1, HistoryGrows
    <2> QED
        BY <1>0, <2>2 DEF StageOf, LockOf
<1> QED
    BY <1>1, <1>2 DEF Aside

\* The event of one hold leaves the others as they are.
LEMMA OthersStay ==
    ASSUME TInv, NEW h \in Holds, NEW event \in EventRow, log' = Append(log, event), event.hold = h,
           NEW g \in Holds, g # h, hold'[g] = hold[g]
    PROVE  StageOf(g)' = StageOf(g) /\ LockOf(g)' = LockOf(g) /\ ChargeOf(g)' = ChargeOf(g)
<1>1. (Executed(g)' <=> Executed(g)) /\ ChargeOf(g) \in Int /\ ChargeOf(g)' = ChargeOf(g)
    BY HistoryGrows
<1> QED
    BY <1>1 DEF StageOf, LockOf

\* A hold that is absent or pending has not been executed.
LEMMA NotExecuted ==
    ASSUME HInv, NEW h \in Holds, hold[h] = NoHold \/ hold[h].status = "pending"
    PROVE  ~Executed(h)
<1>1. h # None
    BY NoneAssumption
<1>2. CASE hold[h] = NoHold
    BY <1>1, <1>2 DEF HInv, HoldsKnown, Executed
<1>3. CASE hold[h].status = "pending"
    <2>1. \A i \in DOMAIN log : log[i].hold = h => Stage(log[i]) = 1
        BY <1>3, PendingHistory
    <2> QED
        BY <2>1 DEF Executed
<1> QED
    BY <1>2, <1>3

\* The commitment cost is a fifth of the lock, rounded up.
LEMMA CommitmentIsFifth ==
    ASSUME NEW lock \in Nat
    PROVE  Abstract!IsCommitmentCost(CommitmentCost(lock), lock)
BY DEF CommitmentCost, Abstract!IsCommitmentCost

\* Each move is one of HoldLifecycle's on the hold of its event: opening it,
LEMMA OpensHold ==
    ASSUME TInv, HInv, Uncharged, NEW h \in Holds, NEW event \in EventRow,
           log' = Append(log, event), Opens(h, event)
    PROVE  /\ StageOf(h) = "absent" /\ StageOf(h)' = "pending"
           /\ LockOf(h)' > 0 /\ ChargeOf(h)' = ChargeOf(h) /\ ChargeOf(h) = 0
<1>1. PICK row \in HoldRow : /\ hold' = [hold EXCEPT ![h] = row]
                             /\ row.status = "pending" /\ row.reserved > 0
    BY DEF Opens
<1>2. hold[h] = NoHold /\ event.hold = h /\ Stage(event) = 1 /\ event.settled = 0
    BY DEF Opens
<1>3. ~Executed(h)
    BY <1>2, NotExecuted
<1>4. StageOf(h) = "absent"
    BY <1>2, <1>3 DEF StageOf, NoHold
<1>5. ChargeOf(h) = 0
    BY <1>4 DEF Uncharged
<1>6. ~Executed(h)' /\ ChargeOf(h)' = 0
    <2>1. /\ Executed(h)' <=> Executed(h) \/ (event.hold = h /\ Stage(event) = 3)
          /\ ChargeOf(h)' = ChargeOf(h) + IF event.hold = h THEN Taken(event) ELSE 0
        BY HistoryGrows
    <2>2. Taken(event) = 0
        BY <1>2, TakenType
    <2> QED
        BY <1>2, <1>3, <1>5, <2>1, <2>2
<1>7. hold'[h] = row
    BY <1>1 DEF TInv, TypeOK
<1>8. StageOf(h)' = "pending"
    BY <1>1, <1>6, <1>7 DEF StageOf
<1>9. LockOf(h)' > 0
    <2>1. hold'[h] # NoHold
        BY <1>1, <1>7 DEF NoHold
    <2> QED
        BY <1>1, <1>7, <2>1 DEF LockOf
<1> QED
    BY <1>4, <1>5, <1>6, <1>8, <1>9

\* deciding it,
LEMMA DecidesHold ==
    ASSUME TInv, HInv, Uncharged, NEW h \in Holds, NEW event \in EventRow,
           log' = Append(log, event), Decides(h, event)
    PROVE  /\ StageOf(h) = "pending" /\ LockOf(h)' = LockOf(h)
           /\ \/ StageOf(h)' = "approved" /\ ChargeOf(h)' = ChargeOf(h) /\ ChargeOf(h) = 0
              \/ /\ StageOf(h)' \in {"rejected", "timed_out"}
                 /\ Abstract!IsCommitmentCost(ChargeOf(h)', LockOf(h))
<1>1. hold[h].status = "pending" /\ event.hold = h /\ Stage(event) = 2
    BY DEF Decides
<1>2. ~Executed(h)
    BY <1>1, NotExecuted
<1>3. StageOf(h) = "pending"
    BY <1>1, <1>2 DEF StageOf
<1>4. ChargeOf(h) = 0
    BY <1>3 DEF Uncharged
<1>5. ~Executed(h)' /\ ChargeOf(h)' = ChargeOf(h) + Taken(event)
    <2>1. /\ Executed(h)' <=> Executed(h) \/ (event.hold = h /\ Stage(event) = 3)
          /\ ChargeOf(h)' = ChargeOf(h) + IF event.hold = h THEN Taken(event) ELSE 0
        BY HistoryGrows
    <2> QED
        BY <1>1, <1>2, <2>1
<1>6. hold[h] \in HoldRow /\ hold[h] # NoHold /\ hold[h].reserved \in Nat
    BY <1>1 DEF TInv, TypeOK, NoHold, HoldRow
<1>7. LockOf(h) = hold[h].reserved
    BY <1>6 DEF LockOf
<1>8. ASSUME NEW status \in {"approved", "rejected", "timed_out"},
             hold' = [hold EXCEPT ![h].status = status]
      PROVE  LockOf(h)' = LockOf(h) /\ StageOf(h)' = status
    <2>1. hold'[h].status = status /\ hold'[h].reserved = hold[h].reserved
        BY <1>6, <1>8 DEF TInv, TypeOK, HoldRow
    <2>2. hold'[h] # NoHold
        BY <2>1 DEF NoHold
    <2> QED
        BY <1>5, <1>7, <2>1, <2>2 DEF LockOf, StageOf
<1>9. CASE hold' = [hold EXCEPT ![h].status = "approved"] /\ event.settled = 0
    <2>1. LockOf(h)' = LockOf(h) /\ StageOf(h)' = "approved"
        BY <1>8, <1>9
    <2>2. Taken(event) = 0
        BY <1>9, TakenType
    <2> QED
        BY <1>3, <1>4, <1>5, <2>1, <2>2
<1>10. ASSUME NEW status \in {"rejected", "timed_out"},
              hold' = [hold EXCEPT ![h].status = status],
              event.settled = CommitmentCost(hold[h].reserved)
       PROVE  /\ LockOf(h)' = LockOf(h) /\ StageOf(h)' \in {"rejected", "timed_out"}
              /\ Abstract!IsCommitmentCost(ChargeOf(h)', LockOf(h))
    <2>1. LockOf(h)' = LockOf(h) /\ StageOf(h)' = status
        BY <1>8, <1>10
    <2>2. event.settled \in Nat
        BY <1>6, <1>10, CommitmentBounded
    <2>3. Taken(event) = event.settled
        BY <2>2, TakenType
    <2>4. ChargeOf(h)' = CommitmentCost(LockOf(h))
        BY <1>4, <1>5, <1>7, <1>10, <2>2, <2>3
    <2> QED
        BY <1>6, <1>7, <2>1, <2>4, CommitmentIsFifth
<1> QED
    BY <1>3, <1>9, <1>10 DEF Decides

\* executing it.
LEMMA ExecutesHold ==
    ASSUME TInv, HInv, Uncharged, NEW h \in Holds, NEW event \in EventRow,
           log' = Append(log, event), Executes(h, event)
    PROVE  /\ StageOf(h) = "approved" /\ StageOf(h)' = "executed"
           /\ LockOf(h)' = LockOf(h) /\ ChargeOf(h)' = LockOf(h)
<1>1. /\ hold[h].status = "approved" /\ ~Executed(h) /\ hold' = hold
      /\ event.hold = h /\ Stage(event) = 3 /\ event.settled = hold[h].reserved
    BY DEF Executes
<1>2. StageOf(h) = "approved"
    BY <1>1 DEF StageOf
<1>3. ChargeOf(h) = 0
    BY <1>2 DEF Uncharged
<1>4. Executed(h)' /\ ChargeOf(h)' = ChargeOf(h) + Taken(event)
    <2>1. /\ Executed(h)' <=> Executed(h) \/ (event.hold = h /\ Stage(event) = 3)
          /\ ChargeOf(h)' = ChargeOf(h) + IF event.hold = h THEN Taken(event) ELSE 0
        BY HistoryGrows
    <2> QED
        BY <1>1, <2>1
<1>5. hold[h] # NoHold /\ event.settled \in Nat /\ Taken(event) = event.settled
    <2>1. hold[h] # NoHold /\ hold[h].reserved \in Nat
        BY <1>1 DEF TInv, TypeOK, NoHold, HoldRow
    <2> QED
        BY <1>1, <2>1, TakenType
<1>6. LockOf(h) = hold[h].reserved /\ LockOf(h)' = LockOf(h)
    BY <1>1, <1>5 DEF LockOf
<1>7. StageOf(h)' = "executed"
    BY <1>4 DEF StageOf
<1> QED
    BY <1>1, <1>2, <1>3, <1>4, <1>5, <1>6, <1>7

\* So a move of a hold is a step of HoldLifecycle.
LEMMA MoveImplements ==
    ASSUME TInv, HInv, Uncharged, HoldMove
    PROVE  Abstract!Next /\ Uncharged'
<1>1. PICK h \in Holds, event \in EventRow :
         log' = Append(log, event) /\ (Opens(h, event) \/ Decides(h, event) \/ Executes(h, event))
    BY DEF HoldMove
<1>2. event.hold = h
    BY <1>1 DEF Opens, Decides, Executes
<1>3. \A g \in Holds : g # h => hold'[g] = hold[g]
    BY <1>1 DEF Opens, Decides, Executes, TInv, TypeOK
<1>4. \A g \in Holds : g # h =>
         StageOf(g)' = StageOf(g) /\ LockOf(g)' = LockOf(g) /\ ChargeOf(g)' = ChargeOf(g)
    BY <1>1, <1>2, <1>3, OthersStay
<1>5. ASSUME StageOf(h)' \in {"absent", "pending", "approved"} => ChargeOf(h)' = 0
      PROVE  Uncharged'
    BY <1>4, <1>5 DEF Uncharged
<1>6. CASE Opens(h, event)
    <2>1. /\ StageOf(h) = "absent" /\ StageOf(h)' = "pending"
          /\ LockOf(h)' > 0 /\ ChargeOf(h)' = ChargeOf(h) /\ ChargeOf(h) = 0
        BY <1>1, <1>6, OpensHold
    <2>2. Abstract!Open(h)
        BY <1>4, <2>1 DEF Abstract!Open
    <2> QED
        BY <1>5, <2>1, <2>2 DEF Abstract!Next
<1>7. CASE Decides(h, event)
    <2>1. /\ StageOf(h) = "pending" /\ LockOf(h)' = LockOf(h)
          /\ \/ StageOf(h)' = "approved" /\ ChargeOf(h)' = ChargeOf(h) /\ ChargeOf(h) = 0
             \/ /\ StageOf(h)' \in {"rejected", "timed_out"}
                /\ Abstract!IsCommitmentCost(ChargeOf(h)', LockOf(h))
        BY <1>1, <1>7, DecidesHold
    <2>2. CASE StageOf(h)' = "approved" /\ ChargeOf(h)' = ChargeOf(h) /\ ChargeOf(h) = 0
        <3>1. Abstract!Approve(h)
            BY <1>4, <2>1, <2>2 DEF Abstract!Approve
        <3> QED
            BY <1>5, <2>2, <3>1 DEF Abstract!Next
    <2>3. CASE /\ StageOf(h)' \in {"rejected", "timed_out"}
               /\ Abstract!IsCommitmentCost(ChargeOf(h)', LockOf(h))
        <3>1. Abstract!Refuse(h)
            BY <1>4, <2>1, <2>3 DEF Abstract!Refuse
        <3>2. Uncharged'
            BY <1>5, <2>3
        <3> QED
            BY <3>1, <3>2 DEF Abstract!Next
    <2> QED
        BY <2>1, <2>2, <2>3
<1>8. CASE Executes(h, event)
    <2>1. /\ StageOf(h) = "approved" /\ StageOf(h)' = "executed"
          /\ LockOf(h)' = LockOf(h) /\ ChargeOf(h)' = LockOf(h)
        BY <1>1, <1>8, ExecutesHold
    <2>2. Abstract!Execute(h)
        BY <1>4, <2>1 DEF Abstract!Execute
    <2> QED
        BY <1>5, <2>1, <2>2 DEF Abstract!Next
<1> QED
    BY <1>1, <1>6, <1>7, <1>8

\* At the start no hold is open.
LEMMA InitImplements ==
    ASSUME Init
    PROVE  Uncharged /\ Abstract!Init
<1>1. DOMAIN log = {} /\ \A h \in Holds : hold[h] = NoHold
    BY DEF Init
<1>2. ASSUME NEW h \in Holds
      PROVE  StageOf(h) = "absent" /\ LockOf(h) = 0 /\ ChargeOf(h) = 0
    <2>1. ~Executed(h) /\ {i \in DOMAIN log : log[i].hold = h} = {}
        BY <1>1 DEF Executed
    <2>2. ChargeOf(h) = 0
        BY <2>1, SumFunctionEmpty DEF ChargeOf, SettledBy
    <2> QED
        BY <1>1, <2>1, <2>2 DEF StageOf, LockOf, NoHold
<1> QED
    BY <1>2 DEF Uncharged, Abstract!Init

\* Every step of the kernel is a step of HoldLifecycle or a stutter of it.
LEMMA StepImplements ==
    ASSUME TInv, TInv', PInv, HInv, Uncharged, [Next]_vars
    PROVE  [Abstract!Next]_(Abstract!vars) /\ Uncharged'
<1>1. CASE HoldMove
    BY <1>1, MoveImplements
<1>2. CASE Aside
    <2>1. \A h \in Holds :
             StageOf(h)' = StageOf(h) /\ LockOf(h)' = LockOf(h) /\ ChargeOf(h)' = ChargeOf(h)
        BY <1>2, AsideStutters
    <2>2. UNCHANGED Abstract!vars
        BY <2>1 DEF Abstract!vars
    <2> QED
        BY <2>1, <2>2 DEF Uncharged
<1> QED
    BY <1>1, <1>2, StepMoves

\* The kernel implements HoldLifecycle: however requests, sweeps, crashes and
\* restarts interleave, each hold is opened with a positive lock, decided once,
\* executed at most once and only after an approval, and charged once: what it
\* locked when its action runs, the commitment cost when it is refused.
THEOREM HoldsFollowLifecycle == Spec => ImplementsHoldLifecycle
<1>1. Init => Uncharged /\ Abstract!Init
    BY InitImplements
<1>2. TInv /\ TInv' /\ PInv /\ HInv /\ Uncharged /\ [Next]_vars
        => [Abstract!Next]_(Abstract!vars) /\ Uncharged'
    BY StepImplements
<1> QED
    BY <1>1, <1>2, PipelineInvariant, HoldInvariant, PTL DEF Spec, ImplementsHoldLifecycle, Abstract!Spec
=============================================================================
