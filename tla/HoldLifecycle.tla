---------------------------- MODULE HoldLifecycle ---------------------------
(***************************************************************************)
(* What a hold promises (PIP-001 11b-11f), without requests, transactions, *)
(* clocks or crashes: a hold locks a cost, a human or a timeout decides it *)
(* once, and it is charged once: the full cost when its action runs after  *)
(* an approval, the commitment cost when it is refused.  An approval is    *)
(* not a promise that the action runs.                                     *)
(***************************************************************************)
EXTENDS Integers

CONSTANT Holds

VARIABLES
    stage,  \* where each hold stands
    locked, \* the cost locked when it was opened
    charged \* what its agent has paid for it

vars == <<stage, locked, charged>>

Stages == {"absent", "pending", "approved", "executed", "rejected", "timed_out"}

Init ==
    /\ stage = [h \in Holds |-> "absent"]
    /\ locked = [h \in Holds |-> 0]
    /\ charged = [h \in Holds |-> 0]

Open(h) ==
    /\ stage[h] = "absent"
    /\ stage' = [stage EXCEPT ![h] = "pending"]
    /\ locked'[h] > 0
    /\ locked' = [locked EXCEPT ![h] = locked'[h]]
    /\ UNCHANGED charged

Approve(h) ==
    /\ stage[h] = "pending"
    /\ stage' = [stage EXCEPT ![h] = "approved"]
    /\ UNCHANGED <<locked, charged>>

Execute(h) ==
    /\ stage[h] = "approved"
    /\ stage' = [stage EXCEPT ![h] = "executed"]
    /\ charged' = [charged EXCEPT ![h] = locked[h]]
    /\ UNCHANGED locked

\* The least charge that is not below a fifth of the lock.
IsCommitmentCost(charge, lock) == 5 * charge >= lock /\ 5 * (charge - 1) < lock

Refuse(h) ==
    /\ stage[h] = "pending"
    /\ \E s \in {"rejected", "timed_out"} : stage' = [stage EXCEPT ![h] = s]
    /\ IsCommitmentCost(charged'[h], locked[h])
    /\ charged' = [charged EXCEPT ![h] = charged'[h]]
    /\ UNCHANGED locked

Next == \E h \in Holds : Open(h) \/ Approve(h) \/ Execute(h) \/ Refuse(h)

Spec == Init /\ [][Next]_vars
=============================================================================
