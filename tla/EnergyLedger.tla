---------------------------- MODULE EnergyLedger ----------------------------
(***************************************************************************)
(* The energy ledger of state/energy_ledger.rs: one row per actor with the *)
(* energy it owns (balance) and the part of it that is locked by           *)
(* reservations (reserved).  Every operation of the ledger runs inside an  *)
(* SQLite transaction: it reads the row, refuses or updates it.  Here each *)
(* one is a guard (the early returns) and a new row (the UPDATE).          *)
(***************************************************************************)
EXTENDS Integers

\* A row of the table energy_ledger.
Row == [balance : Int, reserved : Int]

\* What reserve compares the quoted cost with.
Available(row) == row.balance - row.reserved

\* Fault: the energy that is locked already is not subtracted.
CanReserveFromBalance(row, cost) == cost > 0 /\ row.balance >= cost

\* reserve / reserve_in_tx: refused unless the cost is positive and available.
CanReserve(row, cost) == cost > 0 /\ Available(row) >= cost

\* reserve / reserve_in_tx: the row after the reservation.
Reserve(row, cost) == [row EXCEPT !.reserved = row.reserved + cost]

\* settle_in_tx: what a settlement needs beyond the reservation it closes.
ExtraNeeded(reservedCost, actualCost) ==
    IF actualCost > reservedCost THEN actualCost - reservedCost ELSE 0

\* settle_in_tx refuses negative values, a reservation the row does not hold,
\* extra energy that is not available, and a negative balance.
CanSettle(row, reservedCost, actualCost) ==
    /\ reservedCost >= 0
    /\ actualCost >= 0
    /\ row.reserved >= reservedCost
    /\ Available(row) >= ExtraNeeded(reservedCost, actualCost)
    /\ row.balance - actualCost >= 0

\* Fault: the whole reservation leaves the balance.
SettleWhole(row, reservedCost, actualCost) ==
    [balance  |-> row.balance - reservedCost,
     reserved |-> row.reserved - reservedCost]

\* settle_in_tx closes a reservation: what was spent leaves the balance, the
\* whole reservation is unlocked.
Settle(row, reservedCost, actualCost) ==
    [balance  |-> row.balance - actualCost,
     reserved |-> row.reserved - reservedCost]

\* credit_energy_in_tx: production adds to the balance and to nothing else.
Credit(row, amount) == [row EXCEPT !.balance = row.balance + amount]

\* Fault: the default of the spec parser wins over the requested energy.
NewAccountDefault(energy) == [balance |-> 1000, reserved |-> 0]

\* create_actor_in_tx: the row of a new actor (a negative balance is refused).
NewAccount(energy) == [balance |-> energy, reserved |-> 0]

\* Fault: a fifth, rounded down.
CommitmentCostFloor(reservedCost) == reservedCost \div 5

\* PIP-001 11f, as the kernel computes it twice: ceil(0.2 * reserved) in
\* floating point, which equals the integer ceiling over the costs in use.
CommitmentCost(reservedCost) ==
    IF reservedCost > 0 THEN (reservedCost + 4) \div 5 ELSE 0

\* The row passes the first query of run_startup_integrity_checks.
Consistent(row) ==
    /\ row.reserved >= 0
    /\ row.balance >= 0
    /\ row.reserved <= row.balance
=============================================================================
