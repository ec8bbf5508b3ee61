--------------------------- MODULE EnergyProducer ---------------------------
(***************************************************************************)
(* How a production tick divides its energy (runtime/energy_producer.rs,   *)
(* produce_tick): each actor gets the floor of its proportional part, and  *)
(* what the floors leave over is handed out one unit at a time, round and  *)
(* round in the order of the query, which has no ORDER BY.                 *)
(***************************************************************************)
EXTENDS Integers, FiniteSets, Functions

\* floor(energy * (share / total)) in floating point, which may fall one unit
\* short where the exact part is a whole number.
FloorCredit(energy, share, a) ==
    LET total == SumFunction(share)
        exact == (energy * share[a]) \div total
        whole == (energy * share[a]) % total = 0
    IN  {exact} \cup {low \in {exact - 1} : whole /\ low >= 0}

\* step 3, first loop: what the floors may be.
Floors(energy, share) ==
    {floor \in [DOMAIN share -> 0..energy] :
        \A a \in DOMAIN share : floor[a] \in FloorCredit(energy, share, a)}

\* Fault: the remainder stays with the kernel.
RoundRobinKept(floor, order, remainder) == floor

\* step 3, second loop: the k-th unit of the remainder goes to index k modulo the
\* number of actors; without a remainder the loop does not run.
RoundRobin(floor, order, remainder) ==
    LET idx(k) == (k % Cardinality(DOMAIN floor)) + 1 IN
    [a \in DOMAIN floor |->
        floor[a] + Cardinality({k \in 0..(remainder - 1) : order[idx(k)] = a})]

\* What a tick may credit to the actors it has listed.
Allocations(energy, share) ==
    {RoundRobin(floor, order, energy - SumFunction(floor)) :
        floor \in Floors(energy, share),
        order \in Bijection(1..Cardinality(DOMAIN share), DOMAIN share)}
=============================================================================
