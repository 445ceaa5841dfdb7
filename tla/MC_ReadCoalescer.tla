-------------------------- MODULE MC_ReadCoalescer --------------------------
(* Model values for the coalescer.  The limits and the gap are scaled down *)
(* from 125 registers, 2000 bits, 8 and 65536 addresses.                   *)
EXTENDS ReadCoalescer

Target(unit, type, start, quantity) ==
    [unit |-> unit, type |-> type, start |-> start, quantity |-> quantity]

Coil == 0
Holding == 2
Limits == Coil :> 5 @@ Holding :> 4

\* Favorites of one or two registers and a longer range, and other groups.
Scattered ==
    {Target(1, Holding, a, n) : a \in {0, 1, 3, 4, 6, 9, 10}, n \in {1, 2, 6}}
        \cup {Target(1, Coil, 0, 6), Target(1, Coil, 8, 1), Target(2, Holding, 1, 2)}
=============================================================================
