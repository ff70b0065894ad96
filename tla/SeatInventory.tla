--------------------------- MODULE SeatInventory ---------------------------
(***************************************************************************)
(* What the booking services promise about the seats of one departure,     *)
(* without rows, payments or handlers: an order holds seats once, its sale *)
(* may be settled, and its seats come back at most once, for good.         *)
(***************************************************************************)
EXTENDS Naturals

CONSTANTS
    Bookings,   \* orders that may be placed
    Capacity,   \* seats of the departure
    MaxParty    \* the most seats one order holds

VARIABLES
    free,       \* seats on sale
    phase,      \* "new", "held", "sold" or "gone" for each order
    party       \* the seats each order took

vars == <<free, phase, party>>

Init ==
    /\ free = Capacity
    /\ phase = [b \in Bookings |-> "new"]
    /\ party = [b \in Bookings |-> 0]

\* The order takes n seats that are on sale.
Hold(b, n) ==
    /\ phase[b] = "new"
    /\ free >= n
    /\ free' = free - n
    /\ phase' = [phase EXCEPT ![b] = "held"]
    /\ party' = [party EXCEPT ![b] = n]

\* The order is paid.
Settle(b) ==
    /\ phase[b] = "held"
    /\ phase' = [phase EXCEPT ![b] = "sold"]
    /\ UNCHANGED <<free, party>>

\* The order is over, and the seats it took are on sale again.
GiveBack(b) ==
    /\ phase[b] \in {"held", "sold"}
    /\ free' = free + party[b]
    /\ phase' = [phase EXCEPT ![b] = "gone"]
    /\ UNCHANGED party

Next ==
    \E b \in Bookings :
        \/ \E n \in 1..MaxParty : Hold(b, n)
        \/ Settle(b)
        \/ GiveBack(b)

Spec == Init /\ [][Next]_vars
=============================================================================
