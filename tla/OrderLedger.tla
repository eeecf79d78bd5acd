---------------------------- MODULE OrderLedger -----------------------------
(***************************************************************************)
(* What the robot factories promise to their customers together: one       *)
(* ledger of orders, to which orders are only added at the end, and in     *)
(* which every order whose robot was shipped can be found for as long as   *)
(* any server that has never failed is there to keep it.                   *)
(***************************************************************************)
EXTENDS Naturals, Sequences

CONSTANTS
    Order     \* the orders customers can place

VARIABLES
    ledger,   \* the orders the service has taken, oldest first
    acked,    \* the orders whose robot was shipped
    serving   \* a server is left

vars == <<ledger, acked, serving>>

Init ==
    /\ ledger = <<>>
    /\ acked = {}
    /\ serving = TRUE

\* An order is taken for good.
Take(o) ==
    /\ serving
    /\ ledger' = Append(ledger, o)
    /\ UNCHANGED <<acked, serving>>

\* Its robot is shipped.
Ship(o) ==
    /\ serving
    /\ \E i \in 1 .. Len(ledger) : ledger[i] = o
    /\ acked' = acked \cup {o}
    /\ UNCHANGED <<ledger, serving>>

\* The last server is gone.
Stop ==
    /\ serving
    /\ serving' = FALSE
    /\ ledger' = <<>>
    /\ UNCHANGED acked

Next ==
    \/ \E o \in Order : Take(o)
    \/ \E o \in Order : Ship(o)
    \/ Stop

Spec == Init /\ [][Next]_vars

=============================================================================
