------------------------------ MODULE MCClient ------------------------------
(***************************************************************************)
(* Client for TLC.                                                         *)
(***************************************************************************)
EXTENDS Client

\* Every request takes another time, and those of different customers overlap.
Times == [c \in Session |-> [i \in 1 .. Orders |-> 1 + ((2 * i + 3 * c) % 7)]]

=============================================================================
