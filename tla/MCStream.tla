------------------------------ MODULE MCStream ------------------------------
(***************************************************************************)
(* Stream for TLC.                                                         *)
(***************************************************************************)
EXTENDS Stream

\* An order, a read and an order, with ints whose bytes differ.
TwoKinds == <<[customer_id |-> 3000, order_number |-> 258, request_type |-> 1],
              [customer_id |-> 3001, order_number |-> -1, request_type |-> 2],
              [customer_id |-> 3000, order_number |-> 259, request_type |-> 1]>>

=============================================================================
