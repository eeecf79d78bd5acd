------------------------------ MODULE Messages ------------------------------
(***************************************************************************)
(* The messages of the load balancer's stubs (load_balancer/Messages.cpp): *)
(* each class is a fixed list of ints, which Marshal writes into a buffer  *)
(* one after the other in network byte order and Unmarshal reads back.     *)
(***************************************************************************)
EXTENDS Integers, Sequences

Byte == 0 .. 255

\* int: 32 bits, two's complement.
Int32 == {x \in Int : -2147483647 - 1 <= x /\ x <= 2147483647}

CustomerRequest == [customer_id : Int32, order_number : Int32, request_type : Int32]
RobotInfo == [customer_id  : Int32, order_number : Int32, request_type : Int32,
              engineer_id  : Int32, admin_id     : Int32]
CustomerRecord == [customer_id : Int32, last_order : Int32]

\* The members of each class in the order in which they are marshalled.
RequestInts(r) == <<r.customer_id, r.order_number, r.request_type>>
InfoInts(r) == <<r.customer_id, r.order_number, r.request_type, r.engineer_id, r.admin_id>>
RecordInts(r) == <<r.customer_id, r.last_order>>

\* The object of each class that has the members s.
RequestOf(s) == [customer_id |-> s[1], order_number |-> s[2], request_type |-> s[3]]
InfoOf(s) == [customer_id |-> s[1], order_number |-> s[2], request_type |-> s[3],
              engineer_id |-> s[4], admin_id     |-> s[5]]
RecordOf(s) == [customer_id |-> s[1], last_order |-> s[2]]

\* What the constructors make, and what a call that failed returns.
NoRequest == RequestOf(<<-1, -1, -1>>)
NoInfo == InfoOf(<<-1, -1, -1, -1, -1>>)
NoRecord == RecordOf(<<-1, -1>>)

\* IsValid of CustomerRequest and RobotInfo.
IsValid(r) == r.customer_id # -1

\* Slips in Size: the last member of RobotInfo is forgotten; members of 8 bytes.
SizeButLast(ints) == 4 * (IF ints = 5 THEN 4 ELSE ints)
LongSize(ints) == 8 * ints

\* Size of a class with so many members, in bytes.
Size(ints) == 4 * ints

\* htonl: the bytes of x, the most significant one first.
Htonl(x) == <<(x \div 16777216) % 256, (x \div 65536) % 256, (x \div 256) % 256, x % 256>>

\* ntohl of the four bytes of b that follow the first `offset`.
Ntohl(b, offset) ==
    LET high == b[offset + 1]
    IN  ((IF high > 127 THEN high - 256 ELSE high) * 16777216)
            + (b[offset + 2] * 65536) + (b[offset + 3] * 256) + b[offset + 4]

\* Marshal: byte k of the buffer belongs to member (k - 1) \div 4 + 1.
Marshal(s) == [k \in 1 .. 4 * Len(s) |-> Htonl(s[((k - 1) \div 4) + 1])[((k - 1) % 4) + 1]]

\* Unmarshal, for a class with so many members.
Unmarshal(b, ints) == [i \in 1 .. ints |-> Ntohl(b, 4 * (i - 1))]

=============================================================================
