------------------------------- MODULE Stream -------------------------------
(***************************************************************************)
(* Socket.cpp, and the stubs of the load balancer that use it: a client    *)
(* stub (ClientStub::Order, ReadRecord) calls a server stub (ServerStub::  *)
(* ReceiveRequest, ShipRobot, ReturnRecord) over a connection, which may   *)
(* deliver what is sent in pieces and may break.                           *)
(*                                                                         *)
(* The threads of the load balancer use the struct_ functions instead,     *)
(* which call send and recv once: see the slip RecvOnce.                   *)
(***************************************************************************)
EXTENDS Messages, SequencesExt

CONSTANTS
    Calls,      \* the requests of the client stub, one after the other
    Engineer,   \* what the server puts in its answers besides the request
    Expert,
    LastOrder

\* Customers are numbered from 0 or 3000 on (Client.cpp:56, 75); an object with the id -1
\* stands for none.
ASSUME CallsAssumption ==
    Calls \in Seq(CustomerRequest) \ {<<>>} /\ \A i \in DOMAIN Calls : IsValid(Calls[i])
ASSUME AnswersAssumption == {Engineer, Expert, LastOrder} \subseteq Int32

VARIABLES
    pc,       \* where each end is: in Socket::Send, in Socket::Recv, or done
    buffer,   \* char buffer[32] of each end
    offset,   \* how far its loop is
    size,     \* how many bytes are left to its loop
    pipe,     \* the bytes each end has sent and the other has not received
    link,     \* the connection is there
    open,     \* each end has not closed its socket
    request,  \* what ReceiveRequest made of the request that is answered
    returned, \* what Order and ReadRecord returned
    served    \* what ReceiveRequest returned

vars == <<pc, buffer, offset, size, pipe, link, open, request, returned, served>>

End == {"client", "server"}
Other(e) == IF e = "client" THEN "server" ELSE "client"

BufferSize == 32
Answer == RobotInfo \cup CustomerRecord

TypeOK ==
    /\ pc \in [End -> {"send", "recv", "done"}]
    /\ buffer \in [End -> [1 .. BufferSize -> Byte]]
    /\ offset \in [End -> 0 .. BufferSize]
    /\ size \in [End -> 0 .. BufferSize]
    /\ \A e \in End : offset[e] + size[e] <= BufferSize
    /\ pipe \in [End -> Seq(Byte)]
    /\ link \in BOOLEAN
    /\ open \in [End -> BOOLEAN]
    /\ request \in CustomerRequest
    /\ returned \in Seq(Answer)
    /\ served \in Seq(CustomerRequest)

\* Order is for request_type 1, ReadRecord for 2.
IsOrder(r) == r.request_type = 1

\* RobotInfo::CopyOrder and SetInfo; CustomerRecord.
AnswerInts(r) ==
    IF IsOrder(r)
    THEN <<r.customer_id, r.order_number, r.request_type, Engineer, Expert>>
    ELSE <<r.customer_id, LastOrder>>

\* How many ints the answer to r has.
AnswerLength(r) == IF IsOrder(r) THEN 5 ELSE 2

\* The object that Order or ReadRecord makes of these ints.
AnswerOf(r, ints) == IF IsOrder(r) THEN InfoOf(ints) ELSE RecordOf(ints)

\* What the caller of Order or ReadRecord gets if it fails.
NoAnswer(r) == IF IsOrder(r) THEN NoInfo ELSE NoRecord

\* A buffer whose first bytes are b.
Fill(old, b) == [k \in 1 .. BufferSize |-> IF k <= Len(b) THEN b[k] ELSE old[k]]

\* The call that is under way.
Call == Calls[Len(returned) + 1]

-----------------------------------------------------------------------------

\* End e enters the loop of Send with the message of these ints in its buffer.
StartSend(e, ints) ==
    /\ pc' = [pc EXCEPT ![e] = "send"]
    /\ buffer' = [buffer EXCEPT ![e] = Fill(@, Marshal(ints))]
    /\ offset' = [offset EXCEPT ![e] = 0]
    /\ size' = [size EXCEPT ![e] = Size(Len(ints))]

\* End e enters the loop of Recv for a message of so many ints.
StartRecv(e, ints) ==
    /\ pc' = [pc EXCEPT ![e] = "recv"]
    /\ offset' = [offset EXCEPT ![e] = 0]
    /\ size' = [size EXCEPT ![e] = Size(ints)]
    /\ UNCHANGED buffer

\* One turn of the loop of Send: k bytes are written.  Without a connection they
\* are lost, if send does not fail.
Send(e) ==
    /\ pc[e] = "send"
    /\ open[e]
    /\ \E k \in 1 .. size[e] :
          /\ pipe' = IF link
                     THEN [pipe EXCEPT ![e] =
                              @ \o SubSeq(buffer[e], offset[e] + 1, offset[e] + k)]
                     ELSE pipe
          /\ size' = [size EXCEPT ![e] = @ - k]
          /\ offset' = [offset EXCEPT ![e] = @ + k]
    /\ UNCHANGED <<pc, buffer, link, open, request, returned, served>>

\* Slip, and the way of struct_receive_request and its like: one call of recv,
\* whatever it returns.
RecvOnce(e, k) == size' = [size EXCEPT ![e] = 0]

\* What is left for the loop of Recv to read.
RecvRest(e, k) == size' = [size EXCEPT ![e] = @ - k]

\* One turn of the loop of Recv: k bytes are read.
Recv(e) ==
    LET from == Other(e)
    IN  /\ pc[e] = "recv"
        /\ open[e]
        /\ \E k \in 1 .. size[e] :
              /\ k <= Len(pipe[from])
              /\ buffer' = [buffer EXCEPT ![e] =
                               [i \in 1 .. BufferSize |->
                                   IF i - offset[e] \in 1 .. k
                                   THEN pipe[from][i - offset[e]] ELSE @[i]]]
              /\ pipe' = [pipe EXCEPT ![from] = SubSeq(@, k + 1, Len(@))]
              /\ offset' = [offset EXCEPT ![e] = @ + k]
              /\ RecvRest(e, k)
        /\ UNCHANGED <<pc, link, open, request, returned, served>>

\* The client's loop of Send is through: it receives the answer.
ClientSent ==
    /\ pc["client"] = "send"
    /\ size["client"] = 0
    /\ StartRecv("client", AnswerLength(Call))
    /\ UNCHANGED <<pipe, link, open, request, returned, served>>

\* Order or ReadRecord returns `answer`; the caller goes on to its next call.
Return(answer) ==
    /\ returned' = Append(returned, answer)
    /\ IF Len(returned) + 1 < Len(Calls)
       THEN StartSend("client", RequestInts(Calls[Len(returned) + 2]))
       ELSE /\ pc' = [pc EXCEPT !["client"] = "done"]
            /\ UNCHANGED <<buffer, offset, size>>
    /\ UNCHANGED <<pipe, request, served>>

\* The client's loop of Recv is through.
ClientReceived ==
    /\ pc["client"] = "recv"
    /\ size["client"] = 0
    /\ Return(AnswerOf(Call, Unmarshal(buffer["client"], AnswerLength(Call))))
    /\ UNCHANGED <<link, open>>

\* The server's loop of Recv is through: ReceiveRequest returns, and the answer
\* is sent.
ServerReceived ==
    LET r == RequestOf(Unmarshal(buffer["server"], 3))
    IN  /\ pc["server"] = "recv"
        /\ size["server"] = 0
        /\ request' = r
        /\ served' = Append(served, r)
        /\ StartSend("server", AnswerInts(r))
        /\ UNCHANGED <<pipe, link, open, returned>>

\* The server's loop of Send is through: it waits for the next request.
ServerSent ==
    /\ pc["server"] = "send"
    /\ size["server"] = 0
    /\ StartRecv("server", 3)
    /\ UNCHANGED <<pipe, link, open, request, returned, served>>

\* Slip: a recv that returns 0 is tried again.
FailsOnSend(e) == size[e] > 0 /\ pc[e] = "send" /\ ~(open[e] /\ link)

\* send or recv of e returns -1, or recv returns 0.
Fails(e) ==
    /\ size[e] > 0
    /\ \/ pc[e] \in {"send", "recv"} /\ ~open[e]
       \/ pc[e] = "send" /\ ~link
       \/ pc[e] = "recv" /\ ~link /\ pipe[Other(e)] = <<>>

\* Socket::Close.
Close(e) ==
    /\ open' = [open EXCEPT ![e] = FALSE]
    /\ link' = FALSE

\* Send or Recv closes the socket and returns 0, and the client stub returns an
\* object that is not valid.
ClientFails ==
    /\ Fails("client")
    /\ Close("client")
    /\ Return(NoAnswer(Call))

\* The same at the server, whose thread ends.
ServerFails ==
    /\ Fails("server")
    /\ Close("server")
    /\ served' = IF pc["server"] = "recv" THEN Append(served, NoRequest) ELSE served
    /\ pc' = [pc EXCEPT !["server"] = "done"]
    /\ UNCHANGED <<buffer, offset, size, pipe, request, returned>>

\* send is called without MSG_NOSIGNAL: on a connection that has broken it may
\* end the process.  The client's process ends after its last call, too.
Ends(e) ==
    /\ \/ pc[e] = "send" /\ open[e] /\ ~link /\ size[e] > 0
       \/ pc[e] = "done" /\ open[e]
    /\ Close(e)
    /\ pc' = [pc EXCEPT ![e] = "done"]
    /\ UNCHANGED <<buffer, offset, size, pipe, request, returned, served>>

\* The connection breaks.  What each end had sent may be lost from some byte on.
Break ==
    /\ link
    /\ link' = FALSE
    /\ \E k \in 0 .. Len(pipe["client"]), j \in 0 .. Len(pipe["server"]) :
          pipe' = [pipe EXCEPT !["client"] = SubSeq(@, 1, k), !["server"] = SubSeq(@, 1, j)]
    /\ UNCHANGED <<pc, buffer, offset, size, open, request, returned, served>>

-----------------------------------------------------------------------------

Init ==
    /\ pc = [e \in End |-> IF e = "client" THEN "send" ELSE "recv"]
    /\ buffer = [e \in End |-> Fill([k \in 1 .. BufferSize |-> 0],
                    IF e = "client" THEN Marshal(RequestInts(Calls[1])) ELSE <<>>)]
    /\ offset = [e \in End |-> 0]
    /\ size = [e \in End |-> Size(3)]
    /\ pipe = [e \in End |-> <<>>]
    /\ link = TRUE
    /\ open = [e \in End |-> TRUE]
    /\ request = NoRequest
    /\ returned = <<>>
    /\ served = <<>>

Client ==
    \/ Send("client")
    \/ Recv("client")
    \/ ClientSent
    \/ ClientReceived
    \/ ClientFails
    \/ Ends("client")

Server ==
    \/ Send("server")
    \/ Recv("server")
    \/ ServerSent
    \/ ServerReceived
    \/ ServerFails
    \/ Ends("server")

Next == Client \/ Server \/ Break

\* Neither end waits for anything but the other, and the network delivers.
Spec == Init /\ [][Next]_vars /\ WF_vars(Client) /\ WF_vars(Server)

-----------------------------------------------------------------------------
(***************************************************************************)
(* Properties.                                                             *)
(***************************************************************************)

\* The answer of the server to r.
RightAnswer(r) == AnswerOf(r, AnswerInts(r))

\* A call returns the whole answer to its own request or an object that is not
\* valid (Messages.cpp:55, 145), never a piece of an answer, bytes of two of
\* them, or an answer to another call; after a failure there are no answers.
WholeAnswers ==
    \A i \in 1 .. Len(returned) :
        \/ /\ returned[i] = RightAnswer(Calls[i])
           /\ \A j \in 1 .. i : returned[j] # NoAnswer(Calls[j])
        \/ returned[i] = NoAnswer(Calls[i])

\* The server gets the client's requests, whole and in order, and at the end
\* one that is not valid at most: it never acts on a piece of one.
WholeRequests ==
    \A i \in 1 .. Len(served) :
        \/ i <= Len(Calls) /\ served[i] = Calls[i]
        \/ i = Len(served) /\ served[i] = NoRequest

\* Every call returns or its process ends, and then the server's thread ends:
\* the ends never wait for each other, whatever pieces the messages come in and
\* wherever the connection breaks.
BothEnd == <>(pc["client"] = "done" /\ pc["server"] = "done")

=============================================================================
