------------------------------- MODULE Client -------------------------------
(***************************************************************************)
(* The client program (Client.cpp, ClientThread.cpp, ClientTimer.cpp)      *)
(* together with the load balancer it talks to: the main thread starts one *)
(* thread per customer, waits for all of them and adds up what they        *)
(* measured; each customer opens one session with the load balancer and    *)
(* sends its requests one after the other, each after the answer to the    *)
(* one before.                                                             *)
(*                                                                         *)
(* The load balancer's own steps are those of LoadBalancer; here they      *)
(* depend on what the customers send and fill what they receive.           *)
(***************************************************************************)
EXTENDS LoadBalancer, Sequences, SequencesExt

CONSTANTS
    Customers,    \* the customers of the client program; customer_id is 3000 + its number
    Orders,       \* the requests of each customer
    Elapsed       \* how long each request of each customer takes

ASSUME CustomersAssumption == Customers \in Nat \ {0} /\ Session = 0 .. Customers - 1
ASSUME OrdersAssumption == Orders \in Nat \ {0}

\* min of a timer that has measured nothing.
FarAway == 1000000000

ASSUME ElapsedAssumption == Elapsed \in [Session -> [1 .. Orders -> 0 .. FarAway - 1]]

VARIABLES
    request_type,   \* 1: orders; 2: reads; 3: one customer reads all records
    main,           \* where the main thread is, and the customer it is about
    thread,         \* where the thread of each customer is
    request,        \* what the customer has sent and the load balancer not yet read
    reply,          \* what it was sent and has not yet received
    results,        \* what came of its requests, one after the other
    timer,          \* the timer of each customer's thread
    total           \* the timer of the main thread

clientVars == <<request_type, main, thread, request, reply, results, timer, total>>
balancerVars == vars
allVars == <<vars, clientVars>>

\* A result: the answer of the load balancer with the number of the order, or
\* "nothing" if recv returned 0, or "error" if send or recv failed.
Answer == [what : {"fine", "garbage", "negative"}, number : 0 .. Orders]
Result == Answer \cup [what : {"nothing", "error"}, number : {0}]

Timer == [sum : Nat, op_count : Nat, min : 0 .. FarAway, max : 0 .. FarAway]
NewTimer == [sum |-> 0, op_count |-> 0, min |-> FarAway, max |-> 0]

ClientTypeOK ==
    /\ TypeOK
    /\ request_type \in 1 .. 3
    /\ main \in [pc : {"spawn", "join", "merge", "done"}, i : 0 .. Customers - 1]
    /\ thread \in [Session -> {"none", "connect", "send", "recv", "done"}]
    /\ request \in [Session -> Seq(1 .. Orders)]
    /\ reply \in [Session -> Seq(Answer)]
    /\ results \in [Session -> Seq(Result)]
    /\ timer \in [Session -> Timer]
    /\ total \in Timer

Smaller(a, b) == IF a < b THEN a ELSE b
Larger(a, b) == IF a > b THEN a ELSE b

\* ClientTimer::EndAndMerge.
EndAndMerge(t, elapsed) ==
    [sum      |-> t.sum + elapsed,
     op_count |-> t.op_count + 1,
     min      |-> Smaller(t.min, elapsed),
     max      |-> Larger(t.max, elapsed)]

\* ClientTimer::Merge.
Merge(t, all) ==
    [sum      |-> all.sum + t.sum,
     op_count |-> all.op_count + t.op_count,
     min      |-> Smaller(all.min, t.min),
     max      |-> Larger(all.max, t.max)]

-----------------------------------------------------------------------------
(***************************************************************************)
(* The main thread (Client::run).                                          *)
(***************************************************************************)

\* A request for all records is made by a single thread.
Workers == IF request_type = 3 THEN 1 ELSE Customers

\* Slip: the loops go one customer too far.
OnePastLast(after) ==
    main' = IF main.i < Workers THEN [main EXCEPT !.i = @ + 1] ELSE [pc |-> after, i |-> 0]

\* The main thread goes on to the next customer, or to the next loop.
NextCustomer(after) ==
    main' = IF main.i + 1 < Workers THEN [main EXCEPT !.i = @ + 1] ELSE [pc |-> after, i |-> 0]

Spawn ==
    /\ main.pc = "spawn"
    /\ thread' = [thread EXCEPT ![main.i] = "connect"]
    /\ NextCustomer("join")
    /\ UNCHANGED <<balancerVars, request_type, request, reply, results, timer, total>>

\* Slip: the main thread does not wait.
JoinsNobody(c) == thread[c] # "none"

\* join() of the thread of c returns.
Joinable(c) == thread[c] = "done"

Join ==
    /\ main.pc = "join"
    /\ Joinable(main.i)
    /\ NextCustomer(IF request_type = 3 THEN "done" ELSE "merge")
    /\ UNCHANGED <<balancerVars, request_type, thread, request, reply, results, timer, total>>

MergeTimers ==
    /\ main.pc = "merge"
    /\ total' = Merge(timer[main.i], total)
    /\ NextCustomer("done")
    /\ UNCHANGED <<balancerVars, request_type, thread, request, reply, results, timer>>

-----------------------------------------------------------------------------
(***************************************************************************)
(* A customer (Client_thread_body, print_record, ClientStub).              *)
(***************************************************************************)

\* ClientStub::Init.
ConnectToBalancer(c) ==
    /\ thread[c] = "connect"
    /\ thread' = [thread EXCEPT ![c] = IF balancer THEN "send" ELSE "done"]
    /\ UNCHANGED <<balancerVars, request_type, main, request, reply, results, timer, total>>

\* The request of c is over: it is timed unless it failed, or unless it is one
\* of those that read all records.
Counts(c, result) ==
    timer' = IF result.what = "error" \/ request_type = 3 THEN timer
             ELSE [timer EXCEPT ![c] = EndAndMerge(@, Elapsed[c][Len(results[c]) + 1])]

\* The end of one turn of the loop.  An order that failed ends the loop, a read
\* that failed does not.
EndOfRequest(c, result) ==
    /\ results' = [results EXCEPT ![c] = Append(@, result)]
    /\ Counts(c, result)
    /\ thread' = [thread EXCEPT ![c] =
                     IF \/ Len(results[c]) + 1 = Orders
                        \/ request_type = 1 /\ result.what = "error"
                     THEN "done" ELSE "send"]

Failed == [what |-> "error", number |-> 0]
NothingCame == [what |-> "nothing", number |-> 0]

\* ClientStub::Order and ReadRecord up to send.  After the load balancer has
\* died, the first send may still succeed.
Send(c) ==
    /\ thread[c] = "send"
    /\ \/ /\ thread' = [thread EXCEPT ![c] = "recv"]
          /\ request' = IF balancer
                        THEN [request EXCEPT ![c] = Append(@, Len(results[c]) + 1)]
                        ELSE request
          /\ UNCHANGED <<results, timer>>
       \/ /\ ~balancer
          /\ EndOfRequest(c, Failed)
          /\ UNCHANGED request
    /\ UNCHANGED <<balancerVars, request_type, main, reply, total>>

\* Slip: a connection that is closed looks like one on which nothing has come.
NeverHungUp(c) == FALSE

\* The connection of c has ended, and all that had been sent to c is received.
HungUp(c) == ~balancer /\ reply[c] = <<>>

\* The rest of Order and ReadRecord.  recv blocks while the connection is there;
\* when it has ended recv returns 0, which is taken for an answer, or fails.
Receive(c) ==
    /\ thread[c] = "recv"
    /\ \/ /\ reply[c] # <<>>
          /\ reply' = [reply EXCEPT ![c] = Tail(@)]
          /\ EndOfRequest(c, Head(reply[c]))
       \/ /\ HungUp(c)
          /\ \E result \in {NothingCame, Failed} : EndOfRequest(c, result)
          /\ UNCHANGED reply
    /\ UNCHANGED <<balancerVars, request_type, main, request, total>>

-----------------------------------------------------------------------------
(***************************************************************************)
(* The load balancer's side of the sessions.                               *)
(***************************************************************************)

Connection(c) == thread[c] \in {"send", "recv"}

unsent == <<request_type, main, thread, results, timer, total>>

\* The load balancer starts a thread for the connection of c, which chooses the
\* servers for it.  Without a worker node it sends c a record nobody asked for
\* and ends, and leaves the connection open.
Choose(c) ==
    /\ Connection(c)
    /\ GetMaster(c) \/ ConnectMaster(c) \/ PickWorker(c)
    /\ reply' = IF pc'[c] = "refused"
                THEN [reply EXCEPT ![c] = Append(@, [what |-> answer'[c], number |-> 0])]
                ELSE reply
    /\ UNCHANGED <<request, unsent>>

\* What is sent to c for the request that is read: the answer to an order has
\* the number of the order if it comes from a server.
AnswerTo(c) ==
    [what   |-> answer'[c],
     number |-> IF answer'[c] = "fine" THEN Head(request[c]) ELSE 0]

\* Slip: without the break of its case, an order is answered by a record as well.
FallsThrough(c) == IF request_type = 1 THEN <<AnswerTo(c), AnswerTo(c)>> ELSE <<AnswerTo(c)>>

\* The switch on request_type: one answer to each request.
Answers(c) == <<AnswerTo(c)>>

\* A request of c is read and answered.
Serve(c) ==
    /\ request[c] # <<>>
    /\ IF request_type = 1 THEN Order(c) ELSE Read(c)
    /\ request' = [request EXCEPT ![c] = Tail(@)]
    /\ reply' = [reply EXCEPT ![c] = @ \o Answers(c)]
    /\ UNCHANGED unsent

\* msg_peek returns 0 when c has closed its end and everything is read.
HangUp(c) ==
    /\ thread[c] = "done"
    /\ request[c] = <<>>
    /\ Leave(c)
    /\ UNCHANGED clientVars

SessionThread(c) == Choose(c) \/ Serve(c) \/ HangUp(c)

-----------------------------------------------------------------------------

ClientInit ==
    /\ Init
    /\ request_type \in 1 .. 3
    /\ main = [pc |-> "spawn", i |-> 0]
    /\ thread = [c \in Session |-> "none"]
    /\ request = [c \in Session |-> <<>>]
    /\ reply = [c \in Session |-> <<>>]
    /\ results = [c \in Session |-> <<>>]
    /\ timer = [c \in Session |-> NewTimer]
    /\ total = NewTimer

Main == Spawn \/ Join \/ MergeTimers
CustomerThread(c) == ConnectToBalancer(c) \/ Send(c) \/ Receive(c)
Watch == (HeartBeatInit \/ HeartBeat) /\ UNCHANGED clientVars

ClientNext ==
    \/ Main
    \/ \E c \in Session : CustomerThread(c)
    \/ \E c \in Session : SessionThread(c)
    \/ Watch
    \/ \E n \in Node : NodeDies(n) /\ UNCHANGED clientVars
    \/ \E n \in Node : NodeRestarts(n) /\ UNCHANGED clientVars

\* Every thread of both programs that can go on does so.
ClientFairness ==
    /\ WF_allVars(Main)
    /\ \A c \in Session : WF_allVars(CustomerThread(c)) /\ WF_allVars(SessionThread(c))
    /\ WF_allVars(Watch)

ClientSpec == ClientInit /\ [][ClientNext]_allVars /\ ClientFairness

-----------------------------------------------------------------------------
(***************************************************************************)
(* Properties.                                                             *)
(***************************************************************************)

\* The answer a customer takes for that to its i-th order is the answer to its
\* i-th order (ClientThread.cpp:35-42: it sends the next one as soon as
\* something has come), and nothing is left over: answers never get out of step
\* with requests.
AnswersInStep ==
    \A c \in Session :
        /\ \A i \in 1 .. Len(results[c]) : results[c][i].what = "fine" => results[c][i].number = i
        /\ Len(request[c]) + Len(reply[c]) <= 1 \/ pc[c] = "refused"

\* A connection that has failed once is of no use any more, on either side of
\* the load balancer: after an order for which no robot came, none comes, also
\* when its server is running again (ServerThread.cpp:108-137).  What the
\* customer counts as done beyond that is not.
FailedForGood ==
    \A c \in Session : \A i, j \in 1 .. Len(results[c]) :
        i < j /\ results[c][j].what = "fine" => results[c][i].what = "fine"

\* The requests of the customers in D that did not fail, and how long each took.
Timed(D) ==
    {x \in D \X (1 .. Orders) : x[2] <= Len(results[x[1]]) /\ results[x[1]][x[2]].what # "error"}
Took(x) == Elapsed[x[1]][x[2]]
TimeOf(requests) == MapThenSumSet(Took, requests)

\* A timer holds count, sum, least and greatest of these requests, each once.
Measures(t, requests) ==
    /\ t.op_count = Cardinality(requests)
    /\ t.sum = TimeOf(requests)
    /\ \A x \in requests : t.min <= Took(x) /\ Took(x) <= t.max
    /\ requests # {} => \E x, y \in requests : t.min = Took(x) /\ t.max = Took(y)

\* What the client prints (Client.cpp:88-108, ClientTimer.cpp) is about all the
\* requests of all customers that did not fail.  The timers are read without a
\* lock: all threads must have ended.
MetricsAreComplete ==
    main.pc = "done" /\ request_type # 3 => Measures(total, Timed(Session))

\* Whatever happens to the servers, and also when the load balancer itself ends,
\* every customer's thread ends, unless its session was refused: nobody closes
\* that (ServerThread.cpp:88-95), and the customer waits for the answer to its
\* next request.
OnlyRefusedHang ==
    <>(\A c \in Session : c < Workers => thread[c] = "done" \/ pc[c] = "refused")

=============================================================================
