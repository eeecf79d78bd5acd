---------------------------- MODULE LoadBalancer ----------------------------
(***************************************************************************)
(* The load balancer (load_balancer/ServerThread.cpp).  One thread per     *)
(* customer session forwards orders to the master and reads to a worker    *)
(* node; the heartbeat thread finds out which servers are dead.  The       *)
(* servers are only alive or not here: Replication.tla is about what they  *)
(* do, and keeps of the load balancer what they can notice.                *)
(*                                                                         *)
(* A connection is "open"; "cut" once the server has died, until something *)
(* is sent on it; "dead" when the next send fails.                         *)
(***************************************************************************)
EXTENDS Integers, FiniteSets

CONSTANTS
    Size,         \* worker_node_map_size; the servers have the ids 0 .. Size - 1
    Session,      \* the customer sessions there can be at a time
    Null,         \* a NULL ClientStub pointer; no connection; no server
    MaxRestart    \* bound: restarts of servers

ASSUME SizeAssumption == Size \in Nat \ {0}
ASSUME MaxRestartAssumption == MaxRestart \in Nat

Node == 0 .. Size - 1
Link == {"open", "cut", "dead"}
Conn == [node : Node, link : Link]

ASSUME NullAssumption == Null \notin Conn /\ Null \notin Node

VARIABLES
    up,                    \* the server process runs
    balancer,              \* the load balancer's process runs
    node_health,
    master_node_id,
    current_worker_node,
    heartbeat,             \* HertBeatHandler: the node it asks next, Null at first
    hb_worker_node_array,  \* its connections
    pc,                    \* where the thread of each session is
    master_node,           \* its connections, or Null
    cs,
    answer,                \* what the customer was last told: "fine" is what it asked for
    restarts               \* counter for the bound

nodeVars == <<up, restarts>>
hbVars == <<heartbeat, hb_worker_node_array, node_health>>
choiceVars == <<master_node_id, current_worker_node>>
sessionVars == <<pc, master_node, cs, answer>>
vars == <<nodeVars, hbVars, choiceVars, sessionVars, balancer>>

TypeOK ==
    /\ up \in [Node -> BOOLEAN]
    /\ balancer \in BOOLEAN
    /\ node_health \in [Node -> BOOLEAN]
    /\ master_node_id \in Node
    /\ current_worker_node \in Node
    /\ heartbeat \in Node \cup {Null}
    /\ hb_worker_node_array \in [Node -> Link]
    /\ pc \in [Session -> {"new", "connect", "worker", "serve", "refused"}]
    /\ master_node \in [Session -> Conn \cup {Null}]
    /\ cs \in [Session -> Conn \cup {Null}]
    /\ answer \in [Session -> {"fine", "garbage", "negative"}]
    /\ restarts \in 0 .. MaxRestart

\* All servers run when the load balancer starts.
Init ==
    /\ up = [n \in Node |-> TRUE]
    /\ balancer = TRUE
    /\ node_health = [n \in Node |-> TRUE]
    /\ master_node_id = 0
    /\ current_worker_node = 0
    /\ heartbeat = Null
    /\ hb_worker_node_array = [n \in Node |-> "dead"]
    /\ pc = [s \in Session |-> "new"]
    /\ master_node = [s \in Session |-> Null]
    /\ cs = [s \in Session |-> Null]
    /\ answer = [s \in Session |-> "fine"]
    /\ restarts = 0

\* Slip: the last server is never looked at.
HealthyButLast == {n \in 0 .. Size - 2 : node_health[n]}

Healthy == {n \in Node : node_health[n]}
First(S) == CHOOSE n \in S : \A m \in S : n <= m

\* ClientStub::Init; nobody looks at what it returns.
Connected(n) == [node |-> n, link |-> IF up[n] THEN "open" ELSE "dead"]

\* Slip: no wrap at the end of the map.
NoWrap(n) == n + 1

\* current_worker_node++, and the wrap.
NextWorker(n) == IF n + 1 = Size THEN 0 ELSE n + 1

-----------------------------------------------------------------------------
(***************************************************************************)
(* LoadBalancerThread, one per accepted connection.                        *)
(***************************************************************************)

\* get_master_node under erq_lock: a dead master is replaced by the first
\* healthy server, or by NULL if there is none.
GetMaster(s) ==
    /\ balancer
    /\ pc[s] = "new"
    /\ \/ /\ node_health[master_node_id]
          /\ pc' = [pc EXCEPT ![s] = "connect"]
          /\ UNCHANGED <<master_node_id, master_node>>
       \/ /\ ~node_health[master_node_id]
          /\ pc' = [pc EXCEPT ![s] = "worker"]
          /\ IF Healthy = {}
             THEN UNCHANGED <<master_node_id, master_node>>
             ELSE /\ master_node_id' = First(Healthy)
                  /\ master_node' = [master_node EXCEPT ![s] = Connected(First(Healthy))]
    /\ UNCHANGED <<nodeVars, hbVars, current_worker_node, cs, answer, balancer>>

\* The rest of get_master_node for a healthy master: master_node_id is read
\* again after the lock was released.
ConnectMaster(s) ==
    /\ balancer
    /\ pc[s] = "connect"
    /\ master_node' = [master_node EXCEPT ![s] = Connected(master_node_id)]
    /\ pc' = [pc EXCEPT ![s] = "worker"]
    /\ UNCHANGED <<nodeVars, hbVars, choiceVars, cs, answer, balancer>>

\* The choice of a worker node, under erq_lock.  The loop that replaces a dead
\* one sets cs to NULL at each dead server on its way, and calls Init through
\* it at the first healthy one: that is server 0, or the process ends.
PickWorker(s) ==
    /\ balancer
    /\ pc[s] = "worker"
    /\ \/ /\ node_health[current_worker_node]
          /\ cs' = [cs EXCEPT ![s] = Connected(current_worker_node)]
          /\ current_worker_node' = NextWorker(current_worker_node)
          /\ pc' = [pc EXCEPT ![s] = "serve"]
          /\ UNCHANGED <<answer, balancer>>
       \/ /\ ~node_health[current_worker_node]
          /\ UNCHANGED current_worker_node
          /\ \/ /\ node_health[0]
                /\ cs' = [cs EXCEPT ![s] = Connected(0)]
                /\ pc' = [pc EXCEPT ![s] = "serve"]
                /\ UNCHANGED <<answer, balancer>>
             \/ /\ ~node_health[0]
                /\ Healthy # {}
                /\ balancer' = FALSE
                /\ UNCHANGED <<pc, cs, answer>>
             \/ /\ Healthy = {}
                /\ pc' = [pc EXCEPT ![s] = "refused"]
                /\ answer' = [answer EXCEPT ![s] = "negative"]
                /\ UNCHANGED <<cs, balancer>>
    /\ UNCHANGED <<nodeVars, hbVars, master_node_id, master_node>>

\* A request on a connection: a dead server's recv returns 0 once, and what was
\* to be received is what memory held; later the send fails and is ignored.
AnswerOn(conn) == IF conn.link = "open" THEN "fine" ELSE "garbage"

\* Slip: a connection that has failed is made again.
ConnectsAgain(conn) == IF conn.link = "cut" THEN Connected(conn.node) ELSE conn

\* The connection after the request.
AfterUse(conn) == IF conn.link = "cut" THEN [conn EXCEPT !.link = "dead"] ELSE conn

\* request_type 1: CreateRobot and struct_ship_Robot.
Order(s) ==
    /\ balancer
    /\ pc[s] = "serve"
    /\ IF master_node[s] = Null
       THEN /\ answer' = [answer EXCEPT ![s] = "negative"]
            /\ UNCHANGED master_node
       ELSE /\ answer' = [answer EXCEPT ![s] = AnswerOn(master_node[s])]
            /\ master_node' = [master_node EXCEPT ![s] = AfterUse(@)]
    /\ UNCHANGED <<nodeVars, hbVars, choiceVars, pc, cs, balancer>>

\* request_type 2: ReadRecord.
Read(s) ==
    /\ balancer
    /\ pc[s] = "serve"
    /\ answer' = [answer EXCEPT ![s] = AnswerOn(cs[s])]
    /\ cs' = [cs EXCEPT ![s] = AfterUse(@)]
    /\ UNCHANGED <<nodeVars, hbVars, choiceVars, pc, master_node, balancer>>

\* The customer closes its connection: both stubs are closed, also through NULL.
\* The thread ends, and another customer's session may take its place.
Leave(s) ==
    /\ balancer
    /\ pc[s] = "serve"
    /\ balancer' = (master_node[s] # Null)
    /\ pc' = [pc EXCEPT ![s] = "new"]
    /\ master_node' = [master_node EXCEPT ![s] = Null]
    /\ cs' = [cs EXCEPT ![s] = Null]
    /\ answer' = [answer EXCEPT ![s] = "fine"]
    /\ UNCHANGED <<nodeVars, hbVars, choiceVars>>

-----------------------------------------------------------------------------
(***************************************************************************)
(* HertBeatHandler, and the servers it watches.                            *)
(***************************************************************************)

\* One connection to each server, made once.
HeartBeatInit ==
    /\ balancer
    /\ heartbeat = Null
    /\ heartbeat' = 0
    /\ hb_worker_node_array' = [n \in Node |-> IF up[n] THEN "open" ELSE "dead"]
    /\ node_health' = [n \in Node |-> TRUE]
    /\ UNCHANGED <<nodeVars, choiceVars, sessionVars, balancer>>

\* Slips in what a heartbeat makes of the connection: a failed send goes
\* unnoticed; a slow answer counts as none; a failed connection is made again.
SendIgnored(n) == {TRUE}
BusyIsDead(n) == IF hb_worker_node_array[n] = "open" THEN BOOLEAN ELSE {FALSE}
Reconnects(n) == IF up[n] THEN {TRUE} ELSE {FALSE}

\* What struct_read_record may say of the health of n.  On a cut connection the
\* send still succeeds; the recv returns 0, which is not taken for an error,
\* unless the connection was reset before.
Health(n) ==
    CASE hb_worker_node_array[n] = "open" -> {TRUE}
      [] hb_worker_node_array[n] = "cut" -> BOOLEAN
      [] hb_worker_node_array[n] = "dead" -> {FALSE}

\* One turn of the loop.
HeartBeat ==
    /\ balancer
    /\ heartbeat # Null
    /\ \E healthy \in Health(heartbeat) :
          node_health' = [node_health EXCEPT ![heartbeat] = healthy]
    /\ hb_worker_node_array' = [hb_worker_node_array EXCEPT ![heartbeat] =
                                   IF @ = "cut" THEN "dead" ELSE @]
    /\ heartbeat' = (heartbeat + 1) % Size
    /\ UNCHANGED <<nodeVars, choiceVars, sessionVars, balancer>>

\* A server dies, and every connection to it is cut.
Cut(conn, n) ==
    IF conn # Null /\ conn.node = n /\ conn.link = "open"
    THEN [conn EXCEPT !.link = "cut"] ELSE conn

NodeDies(n) ==
    /\ up[n]
    /\ up' = [up EXCEPT ![n] = FALSE]
    /\ hb_worker_node_array' = [hb_worker_node_array EXCEPT ![n] =
                                   IF @ = "open" THEN "cut" ELSE @]
    /\ master_node' = [s \in Session |-> Cut(master_node[s], n)]
    /\ cs' = [s \in Session |-> Cut(cs[s], n)]
    /\ UNCHANGED <<restarts, heartbeat, node_health, choiceVars, pc, answer, balancer>>

\* A server is started again.  Assumed, and by nothing in the code enforced: this
\* takes longer than its death takes to be noticed, and than a session takes from the
\* check of the master to connect.
NodeRestarts(n) ==
    /\ ~up[n]
    /\ ~node_health[n]
    /\ \A s \in Session : pc[s] # "connect"
    /\ restarts < MaxRestart
    /\ restarts' = restarts + 1
    /\ up' = [up EXCEPT ![n] = TRUE]
    /\ UNCHANGED <<hbVars, choiceVars, sessionVars, balancer>>

Next ==
    \/ \E s \in Session : GetMaster(s)
    \/ \E s \in Session : ConnectMaster(s)
    \/ \E s \in Session : PickWorker(s)
    \/ \E s \in Session : Order(s)
    \/ \E s \in Session : Read(s)
    \/ \E s \in Session : Leave(s)
    \/ HeartBeatInit
    \/ HeartBeat
    \/ \E n \in Node : NodeDies(n)
    \/ \E n \in Node : NodeRestarts(n)

Spec == Init /\ [][Next]_vars

-----------------------------------------------------------------------------
(***************************************************************************)
(* Properties.                                                             *)
(***************************************************************************)

\* The orders of s reach a server.
Ordering(s) == pc[s] = "serve" /\ master_node[s] # Null /\ master_node[s].link = "open"

\* All sessions that reach a server with their orders reach the same one,
\* although each keeps the connection it opened before the master changed and
\* master_node_id is read outside the lock (ServerThread.cpp:33-57): the
\* servers have no other protection against two primaries.  This rests on NodeRestarts
\* waiting until the death was noticed: of two sessions with a server that is started
\* again sooner, one can be opened with it and the other, after the next heartbeat,
\* with its successor.
OneMaster ==
    \A s, t \in Session :
        Ordering(s) /\ Ordering(t) => master_node[s].node = master_node[t].node

\* A server that has been replaced never becomes master again, restarted or
\* not: what it missed in the meantime would be lost (ServerThread.cpp:36-46).
MasterNeverReturns == [][master_node_id <= master_node_id']_vars

\* A customer is told that there is no server (ServerThread.cpp:88-94, 121-127)
\* only when the heartbeat has found all of them dead.
NegativeIsHonest ==
    \A s \in Session : answer[s] = "negative" => \A n \in Node : ~node_health[n]

\* The death of a server does not go unnoticed, although the heartbeat that
\* first meets a closed connection may find the server healthy
\* (ServerThread.cpp:165-180, ClientStub.cpp:73-83): again and again there is
\* none that has not been noticed.  No server is started again before it is.
DeathIsNoticed == []<>(balancer => \A n \in Node : up[n] \/ ~node_health[n])

\* "no active worker node could be selected" (ServerThread.cpp:89): a session
\* goes without a worker node only if there is none.
NoWorkerMeansNone == ~balancer => Healthy = {}

=============================================================================
