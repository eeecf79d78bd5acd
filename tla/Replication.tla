---------------------------- MODULE Replication -----------------------------
(***************************************************************************)
(* The robot factories (Server.cpp, ServerStub.h): servers that replicate  *)
(* a log of orders.  The server that the load balancer currently sends     *)
(* orders to is the production factory (PFA, the primary); its admin       *)
(* thread logs each order, sends it to every connected idle factory (IFA,  *)
(* a backup) in turn, waits for each acknowledgement, applies the order    *)
(* and lets the engineer thread ship the robot.                            *)
(*                                                                         *)
(* Indexes into smr_log are the code's: they start at 0, and -1 means that *)
(* there is no such entry.  smr_log[i] of the code is At(smr_log, i).      *)
(*                                                                         *)
(* mtx of one server is held by its admin thread from the moment it finds  *)
(* work until it waits on condition_var again, and by an ifa thread for    *)
(* the handling of one replication request, a recovery included.  Steps    *)
(* taken under mtx that touch nothing but the server itself are atomic.    *)
(***************************************************************************)
EXTENDS CommitLogOps

CONSTANTS
    Node,         \* the servers
    Customer,     \* the customers; each opens one session for orders
    Peers,        \* factories_record: for each server the others, in the order of its arguments
    LBOrder,      \* worker_nodes_map: the servers in the load balancer's order
    None,         \* no message, no request, no server
    CommitOnly,   \* the map_op of a request that only announces committed_index (arg1 = -1)
    Garbage,      \* a map_op that was never received: recv returned 0
    Mortal,       \* the servers that may crash
    MidBroadcast, \* FALSE: not while a request has reached some peers and not others
    PromptRestart,\* TRUE: a server may be started again before its death is noticed
    SlowReaders,  \* TRUE: a death may be noticed before all that was sent is read
    MaxOrders,    \* bound: orders of one customer
    MaxCrash,     \* bound: crashes
    MaxRestart    \* bound: restarts

ASSUME PeersAssumption == Peers \in [Node -> Seq(Node)]

\* Each server is given all the others when it is started (factories_record).
ASSUME MeshAssumption ==
    \A n \in Node : Range(Peers[n]) = Node \ {n} /\ IsInjective(Peers[n])

ASSUME LBOrderAssumption == LBOrder \in Seq(Node) \ {<<>>}
ASSUME BoundsAssumption ==
    MaxOrders \in Nat /\ MaxCrash \in Nat /\ MaxRestart \in Nat
ASSUME CrashAssumption ==
    /\ Mortal \subseteq Node /\ MidBroadcast \in BOOLEAN
    /\ PromptRestart \in BOOLEAN /\ SlowReaders \in BOOLEAN
ASSUME NoneAssumption == None \notin Node
ASSUME CustomerAssumption == None \notin Customer

\* map_op: the customer (arg1) and the number of its order (arg2).
Order == [arg1 : Customer, arg2 : 1 .. MaxOrders]
Entry == Order \cup {Garbage}

ASSUME OpAssumption == {CommitOnly, Garbage, Bad} \cap Order = {}
ASSUME OpsDiffer == CommitOnly # Garbage /\ Garbage # Bad /\ CommitOnly # Bad

VARIABLES
    up,                  \* the server process runs
    smr_log,             \* its log in memory
    last_index,          \* smr_repl_commit.last_index
    committed_index,     \* smr_repl_commit.committed_index
    customer_record,     \* for each customer its last applied order, 0 if none
    wal,                 \* clog and commit_<id>.log
    recheck_allow,       \* recheck_allow = 1
    admin_thread_list,   \* admin_thread_list and barrier_list
    admin,               \* the admin thread
    ifa,                 \* the ifa thread that has mtx, if any
    socket,              \* socket[p][b]: p's factories_record entry for b
    wire,                \* wire[p][b]: sent by the admin thread of p, not yet read by b
    reply,               \* reply[p][b]: sent by b, not yet read by p
    engineer,            \* the session of each customer and its engineer thread
    server,              \* the server each session was opened with
    ordered,             \* the number of each customer's last order
    acked,               \* the orders whose robot was shipped
    master_node_id,      \* the load balancer's master
    node_health,         \* its view of the servers
    hb_conn,             \* its heartbeat connection to each server still works
    crashes, restarts    \* counters for the bounds

logVars == <<smr_log, last_index, committed_index, customer_record, wal>>
threadVars == <<recheck_allow, admin_thread_list, admin, ifa>>
netVars == <<socket, wire, reply>>
clientVars == <<engineer, server, ordered, acked>>
lbVars == <<master_node_id, node_health, hb_conn>>
bounds == <<crashes, restarts>>
vars == <<up, logVars, threadVars, netVars, clientVars, lbVars, bounds>>

-----------------------------------------------------------------------------
(***************************************************************************)
(* Values.                                                                 *)
(***************************************************************************)

\* An index into smr_log, or -1.
Index == Nat \cup {-1}

\* robot_inf with its barrier: the order, or CommitOnly, and the engineer
\* thread of which customer waits for it.
Request == [op : Order \cup {CommitOnly}, eng : Customer]

ASSUME NoneIsNoRequest == None \notin Request

\* repl_req
ReplReq == [committed_index : Index, last_index : Index, op : Order \cup {CommitOnly}]

\* What travels from an admin thread to an ifa thread: requests, and the
\* entries of a recovery log.
Message == [kind : {"req"}, req : ReplReq] \cup [kind : {"op"}, op : Entry]

\* repl_ack; the commit_in that follows an is_success of 2 travels with it.
Ack == [is_success : {1, 2}, committed_index : Index]

\* An admin thread: "wait" on condition_var; "next" at the top of the loop with
\* work left in the list; "take" after the recheck; "send" at the top of the
\* loop over the peers still to do; "ack" and "reack" in GetReplicationAck.
AdminState ==
    [pc : {"wait", "next", "take"}, job : {None}, todo : {<<>>}]
        \cup [pc : {"send"}, job : Request, todo : Seq(Node)]
        \cup [pc : {"ack", "reack"}, job : Request, todo : Seq(Node) \ {<<>>}]

\* The ifa thread that has mtx: in initiate_recovery it reads ("read") and then
\* logs ("write") the entry with index i; "apply" is the end of ifa_thread_read.
IfaState == [from : Node, req : ReplReq, i : Nat, phase : {"read", "write", "apply"}]

ASSUME NoneIsNothingElse == None \notin IfaState /\ None \notin Ack

EngineerState ==
    {"new",       \* no session yet
     "idle",      \* connected; blocked in recv
     "waiting",   \* an order is in the admin thread's hands
     "ready",     \* its barrier was set: about to ship the robot
     "closing",   \* the customer hung up; the commit announcement is under way
     "released",  \* its barrier was set: about to close the socket
     "gone",      \* the session has ended
     "lost"}      \* its server died under it

TypeOK ==
    /\ up \in [Node -> BOOLEAN]
    /\ smr_log \in [Node -> Seq(Entry)]
    /\ last_index \in [Node -> Index]
    /\ committed_index \in [Node -> Index]
    /\ customer_record \in [Node -> [Customer -> 0 .. MaxOrders]]
    /\ wal \in [Node -> Wal(Entry)]
    /\ recheck_allow \in [Node -> BOOLEAN]
    /\ admin_thread_list \in [Node -> Seq(Request)]
    /\ admin \in [Node -> AdminState]
    /\ ifa \in [Node -> IfaState \cup {None}]
    /\ socket \in [Node -> [Node -> {"closed", "open", "broken"}]]
    /\ wire \in [Node -> [Node -> Seq(Message)]]
    /\ reply \in [Node -> [Node -> Ack \cup {None}]]
    /\ engineer \in [Customer -> EngineerState]
    /\ server \in [Customer -> Node \cup {None}]
    /\ ordered \in [Customer -> 0 .. MaxOrders]
    /\ acked \in SUBSET [arg1 : Customer, arg2 : Nat]
    /\ master_node_id \in Node
    /\ node_health \in [Node -> BOOLEAN]
    /\ hb_conn \in [Node -> BOOLEAN]
    /\ crashes \in Nat
    /\ restarts \in Nat

\* Slip: nobody looks for arg1 = -1.
AnnouncesNothing(op) == FALSE

\* arg1 = -1: the request only announces committed_index.
IsAnnouncement(op) == op = CommitOnly

\* The code's smr_log[i], and an index for which smr_log.at(i) does not throw.
At(log, i) == log[i + 1]
InRange(log, i) == 0 <= i /\ i < Len(log)

\* Slips in the insertion: one position too early; always at the end.
InsertEarly(log, i, e) ==
    IF log = <<>> THEN <<e>> ELSE SubSeq(log, 1, i - 1) \o <<e>> \o SubSeq(log, i, Len(log))
PushBack(log, i, e) == Append(log, e)

\* smr_log.insert(smr_log.begin() + i, e).  A position outside the vector is
\* undefined behaviour: the vector grows by an entry that was not written (or
\* the process dies, which is a Crash).
Insert(log, i, e) ==
    IF 0 <= i /\ i <= Len(log)
    THEN SubSeq(log, 1, i) \o <<e>> \o SubSeq(log, i + 1, Len(log))
    ELSE Append(log, Garbage)

\* Slip: map::insert, which leaves a customer that is there alone.
ApplyFirst(record, op) ==
    IF op = Garbage \/ record[op.arg1] > 0 THEN record
    ELSE [record EXCEPT ![op.arg1] = op.arg2]

\* customer_record[op.arg1] = op.arg2.  The customer id of a Garbage entry is
\* whatever the heap held: it is taken not to be one of the customers.
Apply(record, op) ==
    IF op = Garbage THEN record ELSE [record EXCEPT ![op.arg1] = op.arg2]

\* customer_record after the entries with indexes 0 .. n are applied in order.
Replay(log, n) ==
    [c \in Customer |->
        LET mine == {i \in 0 .. n : At(log, i) # Garbage /\ At(log, i).arg1 = c}
            last == {i \in mine : \A j \in mine : j <= i}
        IN  IF last = {} THEN 0 ELSE At(log, CHOOSE i \in last : TRUE).arg2]

\* The least number of a set, such as the position of the first of several.
Least(S) == CHOOSE i \in S : \A j \in S : i <= j

AdminWaits == [pc |-> "wait", job |-> None, todo |-> <<>>]

\* mtx of n is free.
MtxFree(n) == admin[n].pc = "wait" /\ ifa[n] = None

-----------------------------------------------------------------------------
(***************************************************************************)
(* The end of a server process.                                            *)
(***************************************************************************)

\* The process of n ends, its CommitLog being w: by a crash, or because an
\* exception (std::out_of_range of smr_log.at) leaves a thread and
\* std::terminate runs.  The memory, the log batch and the sockets are gone.
\* The message n was sending may be cut short, and what it had sent to others
\* as acknowledgements may or may not have left.
Die(n, w) ==
    /\ up' = [up EXCEPT ![n] = FALSE]
    /\ smr_log' = [smr_log EXCEPT ![n] = <<>>]
    /\ last_index' = [last_index EXCEPT ![n] = -1]
    /\ committed_index' = [committed_index EXCEPT ![n] = -1]
    /\ customer_record' = [customer_record EXCEPT ![n] = [c \in Customer |-> 0]]
    /\ wal' = [wal EXCEPT ![n] = Lost(w)]
    /\ recheck_allow' = [recheck_allow EXCEPT ![n] = TRUE]
    /\ admin_thread_list' = [admin_thread_list EXCEPT ![n] = <<>>]
    /\ admin' = [admin EXCEPT ![n] = AdminWaits]
    /\ ifa' = [ifa EXCEPT ![n] = None]
    /\ socket' = [p \in Node |-> [b \in Node |->
                    IF p = n THEN "closed"
                    ELSE IF b = n /\ socket[p][b] = "open" THEN "broken"
                    ELSE socket[p][b]]]
    /\ \E to \in Node : \E k \in 0 .. Len(wire[n][to]) :
          wire' = [p \in Node |-> [b \in Node |->
                    IF b = n THEN <<>>
                    ELSE IF p = n /\ b = to THEN SubSeq(wire[n][to], 1, k)
                    ELSE wire[p][b]]]
    /\ \E left \in BOOLEAN :
          reply' = [p \in Node |-> [b \in Node |->
                    IF p = n \/ (b = n /\ ~left) THEN None ELSE reply[p][b]]]
    /\ engineer' = [c \in Customer |->
                    IF server[c] = n /\ engineer[c] \notin {"new", "gone"}
                    THEN "lost" ELSE engineer[c]]
    /\ hb_conn' = [hb_conn EXCEPT ![n] = FALSE]
    /\ UNCHANGED <<server, ordered, acked, master_node_id, node_health>>

\* The admin thread of n has sent its request to a peer, but not to all of them.
Broadcasting(n) ==
    \/ admin[n].pc \in {"ack", "reack"}
    \/ admin[n].pc = "send" /\ admin[n].todo # <<>>

Crash(n) ==
    /\ up[n]
    /\ n \in Mortal
    /\ MidBroadcast \/ ~Broadcasting(n)
    /\ crashes < MaxCrash
    /\ crashes' = crashes + 1
    /\ Die(n, wal[n])
    /\ UNCHANGED restarts

-----------------------------------------------------------------------------
(***************************************************************************)
(* Customers' sessions and engineer threads.                               *)
(***************************************************************************)

\* RobotFactory::get_master_node: the server a session opened now gets for its
\* orders.  The master is replaced by the first healthy server once the heartbeat
\* has found it dead.
GetMasterNode ==
    LET healthy == {i \in 1 .. Len(LBOrder) : node_health[LBOrder[i]]}
    IN  IF node_health[master_node_id] \/ healthy = {}
        THEN master_node_id
        ELSE LBOrder[Least(healthy)]

\* The load balancer takes n for healthy, and that is so.
InUse(n) == node_health[n] /\ up[n]

\* A new customer's session is opened with the master (get_master_node, and
\* accept in start).  Without a healthy server, or when the master is dead and
\* that is not known yet, the customer gets nothing out of the session.
Connect(c) ==
    /\ engineer[c] = "new"
    /\ master_node_id' = GetMasterNode
    /\ server' = [server EXCEPT ![c] = GetMasterNode]
    /\ engineer' = [engineer EXCEPT ![c] = IF InUse(GetMasterNode) THEN "idle" ELSE "lost"]
    /\ UNCHANGED <<up, logVars, threadVars, netVars, ordered, acked, node_health, hb_conn,
                   bounds>>

\* Under mtx, an engineer thread puts a request and its barrier in the lists.
Enqueue(c, op) ==
    LET n == server[c]
    IN  /\ MtxFree(n)
        /\ admin_thread_list' =
               [admin_thread_list EXCEPT ![n] = Append(@, [op |-> op, eng |-> c])]

\* Client_thread_body: a customer numbers its orders and places one after the
\* other over one connection.
NextOrder(c) == [arg1 |-> c, arg2 |-> ordered[c] + 1]

\* engineer_thread_robot_def, up to barrier_future.wait().
PlaceOrder(c) ==
    /\ engineer[c] = "idle"
    /\ ordered[c] < MaxOrders
    /\ ordered' = [ordered EXCEPT ![c] = @ + 1]
    /\ Enqueue(c, NextOrder(c))
    /\ engineer' = [engineer EXCEPT ![c] = "waiting"]
    /\ UNCHANGED <<up, logVars, recheck_allow, admin, ifa, netVars, server, acked,
                   lbVars, bounds>>

\* Slip in engineer_thread_robot_def: it does not wait for the barrier.
ShipEarly(c) ==
    /\ engineer[c] \in {"waiting", "ready"}
    /\ engineer' = [engineer EXCEPT ![c] = "idle"]
    /\ acked' = acked \cup {[arg1 |-> c, arg2 |-> ordered[c]]}
    /\ UNCHANGED <<up, logVars, threadVars, netVars, server, ordered, lbVars, bounds>>

\* The rest of engineer_thread_robot_def: the robot is shipped.
Ship(c) ==
    /\ engineer[c] = "ready"
    /\ engineer' = [engineer EXCEPT ![c] = "idle"]
    /\ acked' = acked \cup {[arg1 |-> c, arg2 |-> ordered[c]]}
    /\ UNCHANGED <<up, logVars, threadVars, netVars, server, ordered, lbVars, bounds>>

\* engineer_thread_read_def, under mtx: what n tells c of its last order, -1 if
\* it has no record of one.  Nothing changes.
ReadRecord(n, c) == IF customer_record[n][c] = 0 THEN -1 ELSE customer_record[n][c]

\* engineer_thread_body sees the end of the connection after an order:
\* engineer_thread_send_commited_index, up to barrier_future.wait().
Hangup(c) ==
    /\ engineer[c] = "idle"
    /\ ordered[c] > 0
    /\ Enqueue(c, CommitOnly)
    /\ engineer' = [engineer EXCEPT ![c] = "closing"]
    /\ UNCHANGED <<up, logVars, recheck_allow, admin, ifa, netVars, server, ordered,
                   acked, lbVars, bounds>>

\* engineer_thread_body on n closes a session: clog.sync(), recheck_allow = 1,
\* neither of them under mtx.
CloseSession(n) ==
    /\ wal' = [wal EXCEPT ![n] = Flushed(@)]
    /\ recheck_allow' = [recheck_allow EXCEPT ![n] = TRUE]

\* The session of c ends, with or without a commit announcement.
Finish(c) ==
    /\ engineer[c] = "released" \/ (engineer[c] = "idle" /\ ordered[c] = 0)
    /\ engineer' = [engineer EXCEPT ![c] = "gone"]
    /\ CloseSession(server[c])
    /\ UNCHANGED <<up, smr_log, last_index, committed_index, customer_record,
                   admin_thread_list, admin, ifa, netVars, server, ordered, acked,
                   lbVars, bounds>>

\* A session that sent n no order ends: the load balancer opens one with its
\* current worker node for every customer.
CloseReader(n) ==
    /\ up[n]
    /\ CloseSession(n)
    /\ UNCHANGED <<up, smr_log, last_index, committed_index, customer_record,
                   admin_thread_list, admin, ifa, netVars, clientVars, lbVars, bounds>>

-----------------------------------------------------------------------------
(***************************************************************************)
(* The admin thread (admin_thread), which holds mtx from AdminRecheck or   *)
(* AdminTake until the list is empty again.                                *)
(***************************************************************************)

\* The top of the loop: there is work, and the thread has or can get mtx.
AdminAwake(n) ==
    /\ admin_thread_list[n] # <<>>
    /\ admin[n].pc = "next" \/ MtxFree(n)

\* smr_log holds an entry that is not applied yet.
LastPending(n) == last_index[n] >= 0 /\ last_index[n] > committed_index[n]

\* Slip in recheckcommit: the customer record is forgotten.
RecheckIndexOnly(n) ==
    /\ committed_index' = [committed_index EXCEPT ![n] = last_index[n]]
    /\ UNCHANGED customer_record

\* recheckcommit: a backup that becomes primary applies its last entry.
RecheckCommit(n) ==
    IF LastPending(n)
    THEN /\ customer_record' = [customer_record EXCEPT ![n] =
                                   Apply(@, At(smr_log[n], last_index[n]))]
         /\ committed_index' = [committed_index EXCEPT ![n] = last_index[n]]
    ELSE UNCHANGED <<customer_record, committed_index>>

\* Slip in recheckreplsock: no connection is made.
RecheckNoSock(n) == UNCHANGED socket

\* recheckreplsock: connect to every peer that has no connection.
RecheckReplSock(n) ==
    socket' = [socket EXCEPT ![n] = [b \in Node |->
                  IF @[b] = "closed" /\ up[b] /\ b \in Range(Peers[n])
                  THEN "open" ELSE @[b]]]

\* The recheck at the top of the loop.  smr_log.at throws in recheckcommit if
\* the log has a hole at its end.
AdminRecheck(n) ==
    /\ AdminAwake(n)
    /\ recheck_allow[n]
    /\ IF LastPending(n) /\ ~InRange(smr_log[n], last_index[n])
       THEN Die(n, wal[n])
       ELSE /\ RecheckCommit(n)
            /\ RecheckReplSock(n)
            /\ admin' = [admin EXCEPT ![n].pc = "take"]
            /\ UNCHANGED <<up, smr_log, last_index, wal, recheck_allow,
                           admin_thread_list, ifa, wire, reply, clientVars, lbVars>>
    /\ UNCHANGED bounds

\* Take the first request; log it and append it if it is an order.  The recheck
\* is over: recheck_allow is cleared whatever was stored there in the meantime.
AdminTake(n) ==
    LET job == Head(admin_thread_list[n])
        at  == last_index[n] + 1
    IN  /\ admin_thread_list[n] # <<>>
        /\ admin[n].pc = "take" \/ (AdminAwake(n) /\ ~recheck_allow[n])
        /\ recheck_allow' = [recheck_allow EXCEPT ![n] = FALSE]
        /\ admin_thread_list' = [admin_thread_list EXCEPT ![n] = Tail(@)]
        /\ admin' = [admin EXCEPT ![n] =
                        [pc |-> "send", job |-> job, todo |-> Peers[n]]]
        /\ IF IsAnnouncement(job.op)
           THEN UNCHANGED <<smr_log, last_index, wal>>
           ELSE /\ last_index' = [last_index EXCEPT ![n] = at]
                /\ wal' = [wal EXCEPT ![n] = WriteLog(@, job.op)]
                /\ smr_log' = [smr_log EXCEPT ![n] = Insert(@, at, job.op)]
        /\ UNCHANGED <<up, committed_index, customer_record, ifa, netVars, clientVars,
                       lbVars, bounds>>

\* Slip: the loop ends after the first peer.
NoNextPeer(n) == admin' = [admin EXCEPT ![n].pc = "send", ![n].todo = <<>>]

\* The request of n is done with the first peer of todo.
NextPeer(n) == admin' = [admin EXCEPT ![n].pc = "send", ![n].todo = Tail(@)]

\* No connection to the next peer.
AdminSkip(n) ==
    /\ admin[n].pc = "send"
    /\ admin[n].todo # <<>>
    /\ socket[n][Head(admin[n].todo)] = "closed"
    /\ NextPeer(n)
    /\ UNCHANGED <<up, logVars, recheck_allow, admin_thread_list, ifa, netVars,
                   clientVars, lbVars, bounds>>

\* SendReplicationRequest to the next connected peer.
AdminSend(n) ==
    LET to == Head(admin[n].todo)
    IN  /\ admin[n].pc = "send"
        /\ admin[n].todo # <<>>
        /\ socket[n][to] = "open"
        /\ wire' = [wire EXCEPT ![n][to] = Append(@,
                       [kind |-> "req",
                        req  |-> [committed_index |-> committed_index[n],
                                  last_index      |-> last_index[n],
                                  op              |-> admin[n].job.op]])]
        /\ admin' = [admin EXCEPT ![n].pc = "ack"]
        /\ UNCHANGED <<up, logVars, recheck_allow, admin_thread_list, ifa, socket, reply,
                       clientVars, lbVars, bounds>>

\* Slip in SendRecoveryLog: it starts with the committed entry.
RecoveryLogEarly(n, committed) ==
    SubSeq(smr_log[n], IF committed < 0 THEN 1 ELSE committed + 1, Len(smr_log[n]))

\* What SendRecoveryLog sends: everything after the committed index of the
\* backup, up to the end of smr_log.
RecoveryLog(n, committed) == SubSeq(smr_log[n], committed + 2, Len(smr_log[n]))

\* GetReplicationAck returns 1, or 2: then SendRecoveryLog.
AdminAck(n) ==
    LET from == Head(admin[n].todo)
        ack  == reply[n][from]
        log  == RecoveryLog(n, ack.committed_index)
    IN  /\ admin[n].pc \in {"ack", "reack"}
        /\ ack # None
        /\ reply' = [reply EXCEPT ![n][from] = None]
        /\ \/ /\ ack.is_success = 1
              /\ NextPeer(n)
              /\ UNCHANGED wire
           \/ /\ ack.is_success = 2
              /\ admin' = [admin EXCEPT ![n].pc = "reack"]
              /\ wire' = IF socket[n][from] = "open"
                         THEN [wire EXCEPT ![n][from] =
                                  @ \o [i \in 1 .. Len(log) |-> [kind |-> "op", op |-> log[i]]]]
                         ELSE wire
        /\ UNCHANGED <<up, logVars, recheck_allow, admin_thread_list, ifa, socket,
                       clientVars, lbVars, bounds>>

\* Slip: only a failing send is noticed.
SendFailed(n, peer) == socket[n][peer] = "broken" /\ admin[n].pc = "send"

\* A send or a recv on the connection to a dead peer does not block.
PeerFailed(n, peer) ==
    /\ socket[n][peer] = "broken"
    /\ \/ admin[n].pc = "send"
       \/ admin[n].pc \in {"ack", "reack"} /\ reply[n][peer] = None

\* The peer has died: a send or a recv fails and the socket is given up, or
\* recv returns 0 and the acknowledgement is what the heap held.  That may pass
\* for a success, and then the socket is kept until the next request.
AdminPeerGone(n) ==
    LET peer == Head(admin[n].todo)
    IN  /\ admin[n].todo # <<>>
        /\ PeerFailed(n, peer)
        /\ \E s \in {"closed", "broken"} : socket' = [socket EXCEPT ![n][peer] = s]
        /\ NextPeer(n)
        /\ UNCHANGED <<up, logVars, recheck_allow, admin_thread_list, ifa, wire, reply,
                       clientVars, lbVars, bounds>>

\* Slip: committed_index is not advanced.
RecordOnly(n, op) ==
    /\ customer_record' = [customer_record EXCEPT ![n] = Apply(@, op)]
    /\ UNCHANGED committed_index

\* The order that was logged last is applied.
CommitLast(n, op) ==
    /\ customer_record' = [customer_record EXCEPT ![n] = Apply(@, op)]
    /\ committed_index' = [committed_index EXCEPT ![n] = last_index[n]]

\* Every connected peer has answered: apply the order and set the barrier.
AdminCommit(n) ==
    LET job == admin[n].job
        announcement == IsAnnouncement(job.op)
    IN  /\ admin[n].pc = "send"
        /\ admin[n].todo = <<>>
        /\ IF announcement THEN UNCHANGED <<customer_record, committed_index>>
           ELSE CommitLast(n, job.op)
        /\ engineer' = [engineer EXCEPT ![job.eng] =
                            IF announcement THEN "released" ELSE "ready"]
        /\ admin' = [admin EXCEPT ![n] =
                        [AdminWaits EXCEPT !.pc =
                            IF admin_thread_list[n] = <<>> THEN "wait" ELSE "next"]]
        /\ UNCHANGED <<up, smr_log, last_index, wal, recheck_allow, admin_thread_list, ifa,
                       netVars, server, ordered, acked, lbVars, bounds>>

-----------------------------------------------------------------------------
(***************************************************************************)
(* ifa threads (ifa_thread_body, ifa_thread_read, initiate_recovery): one  *)
(* per connection.  They go on reading what a dead primary had sent.       *)
(***************************************************************************)

\* What b sends to p on a connection that p may have lost.
Reply(p, b, ack) ==
    reply' = IF socket[p][b] = "open" THEN [reply EXCEPT ![p][b] = ack] ELSE reply

\* Read a request and lock mtx.  A gap in the log starts a recovery: is_success
\* 2 and the committed index are sent to p.  Otherwise an order is logged and
\* inserted where p has it.
IfaRead(p, b) ==
    LET req == Head(wire[p][b]).req
        gap == req.last_index - last_index[b] > 1
    IN  /\ up[b]
        /\ MtxFree(b)
        /\ wire[p][b] # <<>>
        /\ Head(wire[p][b]).kind = "req"
        /\ wire' = [wire EXCEPT ![p][b] = Tail(@)]
        /\ ifa' = [ifa EXCEPT ![b] =
                      [from |-> p, req |-> req, i |-> last_index[b] + 1,
                       phase |-> IF gap THEN "read" ELSE "apply"]]
        /\ IF gap
           THEN Reply(p, b, [is_success |-> 2, committed_index |-> committed_index[b]])
           ELSE UNCHANGED reply
        /\ IF gap \/ IsAnnouncement(req.op)
           THEN UNCHANGED <<wal, smr_log>>
           ELSE /\ wal' = [wal EXCEPT ![b] = Flushed(WriteLog(@, req.op))]
                /\ smr_log' = [smr_log EXCEPT ![b] = Insert(@, req.last_index, req.op)]
        /\ UNCHANGED <<up, last_index, committed_index, customer_record, recheck_allow,
                       admin_thread_list, admin, socket, clientVars, lbVars, bounds>>

\* An entry of a recovery log that nobody asked for is read as a request: its
\* customer id (3000 and up) is taken for a committed index, and smr_log.at
\* throws.  The map_op of that request is what the heap held, and is logged
\* first unless its customer id happens to be -1.
IfaStray(p, b) ==
    /\ up[b]
    /\ MtxFree(b)
    /\ wire[p][b] # <<>>
    /\ Head(wire[p][b]).kind = "op"
    /\ \E w \in {wal[b], Flushed(WriteLog(wal[b], Garbage))} : Die(b, w)
    /\ UNCHANGED bounds

\* The ifa thread of b has handled entry i; the one with the last index of the
\* request ends the phase, and the next phase starts from entry `first`.
Handled(b, phase, first) ==
    LET work == ifa[b]
    IN  ifa' = [ifa EXCEPT ![b] = IF work.i = work.req.last_index
                                  THEN [work EXCEPT !.phase = phase, !.i = first]
                                  ELSE [work EXCEPT !.i = work.i + 1]]

\* The entry that GetRecoveryLog makes of the bytes it reads.  A request would
\* pass for one, with a committed index for a customer id.
EntryIn(message) == IF message.kind = "op" THEN message.op ELSE Garbage

\* One turn of the loop of GetRecoveryLog.  recv blocks until an entry comes; if
\* p is dead it returns 0 and the entry is what the heap held.
RecoverRead(b) ==
    LET p == ifa[b].from
    IN  /\ ifa[b] # None
        /\ ifa[b].phase = "read"
        /\ IF wire[p][b] # <<>>
           THEN /\ smr_log' = [smr_log EXCEPT ![b] = Insert(@, ifa[b].i, EntryIn(Head(wire[p][b])))]
                /\ wire' = [wire EXCEPT ![p][b] = Tail(@)]
           ELSE /\ socket[p][b] # "open"
                /\ smr_log' = [smr_log EXCEPT ![b] = Insert(@, ifa[b].i, Garbage)]
                /\ UNCHANGED wire
        /\ Handled(b, "write", last_index[b] + 1)
        /\ UNCHANGED <<up, last_index, committed_index, customer_record, wal, recheck_allow,
                       admin_thread_list, admin, socket, reply, clientVars, lbVars, bounds>>

\* p is dead and the connection was reset: the acknowledgement cannot be sent,
\* or recv fails.  initiate_recovery returns as if nothing had happened.
RecoverFail(b) ==
    LET p == ifa[b].from
    IN  /\ ifa[b] # None
        /\ ifa[b].phase = "read"
        /\ wire[p][b] = <<>>
        /\ socket[p][b] # "open"
        /\ ifa' = [ifa EXCEPT ![b].phase = "apply"]
        /\ UNCHANGED <<up, logVars, recheck_allow, admin_thread_list, admin, netVars,
                       clientVars, lbVars, bounds>>

\* Slip in initiate_recovery: every entry it receives is applied.
AnyEntry(req, i) == TRUE

\* The primary has committed entry i.
IsCommitted(req, i) == i <= req.committed_index

\* One turn of the loop at the end of initiate_recovery: log the entry, and
\* apply it if the primary has committed it.  smr_log.at throws if there is none.
RecoverWrite(b) ==
    LET i  == ifa[b].i
        op == At(smr_log[b], i)
        committed == IsCommitted(ifa[b].req, i)
    IN  /\ ifa[b] # None
        /\ ifa[b].phase = "write"
        /\ IF InRange(smr_log[b], i)
           THEN /\ wal' = [wal EXCEPT ![b] = WriteLog(@, op)]
                /\ customer_record' =
                       IF committed THEN [customer_record EXCEPT ![b] = Apply(@, op)]
                       ELSE customer_record
                /\ committed_index' =
                       IF committed THEN [committed_index EXCEPT ![b] = i]
                       ELSE committed_index
                /\ Handled(b, "apply", i)
                /\ UNCHANGED <<up, smr_log, last_index, recheck_allow, admin_thread_list,
                               admin, netVars, clientVars, lbVars>>
           ELSE Die(b, wal[b])
        /\ UNCHANGED bounds

\* Slip: the index of the first request is not taken over either.
IndexIfCommitted(b, req) ==
    last_index' = IF req.committed_index = -1 THEN last_index
                  ELSE [last_index EXCEPT ![b] = req.last_index]

\* The last index of the primary becomes that of b.
TakeOverIndex(b, req) == last_index' = [last_index EXCEPT ![b] = req.last_index]

\* The end of ifa_thread_read: take over the primary's indexes and apply the
\* entry it has committed last, if there is one; then acknowledge.  smr_log.at
\* throws if the entry is not there.
IfaApply(b) ==
    LET req == ifa[b].req
        first == req.committed_index = -1
    IN  /\ ifa[b] # None
        /\ ifa[b].phase = "apply"
        /\ IF first \/ InRange(smr_log[b], req.committed_index)
           THEN /\ TakeOverIndex(b, req)
                /\ committed_index' =
                       IF first THEN committed_index
                       ELSE [committed_index EXCEPT ![b] = req.committed_index]
                /\ customer_record' =
                       IF first THEN customer_record
                       ELSE [customer_record EXCEPT ![b] =
                                Apply(@, At(smr_log[b], req.committed_index))]
                /\ ifa' = [ifa EXCEPT ![b] = None]
                /\ Reply(ifa[b].from, b,
                         [is_success |-> 1, committed_index |-> -1])
                /\ UNCHANGED <<up, smr_log, wal, recheck_allow, admin_thread_list, admin,
                               socket, wire, clientVars, lbVars>>
           ELSE Die(b, wal[b])
        /\ UNCHANGED bounds

-----------------------------------------------------------------------------
(***************************************************************************)
(* Restart and failure detection.                                          *)
(***************************************************************************)

\* Nothing that n sent in an earlier life is still to be read.
Drained(n) ==
    \A b \in Node : wire[n][b] = <<>> /\ (ifa[b] # None => ifa[b].from # n)

\* The committed index that initiate_recovery_from_log gets from the first peer
\* it can reach, 0 if there is none.
RemoteCommitted(n) ==
    LET live == {i \in 1 .. Len(Peers[n]) : up[Peers[n][i]]}
    IN  IF live = {} THEN 0
        ELSE committed_index[Peers[n][Least(live)]]

\* The index up to which a log of this size is replayed: the remote index, but
\* the whole log if that is beyond its end or is 0.  With an empty log and 0
\* the function returns at once, which comes to the same.
ReplayIndex(size, remote) ==
    IF remote > size \/ remote = 0 THEN size - 1 ELSE remote

\* initiate_recovery_from_log and the rest of start.  smr_log.at throws if the
\* log ends before the index: the server does not come up.
Restart(n) ==
    LET log  == Recovered(wal[n])
        last == ReplayIndex(Len(log), RemoteCommitted(n))
    IN  /\ ~up[n]
        /\ restarts < MaxRestart
        /\ Drained(n)
        /\ PromptRestart \/ ~node_health[n]
        /\ restarts' = restarts + 1
        /\ IF last < Len(log)
           THEN /\ up' = [up EXCEPT ![n] = TRUE]
                /\ smr_log' = [smr_log EXCEPT ![n] = log]
                /\ last_index' = [last_index EXCEPT ![n] = last]
                /\ committed_index' = [committed_index EXCEPT ![n] = last]
                /\ customer_record' = [customer_record EXCEPT ![n] = Replay(log, last)]
           ELSE UNCHANGED <<up, smr_log, last_index, committed_index, customer_record>>
        /\ UNCHANGED <<wal, threadVars, netVars, clientVars, lbVars, crashes>>

\* HertBeatHandler finds out that n does not answer any more.  Its rounds take
\* seconds: by then the other servers have read what n had sent before it died,
\* unless they are slow (SlowReaders).
\* Its connection to n is never opened again, so n is found dead, and stays so,
\* also if it is running again.
HeartBeat(n) ==
    /\ node_health[n]
    /\ ~hb_conn[n]
    /\ SlowReaders \/ Drained(n) \/ up[n]
    /\ node_health' = [node_health EXCEPT ![n] = FALSE]
    /\ UNCHANGED <<up, logVars, threadVars, netVars, clientVars, master_node_id,
                   hb_conn, bounds>>

-----------------------------------------------------------------------------

\* All servers have started on empty logs and nobody is connected.
Init ==
    /\ up = [n \in Node |-> TRUE]
    /\ smr_log = [n \in Node |-> <<>>]
    /\ last_index = [n \in Node |-> -1]
    /\ committed_index = [n \in Node |-> -1]
    /\ customer_record = [n \in Node |-> [c \in Customer |-> 0]]
    /\ wal = [n \in Node |-> EmptyWal]
    /\ recheck_allow = [n \in Node |-> TRUE]
    /\ admin_thread_list = [n \in Node |-> <<>>]
    /\ admin = [n \in Node |-> AdminWaits]
    /\ ifa = [n \in Node |-> None]
    /\ socket = [p \in Node |-> [b \in Node |-> "closed"]]
    /\ wire = [p \in Node |-> [b \in Node |-> <<>>]]
    /\ reply = [p \in Node |-> [b \in Node |-> None]]
    /\ engineer = [c \in Customer |-> "new"]
    /\ server = [c \in Customer |-> None]
    /\ ordered = [c \in Customer |-> 0]
    /\ acked = {}
    /\ master_node_id = Head(LBOrder)
    /\ node_health = [n \in Node |-> TRUE]
    /\ hb_conn = [n \in Node |-> TRUE]
    /\ crashes = 0
    /\ restarts = 0

AdminThread(n) ==
    \/ AdminRecheck(n)
    \/ AdminTake(n)
    \/ AdminSkip(n)
    \/ AdminSend(n)
    \/ AdminAck(n)
    \/ AdminPeerGone(n)
    \/ AdminCommit(n)

IfaThread(b) ==
    \/ \E p \in Node : IfaRead(p, b)
    \/ \E p \in Node : IfaStray(p, b)
    \/ RecoverRead(b)
    \/ RecoverFail(b)
    \/ RecoverWrite(b)
    \/ IfaApply(b)

Next ==
    \/ \E c \in Customer : Connect(c)
    \/ \E c \in Customer : PlaceOrder(c)
    \/ \E c \in Customer : Ship(c)
    \/ \E c \in Customer : Hangup(c)
    \/ \E c \in Customer : Finish(c)
    \/ \E n \in Node : CloseReader(n)
    \/ \E n \in Node : AdminThread(n)
    \/ \E n \in Node : IfaThread(n)
    \/ \E n \in Node : Crash(n)
    \/ \E n \in Node : Restart(n)
    \/ \E n \in Node : HeartBeat(n)

Spec == Init /\ [][Next]_vars

-----------------------------------------------------------------------------
(***************************************************************************)
(* Fairness: threads that can go on do so.  Nothing is assumed of the      *)
(* customers, the load balancer or the lock of a thread that waits for one *)
(* that others keep taking.                                                *)
(***************************************************************************)

Fairness ==
    /\ \A n \in Node : WF_vars(AdminThread(n))
    /\ \A n \in Node : WF_vars(IfaThread(n))
    /\ \A c \in Customer : WF_vars(Ship(c))
    /\ \A c \in Customer : WF_vars(Finish(c))

FairSpec == Spec /\ Fairness

-----------------------------------------------------------------------------
(***************************************************************************)
(* Properties: engineer threads and the admin thread.                      *)
(***************************************************************************)

\* What the admin thread of n has to do: the list, and what is in its hands.
Requests(n) ==
    (IF admin[n].job = None THEN <<>> ELSE <<admin[n].job>>) \o admin_thread_list[n]

\* The engineer thread of c is in barrier_future.wait().
AtBarrier(c) == engineer[c] \in {"waiting", "closing"}

\* What it put in the list.
RequestOf(c) ==
    [op  |-> IF engineer[c] = "closing" THEN CommitOnly
             ELSE [arg1 |-> c, arg2 |-> ordered[c]],
     eng |-> c]

\* Every request the admin thread has is that of an engineer thread of the same
\* server which waits for just this: its barrier and robot_inf, locals of that
\* thread, still exist when the admin thread writes to them.
NoDanglingRequest ==
    \A n \in Node : \A i \in 1 .. Len(Requests(n)) :
        LET c == Requests(n)[i].eng
        IN  AtBarrier(c) /\ server[c] = n /\ Requests(n)[i] = RequestOf(c)

\* No barrier is set twice (std::promise::set_value would throw).
NoBarrierTwice ==
    \A n \in Node : \A i, j \in 1 .. Len(Requests(n)) :
        Requests(n)[i].eng = Requests(n)[j].eng => i = j

\* No engineer thread waits at a barrier that nobody is going to set.
NobodyForgotten ==
    \A c \in Customer, n \in Node : AtBarrier(c) /\ server[c] = n =>
        \E i \in 1 .. Len(Requests(n)) : Requests(n)[i].eng = c

\* Engineer threads and the lists of the admin thread (Server.cpp:150-182 and
\* 379-457) always agree, whatever crashes.
BarrierDiscipline == NoDanglingRequest /\ NoBarrierTwice /\ NobodyForgotten

\* No order and no commit announcement waits forever: whatever happens to the
\* backups, in the middle of a request, an acknowledgement or a recovery, the
\* admin thread gets past them and sets the barrier (or its server dies).
EveryBarrierIsSet == \A c \in Customer : AtBarrier(c) ~> ~AtBarrier(c)

\* The admin thread of n waits, with mtx, for an acknowledgement that m has not sent.
WaitsFor(n, m) ==
    /\ admin[n].pc \in {"ack", "reack"}
    /\ Head(admin[n].todo) = m
    /\ socket[n][m] = "open"
    /\ reply[n][m] = None

\* Two primaries wait for each other.
MutualWait == \E n, m \in Node : n # m /\ WaitsFor(n, m) /\ WaitsFor(m, n)

\* Where a server may be started again before its death is noticed, it is still
\* master for those who connect then, and two primaries can come to wait for
\* each other forever (Server.cpp:428: with the mtx that the other one's ifa
\* thread needs).  This is the only thing that keeps an order from its barrier.
OnlyMutualWaitBlocks ==
    \A c \in Customer : AtBarrier(c) ~> ~AtBarrier(c) \/ MutualWait

-----------------------------------------------------------------------------
(***************************************************************************)
(* Properties: the logs.                                                   *)
(***************************************************************************)

\* The indexes that last_index says hold data, those of them that do.
Logged(n) == {i \in 0 .. last_index[n] : InRange(smr_log[n], i)}

Holds(n, o) == \E i \in Logged(n) : At(smr_log[n], i) = o

\* The servers the load balancer could still choose: they have never died.
Survivors == {n \in Node : up[n] /\ hb_conn[n]}

\* An order whose robot was shipped is in the log of every server that has
\* never died: whichever becomes master next has it.
AckedSurvive == \A n \in Survivors : \A o \in acked : Holds(n, o)

\* The shipped orders that n would not tell anybody about.
Missing(n) == {o \in acked : ~Holds(n, o)}

\* With three servers and a crash in the middle of a broadcast not all that have
\* never died keep up.  What is left, until a server is started again, is that the one
\* the next session is opened with (get_master_node), whichever it is by then, has
\* every shipped order.  A server that is started again before its death is noticed is
\* still the master, and what was in its batch is gone (CommitLog.cpp:91).  The orders
\* it takes then overwrite by position what its backups have, and one of these may take
\* over.  All the same, what the server of the next session lacks is less than a batch.
\* (With batches of one it may lack an order which its peer has not committed:
\* Server.cpp:306.)
AckedAtMaster ==
    InUse(GetMasterNode) =>
        /\ restarts = 0 => Missing(GetMasterNode) = {}
        /\ BatchSize > 1 => Cardinality(Missing(GetMasterNode)) < BatchSize

\* The shipped orders that n would have lost if it crashed now and started again.
Unwritten(n) == {o \in acked : server[o.arg1] = n /\ o \notin Range(Recovered(wal[n]))}

\* Of the orders whose robots it has shipped a server loses fewer than a batch
\* holds when it crashes (CommitLog.cpp:91, Server.cpp:394-405): each is in its
\* file or among the last of its batch, whatever it did as a backup in between
\* and whenever sessions were closed.
ShippedLossIsBounded ==
    Flushing => \A n \in Survivors : Cardinality(Unwritten(n)) < BatchSize

\* What a server has committed is not only known to it.  A server that has never
\* died commits what is in the log of all others that have not, as primary, as
\* backup and when it takes over; one that was started again, and takes index 0
\* of its peer for "no peer answered" (Server.cpp:302), at least nothing that all
\* of them lack.
CommittedIsKnown ==
    \A n \in Node : up[n] => \A i \in 0 .. committed_index[n] :
        LET knowing == {m \in Survivors : Holds(m, At(smr_log[n], i))}
        IN  IF n \in Survivors THEN knowing = Survivors
            ELSE knowing # {} \/ Survivors = {}

\* The file is appended to, smr_log is inserted into by position (Server.cpp:337-
\* 348, 394-405, ServerStub.h:279-280): on a server that has never died they list
\* the same entries in the same order, also after it was behind or has taken over.
FileMatchesLog ==
    \A n \in Survivors : MtxFree(n) =>
        wal[n].file \o wal[n].buffer \o wal[n].batch = smr_log[n]

\* last_index is "the last index of the smr_log that has data" (RobotFactory.h:60)
\* when a primary sends its log: SendRecoveryLog goes to the end of smr_log,
\* GetRecoveryLog counts up to last_index.
LastIndexIsLast ==
    \A n \in Node : admin[n].pc \in {"send", "ack", "reack"} =>
        Len(smr_log[n]) = last_index[n] + 1

\* customer_record is what the committed part of the log adds up to, whatever
\* mixture of replication, recovery, recheck and replay produced both.
RecordMatchesLog ==
    \A n \in Node : MtxFree(n) =>
        customer_record[n] = Replay(smr_log[n], committed_index[n])

\* A server lags behind its own log by one entry at most: this is what makes it
\* enough for recheckcommit to apply the last entry only.
LagAtMostOne ==
    \A n \in Node : MtxFree(n) => last_index[n] - committed_index[n] \in {0, 1}

\* A read, whichever server the load balancer sends it to, shows the customer
\* its last shipped order or the one before, and no order it did not place
\* (Server.cpp:189-206): worker nodes are behind the master, but not further.
ReadsLagByOne ==
    \A n \in Survivors, c \in Customer : MtxFree(n) =>
        /\ ReadRecord(n, c) <= ordered[c]
        /\ \A o \in acked : o.arg1 = c /\ o.arg2 > 1 => ReadRecord(n, c) >= o.arg2 - 1

\* Two running servers agree on every entry both call committed.
LogAgreement ==
    \A n, m \in Node : up[n] /\ up[m] =>
        \A i \in 0 .. committed_index[n] : i <= committed_index[m] =>
            /\ InRange(smr_log[n], i) /\ InRange(smr_log[m], i)
            /\ At(smr_log[n], i) = At(smr_log[m], i)

\* A backup that has acknowledged a request has the primary's log, up to the
\* last index of both: also when it was behind and had to recover first.
AckMeansSameLog ==
    \A p, b \in Node :
        /\ admin[p].pc \in {"ack", "reack"}
        /\ Head(admin[p].todo) = b
        /\ reply[p][b] # None
        /\ reply[p][b].is_success = 1
        /\ socket[p][b] = "open"
        => /\ last_index[b] = last_index[p]
           /\ Logged(b) = Logged(p)
           /\ \A i \in Logged(p) : At(smr_log[b], i) = At(smr_log[p], i)

\* A running server takes nothing back: its committed index does not fall, and
\* the entries up to there stay what they were.
CommittedIsStable ==
    [][\A n \in Node : up[n] /\ up'[n] =>
          /\ committed_index[n] <= committed_index'[n]
          /\ \A i \in 0 .. committed_index[n] :
                At(smr_log[n], i) = At(smr_log'[n], i)]_vars

\* No order is logged twice, and those of a customer are in the order in which
\* they were placed.
OrdersInSequence ==
    \A n \in Node : up[n] =>
        \A i, j \in Logged(n) :
            LET a == At(smr_log[n], i)
                b == At(smr_log[n], j)
            IN  i < j /\ Garbage \notin {a, b} /\ a.arg1 = b.arg1 => a.arg2 < b.arg2

\* The promise of OrderLedger.  The ledger is what all survivors have in their
\* logs up to last_index; servers that have been restarted do not count, as the
\* load balancer never uses them again.
Common(S) ==
    LET log == smr_log[CHOOSE n \in S : TRUE]
        Agreed(k) == k < Len(log) /\ \A n \in S :
                        k \in Logged(n) /\ At(smr_log[n], k) = At(log, k)
    IN  SubSeq(log, 1, CHOOSE k \in 0 .. Len(log) :
                          ~Agreed(k) /\ \A i \in 0 .. k - 1 : Agreed(i))

Ledger == INSTANCE OrderLedger WITH
    ledger  <- IF Survivors = {} THEN <<>> ELSE Common(Survivors),
    serving <- Survivors # {}

OrderLedgerSpec == Ledger!Spec

-----------------------------------------------------------------------------
(***************************************************************************)
(* Statements of the source's comments that the code does not live up to.  *)
(***************************************************************************)

\* "if the last commited index is more than what is there in log there is a need
\* to fetch the logs" (Server.cpp:293-294): the index up to which a starting
\* server replays its log is always one that the log has.
StartupReplayInRange ==
    \A n \in Node : ~up[n] /\ Drained(n) =>
        LET size == Len(Recovered(wal[n]))
        IN  ReplayIndex(size, RemoteCommitted(n)) < size

=============================================================================
