------------------------- MODULE ReplicationProofs --------------------------
(***************************************************************************)
(* What holds of the servers for any number of servers, customers, orders, *)
(* crashes and restarts: type correctness of Replication; engineer threads *)
(* and the admin thread agree on who waits for what (BarrierDiscipline);   *)
(* what a crash costs the customers (ShippedLossIsBounded).                *)
(***************************************************************************)
EXTENDS Replication, CommitLogOpsLemmas, FiniteSetTheorems

-----------------------------------------------------------------------------
(***************************************************************************)
(* The operators on logs, indexes and requests.                            *)
(***************************************************************************)

\* One server's value changes.
LEMMA UpdateType ==
    ASSUME NEW D, NEW S, NEW f \in [D -> S], NEW n \in D, NEW v \in S,
           NEW g, g = [f EXCEPT ![n] = v]
    PROVE  g \in [D -> S]
OBVIOUS

LEMMA LeastType ==
    ASSUME NEW S \in SUBSET Nat, S # {}
    PROVE  Least(S) \in S /\ \A j \in S : Least(S) <= j
<1>1. \E i \in S : \A j \in S : i <= j
  BY LeastExists
<1> QED
  BY <1>1 DEF Least

\* smr_log.at(i), where it does not throw.
LEMMA AtType ==
    ASSUME NEW log \in Seq(Entry), NEW i \in Int, InRange(log, i)
    PROVE  At(log, i) \in Entry
<1>1. Len(log) \in Nat
  BY LenProperties
<1>2. i + 1 \in 1 .. Len(log)
  BY <1>1 DEF InRange
<1> QED
  BY <1>2, ElementOfSeq DEF At

\* smr_log.insert, in range or not.
LEMMA InsertType ==
    ASSUME NEW log \in Seq(Entry), NEW i \in Int, NEW e \in Entry
    PROVE  Insert(log, i, e) \in Seq(Entry)
<1>1. Len(log) \in Nat
  BY LenProperties
<1>2. CASE 0 <= i /\ i <= Len(log)
  <2>1. SubSeq(log, 1, i) \in Seq(Entry)
    <3>1. \A j \in 1 .. i : log[j] \in Entry
      BY <1>1, <1>2, ElementOfSeq
    <3> QED
      BY <3>1, SubSeqProperties
  <2>2. SubSeq(log, i + 1, Len(log)) \in Seq(Entry)
    <3>1. \A j \in i + 1 .. Len(log) : log[j] \in Entry
      BY <1>1, <1>2, ElementOfSeq
    <3> QED
      BY <1>1, <3>1, SubSeqProperties
  <2>3. <<e>> \in Seq(Entry)
    OBVIOUS
  <2>4. SubSeq(log, 1, i) \o <<e>> \o SubSeq(log, i + 1, Len(log)) \in Seq(Entry)
    BY <2>1, <2>2, <2>3, ConcatProperties
  <2> QED
    BY <1>2, <2>4 DEF Insert
<1>3. CASE ~(0 <= i /\ i <= Len(log))
  <2>1. Append(log, Garbage) \in Seq(Entry)
    BY AppendProperties DEF Entry
  <2> QED
    BY <1>3, <2>1 DEF Insert
<1> QED
  BY <1>2, <1>3

\* A customer record stays one.
LEMMA ApplyType ==
    ASSUME NEW record \in [Customer -> 0 .. MaxOrders], NEW op \in Entry
    PROVE  Apply(record, op) \in [Customer -> 0 .. MaxOrders]
<1>1. CASE op = Garbage
  BY <1>1 DEF Apply
<1>2. CASE op # Garbage
  <2>1. op \in Order
    BY <1>2 DEF Entry
  <2>2. op.arg1 \in Customer /\ op.arg2 \in 0 .. MaxOrders
    BY <2>1, BoundsAssumption DEF Order
  <2> QED
    BY <1>2, <2>2 DEF Apply
<1> QED
  BY <1>1, <1>2

\* The customer record a starting server gets from its log.
LEMMA ReplayType ==
    ASSUME NEW log \in Seq(Entry), NEW n \in Int, n < Len(log)
    PROVE  Replay(log, n) \in [Customer -> 0 .. MaxOrders]
<1> SUFFICES ASSUME NEW c \in Customer
             PROVE  Replay(log, n)[c] \in 0 .. MaxOrders
  BY DEF Replay
<1> DEFINE mine == {i \in 0 .. n : At(log, i) # Garbage /\ At(log, i).arg1 = c}
           last == {i \in mine : \A j \in mine : j <= i}
<1>1. Replay(log, n)[c] = IF last = {} THEN 0 ELSE At(log, CHOOSE i \in last : TRUE).arg2
  BY DEF Replay
<1>2. ASSUME NEW i \in last PROVE At(log, i).arg2 \in 0 .. MaxOrders
  <2>1. i \in 0 .. n /\ At(log, i) # Garbage
    OBVIOUS
  <2>2. InRange(log, i) /\ i \in Int
    BY <2>1, LenProperties DEF InRange
  <2>3. At(log, i) \in Order
    BY <2>1, <2>2, AtType DEF Entry
  <2> QED
    BY <2>3, BoundsAssumption DEF Order
<1>3. last # {} => (CHOOSE i \in last : TRUE) \in last
  <2> HIDE DEF last
  <2> QED
    OBVIOUS
<1>4. 0 \in 0 .. MaxOrders
  BY BoundsAssumption
<1>5. CASE last = {}
  BY <1>1, <1>4, <1>5
<1>6. CASE last # {}
  <2> HIDE DEF last
  <2>1. At(log, CHOOSE i \in last : TRUE).arg2 \in 0 .. MaxOrders
    BY <1>2, <1>3, <1>6
  <2> QED
    BY <1>1, <1>6, <2>1
<1> QED
  BY <1>5, <1>6

\* What SendRecoveryLog sends is a part of the log.
LEMMA RecoveryLogType ==
    ASSUME NEW n \in Node, smr_log[n] \in Seq(Entry), NEW k \in Index
    PROVE  RecoveryLog(n, k) \in Seq(Entry)
<1>1. Len(smr_log[n]) \in Nat /\ k + 2 \in Int /\ k + 2 >= 1
  BY LenProperties DEF Index
<1>2. \A j \in k + 2 .. Len(smr_log[n]) : smr_log[n][j] \in Entry
  BY <1>1, ElementOfSeq
<1> QED
  BY <1>1, <1>2, SubSeqProperties DEF RecoveryLog

\* The messages that carry it.
LEMMA RecoveryMessagesType ==
    ASSUME NEW log \in Seq(Entry)
    PROVE  [i \in 1 .. Len(log) |-> [kind |-> "op", op |-> log[i]]] \in Seq(Message)
<1>1. Len(log) \in Nat
  BY LenProperties
<1>2. \A i \in 1 .. Len(log) : [kind |-> "op", op |-> log[i]] \in Message
  BY ElementOfSeq DEF Message
<1> QED
  BY <1>1, <1>2, SeqDef

-----------------------------------------------------------------------------
(***************************************************************************)
(* Type correctness: one lemma per action.                                 *)
(***************************************************************************)

LEMMA InitType == Init => TypeOK
<1> SUFFICES ASSUME Init PROVE TypeOK
  OBVIOUS
<1>1. Head(LBOrder) \in Node
  BY LBOrderAssumption, HeadTailProperties
<1>2. EmptyWal \in Wal(Entry)
  BY EmptyWalType
<1>3. AdminWaits \in AdminState
  BY DEF AdminWaits, AdminState
<1>4. /\ <<>> \in Seq(Entry) /\ <<>> \in Seq(Request) /\ <<>> \in Seq(Message)
      /\ -1 \in Index /\ 0 \in 0 .. MaxOrders /\ "new" \in EngineerState
  BY EmptySeq, BoundsAssumption DEF Index, EngineerState
<1>5. /\ smr_log \in [Node -> Seq(Entry)]
      /\ wal \in [Node -> Wal(Entry)]
      /\ admin_thread_list \in [Node -> Seq(Request)]
      /\ admin \in [Node -> AdminState]
      /\ ifa \in [Node -> IfaState \cup {None}]
      /\ wire \in [Node -> [Node -> Seq(Message)]]
      /\ reply \in [Node -> [Node -> Ack \cup {None}]]
  BY <1>2, <1>3, <1>4 DEF Init
<1>6. /\ up \in [Node -> BOOLEAN]
      /\ last_index \in [Node -> Index] /\ committed_index \in [Node -> Index]
      /\ customer_record \in [Node -> [Customer -> 0 .. MaxOrders]]
      /\ recheck_allow \in [Node -> BOOLEAN]
      /\ socket \in [Node -> [Node -> {"closed", "open", "broken"}]]
      /\ engineer \in [Customer -> EngineerState]
      /\ server \in [Customer -> Node \cup {None}]
      /\ ordered \in [Customer -> 0 .. MaxOrders]
  BY <1>4 DEF Init
<1>7. /\ acked \in SUBSET [arg1 : Customer, arg2 : Nat]
      /\ master_node_id \in Node
      /\ node_health \in [Node -> BOOLEAN] /\ hb_conn \in [Node -> BOOLEAN]
      /\ crashes \in Nat /\ restarts \in Nat
  BY <1>1 DEF Init
<1> QED
  BY <1>5, <1>6, <1>7 DEF TypeOK

\* The end of a process, whatever the state of its log.
LEMMA DieType ==
    ASSUME TypeOK, NEW n \in Node, NEW w \in Wal(Entry), Die(n, w),
           crashes' \in Nat, restarts' \in Nat
    PROVE  TypeOK'
<1>1. Lost(w) \in Wal(Entry)
  BY LostFields
<1>2. AdminWaits \in AdminState
  BY DEF AdminWaits, AdminState
<1>3. /\ <<>> \in Seq(Entry) /\ <<>> \in Seq(Request) /\ <<>> \in Seq(Message)
      /\ -1 \in Index /\ 0 \in 0 .. MaxOrders /\ "lost" \in EngineerState
  BY EmptySeq, BoundsAssumption DEF Index, EngineerState
<1>4. /\ up' \in [Node -> BOOLEAN]
      /\ smr_log' \in [Node -> Seq(Entry)]
      /\ last_index' \in [Node -> Index] /\ committed_index' \in [Node -> Index]
      /\ customer_record' \in [Node -> [Customer -> 0 .. MaxOrders]]
      /\ wal' \in [Node -> Wal(Entry)]
  BY <1>1, <1>3 DEF Die, TypeOK
<1>5. /\ recheck_allow' \in [Node -> BOOLEAN]
      /\ admin_thread_list' \in [Node -> Seq(Request)]
      /\ admin' \in [Node -> AdminState]
      /\ ifa' \in [Node -> IfaState \cup {None}]
  BY <1>2, <1>3 DEF Die, TypeOK
<1>6. socket' \in [Node -> [Node -> {"closed", "open", "broken"}]]
  BY DEF Die, TypeOK
<1>7. wire' \in [Node -> [Node -> Seq(Message)]]
  <2>0. PICK to \in Node : \E k \in 0 .. Len(wire[n][to]) :
           wire' = [p \in Node |-> [b \in Node |->
                      IF b = n THEN <<>>
                      ELSE IF p = n /\ b = to THEN SubSeq(wire[n][to], 1, k)
                      ELSE wire[p][b]]]
    BY DEF Die
  <2>1. PICK k \in 0 .. Len(wire[n][to]) :
           wire' = [p \in Node |-> [b \in Node |->
                      IF b = n THEN <<>>
                      ELSE IF p = n /\ b = to THEN SubSeq(wire[n][to], 1, k)
                      ELSE wire[p][b]]]
    BY <2>0
  <2>2. \A p, b \in Node : wire[p][b] \in Seq(Message)
    BY DEF TypeOK
  <2>3. SubSeq(wire[n][to], 1, k) \in Seq(Message)
    <3>1. \A i \in 1 .. k : wire[n][to][i] \in Message
      BY <2>1, <2>2, LenProperties, ElementOfSeq
    <3> QED
      BY <2>1, <2>2, <3>1, LenProperties, SubSeqProperties
  <2> QED
    BY <1>3, <2>1, <2>2, <2>3
<1>8. reply' \in [Node -> [Node -> Ack \cup {None}]]
  <2>1. \A p, b \in Node : reply[p][b] \in Ack \cup {None}
    BY DEF TypeOK
  <2> QED
    BY <2>1 DEF Die
<1>9. engineer' \in [Customer -> EngineerState]
  BY <1>3 DEF Die, TypeOK
<1>10. /\ server' \in [Customer -> Node \cup {None}]
       /\ ordered' \in [Customer -> 0 .. MaxOrders]
       /\ acked' \in SUBSET [arg1 : Customer, arg2 : Nat]
       /\ master_node_id' \in Node
       /\ node_health' \in [Node -> BOOLEAN] /\ hb_conn' \in [Node -> BOOLEAN]
  BY DEF Die, TypeOK
<1> QED
  BY <1>4, <1>5, <1>6, <1>7, <1>8, <1>9, <1>10 DEF TypeOK

LEMMA CrashType == ASSUME TypeOK, NEW n \in Node, Crash(n) PROVE TypeOK'
<1>1. wal[n] \in Wal(Entry) /\ crashes' \in Nat /\ restarts' \in Nat
  BY DEF Crash, TypeOK
<1> QED
  BY <1>1, DieType DEF Crash

\* The next session gets a server, the master as long as that is healthy.
LEMMA NextMaster ==
    ASSUME TypeOK
    PROVE  /\ GetMasterNode \in Node
           /\ node_health[master_node_id] => GetMasterNode = master_node_id
<1> DEFINE healthy == {i \in 1 .. Len(LBOrder) : node_health[LBOrder[i]]}
           master == IF node_health[master_node_id] \/ healthy = {}
                     THEN master_node_id ELSE LBOrder[Least(healthy)]
<1>1. master \in Node
  <2>1. CASE healthy = {}
    BY <2>1 DEF TypeOK
  <2>2. CASE healthy # {}
    <3>1. LBOrder \in Seq(Node) /\ Len(LBOrder) \in Nat
      BY LBOrderAssumption, LenProperties
    <3>2. healthy \in SUBSET Nat /\ healthy \subseteq 1 .. Len(LBOrder)
      BY <3>1
    <3>3. Least(healthy) \in 1 .. Len(LBOrder)
      <4> HIDE DEF healthy
      <4> QED
        BY <2>2, <3>2, LeastType
    <3>4. LBOrder[Least(healthy)] \in Node
      <4> HIDE DEF healthy
      <4> QED
        BY <3>1, <3>3, ElementOfSeq
    <3> QED
      BY <3>4 DEF TypeOK
  <2> QED
    BY <2>1, <2>2
<1>2. GetMasterNode = master
  BY DEF GetMasterNode
<1> QED
  BY <1>1, <1>2

LEMMA ConnectType == ASSUME TypeOK, NEW c \in Customer, Connect(c) PROVE TypeOK'
<1>1. GetMasterNode \in Node
  BY NextMaster
<1>2. /\ master_node_id' = GetMasterNode
      /\ server' = [server EXCEPT ![c] = GetMasterNode]
      /\ engineer' = [engineer EXCEPT ![c] =
                         IF InUse(GetMasterNode) THEN "idle" ELSE "lost"]
      /\ UNCHANGED <<up, logVars, threadVars, netVars, ordered, acked, node_health,
                     hb_conn, bounds>>
  BY DEF Connect
<1>3. engineer' \in [Customer -> EngineerState]
  BY <1>2 DEF TypeOK, EngineerState
<1>4. server' \in [Customer -> Node \cup {None}]
  BY <1>1, <1>2 DEF TypeOK
<1> QED
  BY <1>1, <1>2, <1>3, <1>4 DEF TypeOK, logVars, threadVars, netVars, bounds

\* A request joins the list of a server.
LEMMA EnqueueType ==
    ASSUME TypeOK, NEW c \in Customer, NEW op \in Order \cup {CommitOnly}, Enqueue(c, op)
    PROVE  admin_thread_list' \in [Node -> Seq(Request)]
<1>1. [op |-> op, eng |-> c] \in Request
  BY DEF Request
<1>2. \A m \in Node : Append(admin_thread_list[m], [op |-> op, eng |-> c]) \in Seq(Request)
  BY <1>1, AppendProperties DEF TypeOK
<1> QED
  BY <1>2 DEF Enqueue, TypeOK

LEMMA PlaceOrderType == ASSUME TypeOK, NEW c \in Customer, PlaceOrder(c) PROVE TypeOK'
<1>1. ordered[c] \in 0 .. MaxOrders /\ ordered[c] + 1 \in 1 .. MaxOrders
  BY BoundsAssumption DEF PlaceOrder, TypeOK
<1>2. [arg1 |-> c, arg2 |-> ordered[c] + 1] \in Order
  BY <1>1 DEF Order
<1>3. admin_thread_list' \in [Node -> Seq(Request)]
  BY <1>2, EnqueueType DEF PlaceOrder, NextOrder
<1>4. ordered' \in [Customer -> 0 .. MaxOrders]
  BY <1>1, BoundsAssumption DEF PlaceOrder, TypeOK
<1>5. engineer' \in [Customer -> EngineerState]
  BY DEF PlaceOrder, TypeOK, EngineerState
<1> QED
  BY <1>3, <1>4, <1>5 DEF PlaceOrder, TypeOK, logVars, netVars, lbVars, bounds

LEMMA ShipType == ASSUME TypeOK, NEW c \in Customer, Ship(c) PROVE TypeOK'
<1>1. engineer' \in [Customer -> EngineerState]
  BY DEF Ship, TypeOK, EngineerState
<1>2. acked' \in SUBSET [arg1 : Customer, arg2 : Nat]
  BY BoundsAssumption DEF Ship, TypeOK
<1> QED
  BY <1>1, <1>2 DEF Ship, TypeOK, logVars, threadVars, netVars, lbVars, bounds

LEMMA HangupType == ASSUME TypeOK, NEW c \in Customer, Hangup(c) PROVE TypeOK'
<1>1. admin_thread_list' \in [Node -> Seq(Request)]
  BY EnqueueType DEF Hangup
<1>2. engineer' \in [Customer -> EngineerState]
  BY DEF Hangup, TypeOK, EngineerState
<1> QED
  BY <1>1, <1>2 DEF Hangup, TypeOK, logVars, netVars, lbVars, bounds

\* sync and recheck_allow = 1.
LEMMA CloseSessionType ==
    ASSUME TypeOK, NEW n, CloseSession(n)
    PROVE  wal' \in [Node -> Wal(Entry)] /\ recheck_allow' \in [Node -> BOOLEAN]
<1>1. \A m \in Node : Flushed(wal[m]) \in Wal(Entry)
  BY FlushedFields DEF TypeOK
<1> QED
  BY <1>1 DEF CloseSession, TypeOK

LEMMA FinishType == ASSUME TypeOK, NEW c \in Customer, Finish(c) PROVE TypeOK'
<1>1. wal' \in [Node -> Wal(Entry)] /\ recheck_allow' \in [Node -> BOOLEAN]
  BY CloseSessionType DEF Finish
<1>2. engineer' \in [Customer -> EngineerState]
  BY DEF Finish, TypeOK, EngineerState
<1> QED
  BY <1>1, <1>2 DEF Finish, TypeOK, netVars, lbVars, bounds

LEMMA CloseReaderType == ASSUME TypeOK, NEW n \in Node, CloseReader(n) PROVE TypeOK'
<1>1. wal' \in [Node -> Wal(Entry)] /\ recheck_allow' \in [Node -> BOOLEAN]
  BY CloseSessionType DEF CloseReader
<1> QED
  BY <1>1 DEF CloseReader, TypeOK, netVars, clientVars, lbVars, bounds

LEMMA HeartBeatType == ASSUME TypeOK, NEW n \in Node, HeartBeat(n) PROVE TypeOK'
BY DEF HeartBeat, TypeOK, logVars, threadVars, netVars, clientVars, bounds

-----------------------------------------------------------------------------
(***************************************************************************)
(* Type correctness: the admin thread.                                     *)
(***************************************************************************)

\* What the program counter says about the rest of an admin thread's state.
LEMMA AdminStateCases ==
    ASSUME NEW a \in AdminState
    PROVE  /\ a.pc \in {"wait", "next", "take"} => a = [pc |-> a.pc, job |-> None, todo |-> <<>>]
           /\ a.pc \in {"send", "ack", "reack"} => a.job \in Request /\ a.todo \in Seq(Node)
           /\ a.pc \in {"ack", "reack"} => a.todo # <<>>
           /\ a.pc \in {"wait", "next", "take", "send", "ack", "reack"}
BY DEF AdminState

\* A step of the thread changes one or two of the three fields.
LEMMA AdminSetPc ==
    ASSUME NEW P, NEW J, NEW T, NEW a \in [pc : P, job : J, todo : T], NEW q
    PROVE  [a EXCEPT !.pc = q] = [pc |-> q, job |-> a.job, todo |-> a.todo]
OBVIOUS

LEMMA AdminSetTodo ==
    ASSUME NEW P, NEW J, NEW T, NEW a \in [pc : P, job : J, todo : T], NEW r
    PROVE  [a EXCEPT !.todo = r] = [pc |-> a.pc, job |-> a.job, todo |-> r]
OBVIOUS

LEMMA AdminStateFields ==
    ASSUME NEW a \in AdminState, NEW q, NEW r
    PROVE  /\ [a EXCEPT !.pc = q] = [pc |-> q, job |-> a.job, todo |-> a.todo]
           /\ [a EXCEPT !.pc = q, !.todo = r] = [pc |-> q, job |-> a.job, todo |-> r]
<1>1. \E P, J, T : a \in [pc : P, job : J, todo : T]
  BY Zenon DEF AdminState
<1>2. PICK P, J, T : a \in [pc : P, job : J, todo : T]
  BY <1>1
<1>3. [a EXCEPT !.pc = q] = [pc |-> q, job |-> a.job, todo |-> a.todo]
  BY <1>2, AdminSetPc
<1>4. [a EXCEPT !.pc = q, !.todo = r] = [[a EXCEPT !.pc = q] EXCEPT !.todo = r]
  BY <1>2
<1> DEFINE d == [a EXCEPT !.pc = q]
<1>5. d \in [pc : {q}, job : J, todo : T] /\ d.pc = q /\ d.job = a.job
  BY <1>2, <1>3
<1> HIDE DEF d
<1>6. [d EXCEPT !.todo = r] = [pc |-> q, job |-> a.job, todo |-> r]
  BY <1>5, AdminSetTodo
<1>7. [a EXCEPT !.pc = q, !.todo = r] = [pc |-> q, job |-> a.job, todo |-> r]
  BY <1>4, <1>6 DEF d
<1> QED
  BY <1>3, <1>7

\* The request goes on to the next peer.
LEMMA NextPeerType ==
    ASSUME TypeOK, NEW n \in Node, NextPeer(n), admin[n].todo # <<>>,
           admin[n].pc \in {"send", "ack", "reack"}
    PROVE  admin' \in [Node -> AdminState]
<1>1. admin[n].job \in Request /\ admin[n].todo \in Seq(Node)
  BY AdminStateCases DEF TypeOK
<1>2. Tail(admin[n].todo) \in Seq(Node)
  BY <1>1, HeadTailProperties
<1>3. [admin[n] EXCEPT !.pc = "send", !.todo = Tail(admin[n].todo)]
         = [pc |-> "send", job |-> admin[n].job, todo |-> Tail(admin[n].todo)]
  BY AdminStateFields DEF TypeOK
<1>4. [pc |-> "send", job |-> admin[n].job, todo |-> Tail(admin[n].todo)] \in AdminState
  BY <1>1, <1>2 DEF AdminState
<1>5. admin' = [admin EXCEPT ![n] =
                  [admin[n] EXCEPT !.pc = "send", !.todo = Tail(admin[n].todo)]]
  BY DEF NextPeer, TypeOK
<1> QED
  BY <1>3, <1>4, <1>5 DEF TypeOK

LEMMA AdminSkipType == ASSUME TypeOK, NEW n \in Node, AdminSkip(n) PROVE TypeOK'
<1>1. admin' \in [Node -> AdminState]
  BY NextPeerType DEF AdminSkip
<1> QED
  BY <1>1 DEF AdminSkip, TypeOK, logVars, netVars, clientVars, lbVars, bounds

LEMMA AdminRecheckType == ASSUME TypeOK, NEW n \in Node, AdminRecheck(n) PROVE TypeOK'
<1>1. CASE LastPending(n) /\ ~InRange(smr_log[n], last_index[n])
  <2>1. Die(n, wal[n]) /\ crashes' \in Nat /\ restarts' \in Nat /\ wal[n] \in Wal(Entry)
    BY <1>1 DEF AdminRecheck, TypeOK, bounds
  <2> QED
    BY <2>1, DieType
<1>2. CASE ~(LastPending(n) /\ ~InRange(smr_log[n], last_index[n]))
  <2>1. /\ RecheckCommit(n) /\ RecheckReplSock(n)
        /\ admin' = [admin EXCEPT ![n].pc = "take"]
        /\ UNCHANGED <<up, smr_log, last_index, wal, recheck_allow, admin_thread_list,
                       ifa, wire, reply, clientVars, lbVars, bounds>>
    BY <1>2 DEF AdminRecheck
  <2>2. /\ customer_record' \in [Node -> [Customer -> 0 .. MaxOrders]]
        /\ committed_index' \in [Node -> Index]
    <3>1. CASE LastPending(n)
      <4>1. /\ last_index[n] \in Index /\ last_index[n] \in Int /\ smr_log[n] \in Seq(Entry)
            /\ customer_record[n] \in [Customer -> 0 .. MaxOrders]
        BY DEF TypeOK, Index
      <4>2. At(smr_log[n], last_index[n]) \in Entry
        BY <1>2, <3>1, <4>1, AtType
      <4>3. Apply(customer_record[n], At(smr_log[n], last_index[n]))
              \in [Customer -> 0 .. MaxOrders]
        BY <4>1, <4>2, ApplyType
      <4> QED
        BY <2>1, <3>1, <4>1, <4>3 DEF RecheckCommit, TypeOK
    <3>2. CASE ~LastPending(n)
      BY <2>1, <3>2 DEF RecheckCommit, TypeOK
    <3> QED
      BY <3>1, <3>2
  <2>3. socket' \in [Node -> [Node -> {"closed", "open", "broken"}]]
    BY <2>1 DEF RecheckReplSock, TypeOK
  <2>4. admin' \in [Node -> AdminState]
    <3>1. admin[n].pc \in {"wait", "next"}
      BY DEF AdminRecheck, AdminAwake, MtxFree
    <3>2. admin[n] = [pc |-> admin[n].pc, job |-> None, todo |-> <<>>]
      BY <3>1, AdminStateCases DEF TypeOK
    <3>3. [admin[n] EXCEPT !.pc = "take"] = [pc |-> "take", job |-> None, todo |-> <<>>]
      BY <3>2
    <3>4. [pc |-> "take", job |-> None, todo |-> <<>>] \in AdminState
      BY DEF AdminState
    <3> QED
      BY <2>1, <3>3, <3>4 DEF TypeOK
  <2> QED
    BY <2>1, <2>2, <2>3, <2>4 DEF TypeOK, clientVars, lbVars, bounds
<1> QED
  BY <1>1, <1>2

LEMMA AdminTakeType == ASSUME TypeOK, NEW n \in Node, AdminTake(n) PROVE TypeOK'
<1> DEFINE job == Head(admin_thread_list[n])
           at  == last_index[n] + 1
<1>1. /\ admin_thread_list[n] \in Seq(Request) /\ admin_thread_list[n] # <<>>
      /\ smr_log[n] \in Seq(Entry) /\ last_index[n] \in Index /\ wal[n] \in Wal(Entry)
  BY DEF AdminTake, TypeOK
<1>2. job \in Request /\ Tail(admin_thread_list[n]) \in Seq(Request)
  BY <1>1, HeadTailProperties
<1>3. job.op \in Order \cup {CommitOnly}
  BY <1>2 DEF Request
<1>4. at \in Nat /\ at \in Index /\ at \in Int
  BY <1>1 DEF Index
<1>5. /\ recheck_allow' = [recheck_allow EXCEPT ![n] = FALSE]
      /\ admin_thread_list' = [admin_thread_list EXCEPT ![n] = Tail(@)]
      /\ admin' = [admin EXCEPT ![n] = [pc |-> "send", job |-> job, todo |-> Peers[n]]]
      /\ UNCHANGED <<up, committed_index, customer_record, ifa, netVars, clientVars,
                     lbVars, bounds>>
      /\ IF job.op = CommitOnly
         THEN UNCHANGED <<smr_log, last_index, wal>>
         ELSE /\ last_index' = [last_index EXCEPT ![n] = at]
              /\ wal' = [wal EXCEPT ![n] = WriteLog(wal[n], job.op)]
              /\ smr_log' = [smr_log EXCEPT ![n] = Insert(smr_log[n], at, job.op)]
  BY DEF AdminTake, IsAnnouncement, TypeOK
<1> HIDE DEF job, at
<1>6. /\ recheck_allow' \in [Node -> BOOLEAN]
      /\ admin_thread_list' \in [Node -> Seq(Request)]
  BY <1>2, <1>5 DEF TypeOK
<1>7. admin' \in [Node -> AdminState]
  <2>1. [pc |-> "send", job |-> job, todo |-> Peers[n]] \in AdminState
    BY <1>2, PeersAssumption DEF AdminState
  <2> QED
    BY <1>5, <2>1 DEF TypeOK
<1>8. /\ smr_log' \in [Node -> Seq(Entry)]
      /\ last_index' \in [Node -> Index]
      /\ wal' \in [Node -> Wal(Entry)]
  <2>1. CASE job.op = CommitOnly
    BY <1>5, <2>1 DEF TypeOK
  <2>2. CASE job.op # CommitOnly
    <3>1. job.op \in Entry
      BY <1>3, <2>2 DEF Entry
    <3>2. WriteLog(wal[n], job.op) \in Wal(Entry)
      BY <1>1, <3>1, WriteLogFields
    <3>3. Insert(smr_log[n], at, job.op) \in Seq(Entry)
      BY <1>1, <1>4, <3>1, InsertType
    <3>4. smr_log' \in [Node -> Seq(Entry)]
      <4>1. smr_log' = [smr_log EXCEPT ![n] = Insert(smr_log[n], at, job.op)]
        BY <1>5, <2>2
      <4>2. smr_log \in [Node -> Seq(Entry)]
        BY DEF TypeOK
      <4> QED
        BY <3>3, <4>1, <4>2, UpdateType
    <3>5. last_index' \in [Node -> Index]
      BY <1>4, <1>5, <2>2 DEF TypeOK
    <3>6. wal' \in [Node -> Wal(Entry)]
      BY <1>5, <2>2, <3>2 DEF TypeOK
    <3> QED
      BY <3>4, <3>5, <3>6
  <2> QED
    BY <2>1, <2>2
<1> QED
  BY <1>5, <1>6, <1>7, <1>8 DEF TypeOK, netVars, clientVars, lbVars, bounds

\* A message leaves a server.
LEMMA WireType ==
    ASSUME TypeOK, NEW p \in Node, NEW b, NEW s \in Seq(Message),
           wire' = [wire EXCEPT ![p][b] = wire[p][b] \o s], b \in Node
    PROVE  wire' \in [Node -> [Node -> Seq(Message)]]
<1>1. wire[p][b] \in Seq(Message)
  BY DEF TypeOK
<1>2. wire[p][b] \o s \in Seq(Message)
  BY <1>1, ConcatProperties
<1> HIDE DEF TypeOK
<1>3. wire \in [Node -> [Node -> Seq(Message)]]
  BY DEF TypeOK
<1> DEFINE m == wire[p][b] \o s
<1> HIDE DEF m
<1>4. m \in Seq(Message)
  BY <1>2 DEF m
<1>5. wire' = [wire EXCEPT ![p][b] = m]
  BY DEF m
<1> QED
  BY <1>3, <1>4, <1>5

LEMMA AdminSendType == ASSUME TypeOK, NEW n \in Node, AdminSend(n) PROVE TypeOK'
<1> DEFINE to  == Head(admin[n].todo)
           msg == [kind |-> "req",
                   req  |-> [committed_index |-> committed_index[n],
                             last_index      |-> last_index[n],
                             op              |-> admin[n].job.op]]
<1>1. /\ admin[n].pc = "send" /\ admin[n].todo # <<>>
      /\ wire' = [wire EXCEPT ![n][to] = Append(wire[n][to], msg)]
      /\ admin' = [admin EXCEPT ![n].pc = "ack"]
      /\ UNCHANGED <<up, logVars, recheck_allow, admin_thread_list, ifa, socket, reply,
                     clientVars, lbVars, bounds>>
  BY DEF AdminSend
<1>2. admin[n].job \in Request /\ admin[n].todo \in Seq(Node)
  BY <1>1, AdminStateCases DEF TypeOK
<1>3. to \in Node
  BY <1>1, <1>2, HeadTailProperties
<1>4. msg \in Message
  BY <1>2 DEF Message, ReplReq, Request, TypeOK
<1>5. wire' \in [Node -> [Node -> Seq(Message)]]
  <2> HIDE DEF to, msg
  <2>1. Append(wire[n][to], msg) \in Seq(Message)
    BY <1>3, <1>4, AppendProperties DEF TypeOK
  <2> QED
    BY <1>1, <1>3, <2>1 DEF TypeOK
<1>6. admin' \in [Node -> AdminState]
  <2>1. [admin[n] EXCEPT !.pc = "ack"] = [pc |-> "ack", job |-> admin[n].job, todo |-> admin[n].todo]
    BY AdminStateFields DEF TypeOK
  <2>2. [pc |-> "ack", job |-> admin[n].job, todo |-> admin[n].todo] \in AdminState
    BY <1>1, <1>2 DEF AdminState
  <2> QED
    BY <1>1, <2>1, <2>2 DEF TypeOK
<1> HIDE DEF to, msg
<1> QED
  BY <1>1, <1>5, <1>6 DEF TypeOK, logVars, clientVars, lbVars, bounds

LEMMA AdminAckType == ASSUME TypeOK, NEW n \in Node, AdminAck(n) PROVE TypeOK'
<1> DEFINE from == Head(admin[n].todo)
           ack  == reply[n][from]
           log  == RecoveryLog(n, ack.committed_index)
           msgs == [i \in 1 .. Len(log) |-> [kind |-> "op", op |-> log[i]]]
<1>1. /\ admin[n].pc \in {"ack", "reack"}
      /\ ack # None
      /\ reply' = [reply EXCEPT ![n][from] = None]
      /\ \/ ack.is_success = 1 /\ NextPeer(n) /\ UNCHANGED wire
         \/ /\ ack.is_success = 2
            /\ admin' = [admin EXCEPT ![n].pc = "reack"]
            /\ wire' = IF socket[n][from] = "open"
                       THEN [wire EXCEPT ![n][from] = wire[n][from] \o msgs] ELSE wire
      /\ UNCHANGED <<up, logVars, recheck_allow, admin_thread_list, ifa, socket,
                     clientVars, lbVars, bounds>>
  BY DEF AdminAck
<1>2. admin[n].job \in Request /\ admin[n].todo \in Seq(Node) /\ admin[n].todo # <<>>
  BY <1>1, AdminStateCases DEF TypeOK
<1>3. from \in Node
  BY <1>2, HeadTailProperties
<1>4. ack \in Ack
  <2>1. reply[n][from] \in Ack \cup {None}
    <3> HIDE DEF from
    <3> QED
      BY <1>3 DEF TypeOK
  <2> QED
    BY <1>1, <2>1
<1>5. msgs \in Seq(Message)
  <2>1. ack.committed_index \in Index /\ smr_log[n] \in Seq(Entry)
    BY <1>4 DEF Ack, TypeOK
  <2>2. log \in Seq(Entry)
    BY <2>1, RecoveryLogType
  <2> HIDE DEF log
  <2> QED
    BY <2>2, RecoveryMessagesType
<1> HIDE DEF from, ack, msgs
<1>6. reply' \in [Node -> [Node -> Ack \cup {None}]]
  BY <1>1, <1>3 DEF TypeOK
<1>7. admin' \in [Node -> AdminState] /\ wire' \in [Node -> [Node -> Seq(Message)]]
  <2>1. CASE ack.is_success = 1 /\ NextPeer(n) /\ UNCHANGED wire
    BY <1>1, <1>2, <2>1, NextPeerType DEF TypeOK
  <2>2. CASE /\ admin' = [admin EXCEPT ![n].pc = "reack"]
             /\ wire' = IF socket[n][from] = "open"
                        THEN [wire EXCEPT ![n][from] = wire[n][from] \o msgs] ELSE wire
    <3>1. [admin[n] EXCEPT !.pc = "reack"]
             = [pc |-> "reack", job |-> admin[n].job, todo |-> admin[n].todo]
      BY AdminStateFields DEF TypeOK
    <3>2. [pc |-> "reack", job |-> admin[n].job, todo |-> admin[n].todo] \in AdminState
      BY <1>2 DEF AdminState
    <3>3. admin' \in [Node -> AdminState]
      BY <2>2, <3>1, <3>2 DEF TypeOK
    <3>4. wire' \in [Node -> [Node -> Seq(Message)]]
      BY <1>3, <1>5, <2>2, WireType DEF TypeOK
    <3> QED
      BY <3>3, <3>4
  <2> QED
    BY <1>1, <2>1, <2>2
<1> QED
  BY <1>1, <1>6, <1>7 DEF TypeOK, logVars, clientVars, lbVars, bounds

LEMMA AdminPeerGoneType == ASSUME TypeOK, NEW n \in Node, AdminPeerGone(n) PROVE TypeOK'
<1>1. admin' \in [Node -> AdminState]
  BY NextPeerType DEF AdminPeerGone, PeerFailed
<1> DEFINE peer == Head(admin[n].todo)
<1>2. peer \in Node
  <2>1. admin[n].todo \in Seq(Node) /\ admin[n].todo # <<>>
    BY AdminStateCases DEF AdminPeerGone, PeerFailed, TypeOK
  <2> QED
    BY <2>1, HeadTailProperties
<1>3. PICK s \in {"closed", "broken"} : socket' = [socket EXCEPT ![n][peer] = s]
  BY DEF AdminPeerGone
<1> HIDE DEF peer
<1>4. socket' \in [Node -> [Node -> {"closed", "open", "broken"}]]
  BY <1>2, <1>3 DEF TypeOK
<1> QED
  BY <1>1, <1>4 DEF AdminPeerGone, TypeOK, logVars, clientVars, lbVars, bounds

LEMMA AdminCommitType == ASSUME TypeOK, NEW n \in Node, AdminCommit(n) PROVE TypeOK'
<1>1. admin[n].pc = "send" /\ admin[n].job \in Request
  BY AdminStateCases DEF AdminCommit, TypeOK
<1>2. admin[n].job.op \in Order \cup {CommitOnly} /\ admin[n].job.eng \in Customer
  BY <1>1 DEF Request
<1>3. /\ customer_record' \in [Node -> [Customer -> 0 .. MaxOrders]]
      /\ committed_index' \in [Node -> Index]
  <2>1. CASE admin[n].job.op = CommitOnly
    BY <2>1 DEF AdminCommit, IsAnnouncement, TypeOK
  <2>2. CASE admin[n].job.op # CommitOnly
    <3>1. admin[n].job.op \in Entry /\ customer_record[n] \in [Customer -> 0 .. MaxOrders]
      BY <1>2, <2>2 DEF Entry, TypeOK
    <3>2. Apply(customer_record[n], admin[n].job.op) \in [Customer -> 0 .. MaxOrders]
      BY <3>1, ApplyType
    <3>3. CommitLast(n, admin[n].job.op)
      BY <2>2 DEF AdminCommit, IsAnnouncement
    <3> QED
      BY <3>2, <3>3 DEF CommitLast, TypeOK
  <2> QED
    BY <2>1, <2>2
<1>4. engineer' \in [Customer -> EngineerState]
  BY <1>2 DEF AdminCommit, TypeOK, EngineerState
<1>5. admin' \in [Node -> AdminState]
  <2>1. /\ [AdminWaits EXCEPT !.pc = "wait"] \in AdminState
        /\ [AdminWaits EXCEPT !.pc = "next"] \in AdminState
    BY DEF AdminWaits, AdminState
  <2>2. CASE admin_thread_list[n] = <<>>
    <3>1. admin' = [admin EXCEPT ![n] = [AdminWaits EXCEPT !.pc = "wait"]]
      BY <2>2 DEF AdminCommit
    <3> QED
      BY <2>1, <3>1 DEF TypeOK
  <2>3. CASE admin_thread_list[n] # <<>>
    <3>1. admin' = [admin EXCEPT ![n] = [AdminWaits EXCEPT !.pc = "next"]]
      BY <2>3 DEF AdminCommit
    <3> QED
      BY <2>1, <3>1 DEF TypeOK
  <2> QED
    BY <2>2, <2>3
<1> QED
  BY <1>3, <1>4, <1>5 DEF AdminCommit, TypeOK, netVars, lbVars, bounds

-----------------------------------------------------------------------------
(***************************************************************************)
(* Type correctness: ifa threads.                                          *)
(***************************************************************************)

\* An answer to the primary.
LEMMA ReplyType ==
    ASSUME TypeOK, NEW p \in Node, NEW b \in Node, NEW ack \in Ack, Reply(p, b, ack)
    PROVE  reply' \in [Node -> [Node -> Ack \cup {None}]]
BY DEF Reply, TypeOK

\* The request an ifa thread works on, and what its steps change.
LEMMA IfaFields ==
    ASSUME NEW b \in Node, TypeOK, ifa[b] # None
    PROVE  /\ ifa[b] \in IfaState
           /\ ifa[b].from \in Node /\ ifa[b].req \in ReplReq /\ ifa[b].i \in Nat
           /\ ifa[b].req.committed_index \in Index /\ ifa[b].req.last_index \in Index
<1>1. ifa[b] \in IfaState
  BY DEF TypeOK
<1>2. ifa[b].from \in Node /\ ifa[b].req \in ReplReq /\ ifa[b].i \in Nat
  BY <1>1 DEF IfaState
<1>3. ifa[b].req.committed_index \in Index /\ ifa[b].req.last_index \in Index
  BY <1>2 DEF ReplReq
<1> QED
  BY <1>1, <1>2, <1>3

LEMMA IfaSetPhase ==
    ASSUME NEW a \in IfaState, NEW q \in {"read", "write", "apply"}
    PROVE  [a EXCEPT !.phase = q] \in IfaState
BY DEF IfaState

LEMMA IfaSetIndex ==
    ASSUME NEW a \in IfaState, NEW r \in Nat
    PROVE  [a EXCEPT !.i = r] \in IfaState
BY DEF IfaState

\* A turn of one of the two loops.
LEMMA HandledType ==
    ASSUME TypeOK, NEW b \in Node, ifa[b] # None,
           NEW phase \in {"write", "apply"}, NEW first \in Nat, Handled(b, phase, first)
    PROVE  ifa' \in [Node -> IfaState \cup {None}]
<1>1. ifa[b] \in IfaState /\ ifa[b].i \in Nat /\ ifa \in [Node -> IfaState \cup {None}]
  BY IfaFields DEF TypeOK
<1> DEFINE d == [ifa[b] EXCEPT !.phase = phase]
<1>2. d \in IfaState
  BY <1>1, IfaSetPhase
<1>3. [ifa[b] EXCEPT !.phase = phase, !.i = first] \in IfaState
  <2>1. [ifa[b] EXCEPT !.phase = phase, !.i = first] = [d EXCEPT !.i = first]
    BY <1>1 DEF IfaState
  <2> HIDE DEF d
  <2>2. [d EXCEPT !.i = first] \in IfaState
    BY <1>2, IfaSetIndex
  <2> QED
    BY <2>1, <2>2
<1>4. [ifa[b] EXCEPT !.i = ifa[b].i + 1] \in IfaState
  <2>1. ifa[b].i + 1 \in Nat
    BY <1>1
  <2> QED
    BY <1>1, <2>1, IfaSetIndex
<1>5. CASE ifa[b].i = ifa[b].req.last_index
  <2>1. ifa' = [ifa EXCEPT ![b] = [ifa[b] EXCEPT !.phase = phase, !.i = first]]
    BY <1>1, <1>5 DEF Handled
  <2> QED
    BY <1>1, <1>3, <2>1, UpdateType
<1>6. CASE ifa[b].i # ifa[b].req.last_index
  <2>1. ifa' = [ifa EXCEPT ![b] = [ifa[b] EXCEPT !.i = ifa[b].i + 1]]
    BY <1>1, <1>6 DEF Handled
  <2> QED
    BY <1>1, <1>4, <2>1, UpdateType
<1> QED
  BY <1>5, <1>6

\* What is still to be read after a message was.
LEMMA ReadType ==
    ASSUME TypeOK, NEW p \in Node, NEW b \in Node, wire[p][b] # <<>>,
           wire' = [wire EXCEPT ![p][b] = Tail(@)]
    PROVE  /\ Head(wire[p][b]) \in Message
           /\ wire' \in [Node -> [Node -> Seq(Message)]]
<1>1. wire[p][b] \in Seq(Message)
  BY DEF TypeOK
<1>2. Head(wire[p][b]) \in Message /\ Tail(wire[p][b]) \in Seq(Message)
  BY <1>1, HeadTailProperties
<1>3. wire \in [Node -> [Node -> Seq(Message)]]
  BY DEF TypeOK
<1>4. wire' = [wire EXCEPT ![p][b] = Tail(wire[p][b])]
  BY <1>3
<1> DEFINE rest == Tail(wire[p][b])
<1> HIDE DEF rest
<1>5. wire' = [wire EXCEPT ![p][b] = rest] /\ rest \in Seq(Message)
  BY <1>2, <1>4 DEF rest
<1>6. wire' \in [Node -> [Node -> Seq(Message)]]
  BY <1>3, <1>5
<1> QED
  BY <1>2, <1>6

LEMMA IfaReadType ==
    ASSUME TypeOK, NEW p \in Node, NEW b \in Node, IfaRead(p, b) PROVE TypeOK'
<1> DEFINE req == Head(wire[p][b]).req
           gap == req.last_index - last_index[b] > 1
<1>1. /\ wire[p][b] # <<>> /\ Head(wire[p][b]).kind = "req"
      /\ wire' = [wire EXCEPT ![p][b] = Tail(@)]
      /\ ifa' = [ifa EXCEPT ![b] = [from |-> p, req |-> req, i |-> last_index[b] + 1,
                                     phase |-> IF gap THEN "read" ELSE "apply"]]
      /\ IF gap THEN Reply(p, b, [is_success |-> 2, committed_index |-> committed_index[b]])
                ELSE UNCHANGED reply
      /\ IF gap \/ req.op = CommitOnly THEN UNCHANGED <<wal, smr_log>>
         ELSE /\ wal' = [wal EXCEPT ![b] = Flushed(WriteLog(wal[b], req.op))]
              /\ smr_log' = [smr_log EXCEPT ![b] = Insert(smr_log[b], req.last_index, req.op)]
      /\ UNCHANGED <<up, last_index, committed_index, customer_record, recheck_allow,
                     admin_thread_list, admin, socket, clientVars, lbVars, bounds>>
  BY DEF IfaRead, IsAnnouncement, TypeOK
<1>2. wire' \in [Node -> [Node -> Seq(Message)]] /\ Head(wire[p][b]) \in Message
  BY <1>1, ReadType
<1>3. req \in ReplReq
  BY <1>1, <1>2 DEF Message
<1>4. /\ last_index[b] \in Index /\ committed_index[b] \in Index
      /\ smr_log[b] \in Seq(Entry) /\ wal[b] \in Wal(Entry)
  BY DEF TypeOK
<1> HIDE DEF req, gap
<1>5. ifa' \in [Node -> IfaState \cup {None}]
  <2>1. last_index[b] + 1 \in Nat
    BY <1>4 DEF Index
  <2>2. \A phase \in {"read", "apply"} :
           [from |-> p, req |-> req, i |-> last_index[b] + 1, phase |-> phase] \in IfaState
    BY <1>3, <2>1 DEF IfaState
  <2>3. [from |-> p, req |-> req, i |-> last_index[b] + 1,
         phase |-> IF gap THEN "read" ELSE "apply"] \in IfaState
    BY <2>2
  <2> QED
    BY <1>1, <2>3 DEF TypeOK
<1>6. reply' \in [Node -> [Node -> Ack \cup {None}]]
  <2>1. [is_success |-> 2, committed_index |-> committed_index[b]] \in Ack
    BY <1>4 DEF Ack
  <2> QED
    BY <1>1, <2>1, ReplyType DEF TypeOK
<1>7. wal' \in [Node -> Wal(Entry)] /\ smr_log' \in [Node -> Seq(Entry)]
  <2>1. CASE gap \/ req.op = CommitOnly
    BY <1>1, <2>1 DEF TypeOK
  <2>2. CASE ~(gap \/ req.op = CommitOnly)
    <3>1. req.op \in Entry /\ req.last_index \in Int
      BY <1>3, <2>2 DEF Entry, ReplReq, Index
    <3>2. Flushed(WriteLog(wal[b], req.op)) \in Wal(Entry)
      BY <1>4, <3>1, WriteLogFields, FlushedFields
    <3>3. Insert(smr_log[b], req.last_index, req.op) \in Seq(Entry)
      BY <1>4, <3>1, InsertType
    <3>4. wal' \in [Node -> Wal(Entry)]
      BY <1>1, <2>2, <3>2 DEF TypeOK
    <3>5. smr_log' \in [Node -> Seq(Entry)]
      BY <1>1, <2>2, <3>3 DEF TypeOK
    <3> QED
      BY <3>4, <3>5
  <2> QED
    BY <2>1, <2>2
<1> QED
  BY <1>1, <1>2, <1>5, <1>6, <1>7 DEF TypeOK, clientVars, lbVars, bounds

LEMMA IfaStrayType ==
    ASSUME TypeOK, NEW p \in Node, NEW b \in Node, IfaStray(p, b) PROVE TypeOK'
<1>1. PICK w \in {wal[b], Flushed(WriteLog(wal[b], Garbage))} : Die(b, w)
  BY DEF IfaStray
<1>2. wal[b] \in Wal(Entry) /\ Garbage \in Entry
  BY DEF TypeOK, Entry
<1>3. w \in Wal(Entry)
  BY <1>2, WriteLogFields, FlushedFields
<1>4. crashes' \in Nat /\ restarts' \in Nat
  BY DEF IfaStray, bounds, TypeOK
<1> QED
  BY <1>1, <1>3, <1>4, DieType

LEMMA RecoverReadType == ASSUME TypeOK, NEW b \in Node, RecoverRead(b) PROVE TypeOK'
<1> DEFINE p == ifa[b].from
<1>1. /\ ifa[b] # None
      /\ IF wire[p][b] # <<>>
         THEN /\ smr_log' = [smr_log EXCEPT ![b] =
                                Insert(smr_log[b], ifa[b].i, EntryIn(Head(wire[p][b])))]
              /\ wire' = [wire EXCEPT ![p][b] = Tail(@)]
         ELSE /\ smr_log' = [smr_log EXCEPT ![b] = Insert(smr_log[b], ifa[b].i, Garbage)]
              /\ UNCHANGED wire
      /\ Handled(b, "write", last_index[b] + 1)
      /\ UNCHANGED <<up, last_index, committed_index, customer_record, wal, recheck_allow,
                     admin_thread_list, admin, socket, reply, clientVars, lbVars, bounds>>
  BY DEF RecoverRead, TypeOK
<1>2. p \in Node /\ ifa[b].i \in Nat /\ ifa[b].i \in Int
  BY <1>1, IfaFields
<1>3. /\ smr_log \in [Node -> Seq(Entry)] /\ smr_log[b] \in Seq(Entry)
      /\ Garbage \in Entry
  BY DEF TypeOK, Entry
<1>4. ifa' \in [Node -> IfaState \cup {None}]
  <2>1. last_index[b] \in Index
    BY DEF TypeOK
  <2>2. last_index[b] + 1 \in Nat
    BY <2>1 DEF Index
  <2> QED
    BY <1>1, <2>2, HandledType
<1> HIDE DEF p
<1>5. wire' \in [Node -> [Node -> Seq(Message)]]
  BY <1>1, <1>2, ReadType DEF TypeOK
<1>6. smr_log' \in [Node -> Seq(Entry)]
  <2>1. CASE wire[p][b] # <<>>
    <3>1. Head(wire[p][b]) \in Message
      BY <1>1, <1>2, <2>1, ReadType
    <3>2. EntryIn(Head(wire[p][b])) \in Entry
      BY <1>3, <3>1 DEF EntryIn, Message
    <3>3. Insert(smr_log[b], ifa[b].i, EntryIn(Head(wire[p][b]))) \in Seq(Entry)
      BY <1>2, <1>3, <3>2, InsertType
    <3>4. smr_log' = [smr_log EXCEPT ![b] =
                        Insert(smr_log[b], ifa[b].i, EntryIn(Head(wire[p][b])))]
      BY <1>1, <2>1
    <3> QED
      BY <1>3, <3>3, <3>4, UpdateType
  <2>2. CASE wire[p][b] = <<>>
    <3>1. Insert(smr_log[b], ifa[b].i, Garbage) \in Seq(Entry)
      BY <1>2, <1>3, InsertType
    <3>2. smr_log' = [smr_log EXCEPT ![b] = Insert(smr_log[b], ifa[b].i, Garbage)]
      BY <1>1, <2>2
    <3> QED
      BY <1>3, <3>1, <3>2, UpdateType
  <2> QED
    BY <2>1, <2>2
<1> QED
  BY <1>1, <1>4, <1>5, <1>6 DEF TypeOK, clientVars, lbVars, bounds

LEMMA RecoverFailType == ASSUME TypeOK, NEW b \in Node, RecoverFail(b) PROVE TypeOK'
<1>1. [ifa[b] EXCEPT !.phase = "apply"] \in IfaState
  BY IfaFields, IfaSetPhase DEF RecoverFail
<1>2. ifa' = [ifa EXCEPT ![b] = [ifa[b] EXCEPT !.phase = "apply"]]
  BY DEF RecoverFail, TypeOK
<1>3. ifa' \in [Node -> IfaState \cup {None}]
  BY <1>1, <1>2 DEF TypeOK
<1> QED
  BY <1>3 DEF RecoverFail, TypeOK, logVars, netVars, clientVars, lbVars, bounds

LEMMA RecoverWriteType == ASSUME TypeOK, NEW b \in Node, RecoverWrite(b) PROVE TypeOK'
<1> DEFINE i  == ifa[b].i
           op == At(smr_log[b], i)
           committed == IsCommitted(ifa[b].req, i)
<1>1. /\ ifa[b] # None /\ UNCHANGED bounds
      /\ smr_log[b] \in Seq(Entry) /\ wal[b] \in Wal(Entry)
      /\ customer_record[b] \in [Customer -> 0 .. MaxOrders]
  BY DEF RecoverWrite, TypeOK
<1>2. i \in Nat /\ i \in Int /\ i \in Index
  BY <1>1, IfaFields DEF Index
<1>3. CASE InRange(smr_log[b], i)
  <2>1. /\ wal' = [wal EXCEPT ![b] = WriteLog(wal[b], op)]
        /\ customer_record' =
              IF committed
              THEN [customer_record EXCEPT ![b] = Apply(customer_record[b], op)]
              ELSE customer_record
        /\ committed_index' =
              IF committed THEN [committed_index EXCEPT ![b] = i] ELSE committed_index
        /\ Handled(b, "apply", i)
        /\ UNCHANGED <<up, smr_log, last_index, recheck_allow, admin_thread_list,
                       admin, netVars, clientVars, lbVars>>
    BY <1>3 DEF RecoverWrite, TypeOK
  <2>2. op \in Entry
    BY <1>1, <1>2, <1>3, AtType
  <2>3. ifa' \in [Node -> IfaState \cup {None}]
    BY <1>1, <1>2, <2>1, HandledType
  <2> HIDE DEF i, op, committed
  <2>4. wal' \in [Node -> Wal(Entry)]
    BY <1>1, <2>1, <2>2, WriteLogFields DEF TypeOK
  <2>5. customer_record' \in [Node -> [Customer -> 0 .. MaxOrders]]
    <3>1. Apply(customer_record[b], op) \in [Customer -> 0 .. MaxOrders]
      BY <1>1, <2>2, ApplyType
    <3> QED
      BY <2>1, <3>1 DEF TypeOK
  <2>6. committed_index' \in [Node -> Index]
    BY <1>2, <2>1 DEF TypeOK
  <2> QED
    BY <1>1, <2>1, <2>3, <2>4, <2>5, <2>6 DEF TypeOK, netVars, clientVars, lbVars, bounds
<1>4. CASE ~InRange(smr_log[b], i)
  <2>1. Die(b, wal[b]) /\ crashes' \in Nat /\ restarts' \in Nat
    BY <1>1, <1>4 DEF RecoverWrite, TypeOK, bounds
  <2> QED
    BY <1>1, <2>1, DieType
<1> QED
  BY <1>3, <1>4

LEMMA IfaApplyType == ASSUME TypeOK, NEW b \in Node, IfaApply(b) PROVE TypeOK'
<1> DEFINE req == ifa[b].req
           first == req.committed_index = -1
           ack == [is_success |-> 1, committed_index |-> -1]
<1>1. /\ ifa[b] # None /\ UNCHANGED bounds
      /\ smr_log[b] \in Seq(Entry) /\ wal[b] \in Wal(Entry)
      /\ customer_record[b] \in [Customer -> 0 .. MaxOrders]
  BY DEF IfaApply, TakeOverIndex, TypeOK
<1>2. /\ ifa[b].from \in Node
      /\ req.committed_index \in Index /\ req.last_index \in Index
  BY <1>1, IfaFields
<1>3. req.committed_index \in Int
  BY <1>2 DEF Index
<1>4. CASE first \/ InRange(smr_log[b], req.committed_index)
  <2>1. /\ last_index' = [last_index EXCEPT ![b] = req.last_index]
        /\ committed_index' =
              IF first THEN committed_index
              ELSE [committed_index EXCEPT ![b] = req.committed_index]
        /\ customer_record' =
              IF first THEN customer_record
              ELSE [customer_record EXCEPT ![b] =
                       Apply(customer_record[b], At(smr_log[b], req.committed_index))]
        /\ ifa' = [ifa EXCEPT ![b] = None]
        /\ Reply(ifa[b].from, b, ack)
        /\ UNCHANGED <<up, smr_log, wal, recheck_allow, admin_thread_list, admin,
                       socket, wire, clientVars, lbVars>>
    BY <1>4 DEF IfaApply, TakeOverIndex, TypeOK
  <2>2. reply' \in [Node -> [Node -> Ack \cup {None}]]
    <3>1. ack \in Ack
      BY DEF Ack, Index
    <3> QED
      BY <1>2, <2>1, <3>1, ReplyType
  <2>3. customer_record' \in [Node -> [Customer -> 0 .. MaxOrders]]
    <3>1. CASE first
      BY <2>1, <3>1 DEF TypeOK
    <3>2. CASE ~first
      <4>1. At(smr_log[b], req.committed_index) \in Entry
        BY <1>1, <1>3, <1>4, <3>2, AtType
      <4>2. Apply(customer_record[b], At(smr_log[b], req.committed_index))
               \in [Customer -> 0 .. MaxOrders]
        BY <1>1, <4>1, ApplyType
      <4> QED
        BY <2>1, <3>2, <4>2 DEF TypeOK
    <3> QED
      BY <3>1, <3>2
  <2> HIDE DEF req, first, ack
  <2>4. last_index' \in [Node -> Index] /\ committed_index' \in [Node -> Index]
    BY <1>2, <2>1 DEF TypeOK
  <2>5. ifa' \in [Node -> IfaState \cup {None}]
    BY <2>1 DEF TypeOK
  <2> QED
    BY <1>1, <2>1, <2>2, <2>3, <2>4, <2>5 DEF TypeOK, clientVars, lbVars, bounds
<1>5. CASE ~(first \/ InRange(smr_log[b], req.committed_index))
  <2>1. Die(b, wal[b]) /\ crashes' \in Nat /\ restarts' \in Nat
    BY <1>1, <1>5 DEF IfaApply, TakeOverIndex, TypeOK, bounds
  <2> QED
    BY <1>1, <2>1, DieType
<1> QED
  BY <1>4, <1>5

-----------------------------------------------------------------------------
(***************************************************************************)
(* Type correctness: restart, and the theorem.                             *)
(***************************************************************************)

\* What a starting server reads back are entries.
LEMMA RecoveredType ==
    ASSUME NEW w \in Wal(Entry) PROVE Recovered(w) \in Seq(Entry)
<1>1. Bad \notin Entry
  BY OpAssumption, OpsDiffer DEF Entry
<1> QED
  BY <1>1, RecoveredCases

\* The index from a peer.
LEMMA RemoteCommittedType ==
    ASSUME TypeOK, NEW n \in Node PROVE RemoteCommitted(n) \in Index
<1> DEFINE live == {i \in 1 .. Len(Peers[n]) : up[Peers[n][i]]}
<1>1. CASE live = {}
  BY <1>1 DEF RemoteCommitted, Index
<1>2. CASE live # {}
  <2>1. Peers[n] \in Seq(Node) /\ Len(Peers[n]) \in Nat
    BY PeersAssumption, LenProperties
  <2>2. live \in SUBSET Nat /\ live \subseteq 1 .. Len(Peers[n])
    BY <2>1
  <2>3. RemoteCommitted(n) = committed_index[Peers[n][Least(live)]]
    BY <1>2 DEF RemoteCommitted
  <2> HIDE DEF live
  <2>4. Least(live) \in 1 .. Len(Peers[n])
    BY <1>2, <2>2, LeastType
  <2>5. Peers[n][Least(live)] \in Node
    BY <2>1, <2>4, ElementOfSeq
  <2> QED
    BY <2>3, <2>5 DEF TypeOK
<1> QED
  BY <1>1, <1>2

LEMMA RestartType == ASSUME TypeOK, NEW n \in Node, Restart(n) PROVE TypeOK'
<1> DEFINE log  == Recovered(wal[n])
           last == ReplayIndex(Len(log), RemoteCommitted(n))
<1>1. log \in Seq(Entry)
  BY RecoveredType DEF TypeOK
<1>2. last \in Index /\ last \in Int
  <2>1. Len(log) \in Nat
    BY <1>1, LenProperties
  <2>2. Len(log) - 1 \in Index
    BY <2>1 DEF Index
  <2> QED
    BY <2>2, RemoteCommittedType DEF ReplayIndex, Index
<1>3. /\ IF last < Len(log)
         THEN /\ up' = [up EXCEPT ![n] = TRUE]
              /\ smr_log' = [smr_log EXCEPT ![n] = log]
              /\ last_index' = [last_index EXCEPT ![n] = last]
              /\ committed_index' = [committed_index EXCEPT ![n] = last]
              /\ customer_record' = [customer_record EXCEPT ![n] = Replay(log, last)]
         ELSE UNCHANGED <<up, smr_log, last_index, committed_index, customer_record>>
      /\ restarts' = restarts + 1
      /\ UNCHANGED <<wal, threadVars, netVars, clientVars, lbVars, crashes>>
  BY DEF Restart
<1> HIDE DEF log, last
<1>4. /\ up' \in [Node -> BOOLEAN] /\ smr_log' \in [Node -> Seq(Entry)]
      /\ last_index' \in [Node -> Index] /\ committed_index' \in [Node -> Index]
      /\ customer_record' \in [Node -> [Customer -> 0 .. MaxOrders]]
  <2>1. CASE last < Len(log)
    <3>1. Replay(log, last) \in [Customer -> 0 .. MaxOrders]
      BY <1>1, <1>2, <2>1, ReplayType
    <3>0. /\ up' = [up EXCEPT ![n] = TRUE]
          /\ smr_log' = [smr_log EXCEPT ![n] = log]
          /\ last_index' = [last_index EXCEPT ![n] = last]
          /\ committed_index' = [committed_index EXCEPT ![n] = last]
          /\ customer_record' = [customer_record EXCEPT ![n] = Replay(log, last)]
      BY <1>3, <2>1
    <3>2. up' \in [Node -> BOOLEAN]
      BY <3>0 DEF TypeOK
    <3>5. smr_log' \in [Node -> Seq(Entry)]
      BY <1>1, <3>0 DEF TypeOK
    <3>3. last_index' \in [Node -> Index] /\ committed_index' \in [Node -> Index]
      BY <1>2, <3>0 DEF TypeOK
    <3>4. customer_record' \in [Node -> [Customer -> 0 .. MaxOrders]]
      BY <3>0, <3>1 DEF TypeOK
    <3> QED
      BY <3>2, <3>3, <3>4, <3>5
  <2>2. CASE ~(last < Len(log))
    BY <1>3, <2>2 DEF TypeOK
  <2> QED
    BY <2>1, <2>2
<1>5. restarts' \in Nat /\ crashes' \in Nat /\ wal' \in [Node -> Wal(Entry)]
  BY <1>3 DEF TypeOK
<1>6. UNCHANGED <<threadVars, netVars, clientVars, lbVars>>
  BY <1>3
<1> QED
  BY <1>4, <1>5, <1>6 DEF TypeOK, threadVars, netVars, clientVars, lbVars

\* No step leaves the types.
LEMMA NextType == TypeOK /\ [Next]_vars => TypeOK'
<1> SUFFICES ASSUME TypeOK, [Next]_vars PROVE TypeOK'
  OBVIOUS
<1>1. ASSUME NEW c \in Customer,
             Connect(c) \/ PlaceOrder(c) \/ Ship(c) \/ Hangup(c) \/ Finish(c)
      PROVE  TypeOK'
  BY <1>1, ConnectType, PlaceOrderType, ShipType, HangupType, FinishType
<1>2. ASSUME NEW n \in Node, AdminThread(n) PROVE TypeOK'
  BY <1>2, AdminRecheckType, AdminTakeType, AdminSkipType, AdminSendType, AdminAckType,
     AdminPeerGoneType, AdminCommitType DEF AdminThread
<1>3. ASSUME NEW n \in Node, IfaThread(n) PROVE TypeOK'
  BY <1>3, IfaReadType, IfaStrayType, RecoverReadType, RecoverFailType,
     RecoverWriteType, IfaApplyType DEF IfaThread
<1>4. ASSUME NEW n \in Node, CloseReader(n) \/ Crash(n) \/ Restart(n) \/ HeartBeat(n)
      PROVE  TypeOK'
  BY <1>4, CloseReaderType, CrashType, RestartType, HeartBeatType
<1>5. CASE UNCHANGED vars
  BY <1>5 DEF TypeOK, vars, logVars, threadVars, netVars, clientVars, lbVars, bounds
<1> QED
  BY <1>1, <1>2, <1>3, <1>4, <1>5 DEF Next

\* Every value the servers, their sockets, the customers' sessions and the load
\* balancer hold keeps its type (Server.cpp), whatever crashes, is cut short or
\* is read from a dead connection.
THEOREM TypesHold == Spec => []TypeOK
<1>1. Init => TypeOK
  BY InitType
<1>2. TypeOK /\ [Next]_vars => TypeOK'
  BY NextType
<1> QED
  BY <1>1, <1>2, PTL DEF Spec

-----------------------------------------------------------------------------
(***************************************************************************)
(* Engineer threads and the admin thread agree on who waits for what, for  *)
(* any number of servers, customers, orders, crashes and restarts:         *)
(* BarrierDiscipline of Replication.                                       *)
(***************************************************************************)

\* A session that was opened has a server.
Sessions == \A c \in Customer : engineer[c] # "new" => server[c] \in Node

\* BarrierDiscipline is inductive together with the types and Sessions.
BInv == TypeOK /\ Sessions /\ BarrierDiscipline

-----------------------------------------------------------------------------
(***************************************************************************)
(* What the admin thread of a server has to do.                            *)
(***************************************************************************)

\* Changes of the program counter and of the peers left to tell keep the job.
LEMMA AdminKeepsJob ==
    ASSUME NEW a \in AdminState
    PROVE  \A q, r : /\ [a EXCEPT !.pc = q].job = a.job
                     /\ [a EXCEPT !.pc = q, !.todo = r].job = a.job
<1> SUFFICES ASSUME NEW q, NEW r
             PROVE  /\ [a EXCEPT !.pc = q].job = a.job
                    /\ [a EXCEPT !.pc = q, !.todo = r].job = a.job
  OBVIOUS
<1>1. /\ [a EXCEPT !.pc = q] = [pc |-> q, job |-> a.job, todo |-> a.todo]
      /\ [a EXCEPT !.pc = q, !.todo = r] = [pc |-> q, job |-> a.job, todo |-> r]
  BY AdminStateFields
<1> QED
  BY <1>1

LEMMA SingleType ==
    ASSUME NEW S, NEW e \in S
    PROVE  <<e>> \in Seq(S) /\ Len(<<e>>) = 1 /\ <<e>>[1] = e
OBVIOUS

LEMMA RequestsCases ==
    ASSUME TypeOK, NEW n \in Node
    PROVE  /\ admin_thread_list[n] \in Seq(Request)
           /\ Requests(n) \in Seq(Request)
           /\ admin[n].job = None => Requests(n) = admin_thread_list[n]
           /\ admin[n].job # None => /\ admin[n].job \in Request
                                     /\ Requests(n) = <<admin[n].job>> \o admin_thread_list[n]
           /\ admin[n].pc \in {"wait", "next", "take"} => admin[n].job = None
           /\ admin[n].pc \in {"send", "ack", "reack"} => admin[n].job # None
<1>1. /\ admin_thread_list[n] \in Seq(Request)
      /\ admin[n] \in AdminState
  BY DEF TypeOK
<1>2. /\ admin[n].pc \in {"wait", "next", "take"} => admin[n].job = None
      /\ admin[n].pc \in {"send", "ack", "reack"} => admin[n].job \in Request
      /\ admin[n].pc \in {"wait", "next", "take", "send", "ack", "reack"}
  BY <1>1, AdminStateCases
<1>3. admin[n].job \in Request => admin[n].job # None
  BY NoneIsNoRequest
<1>4. CASE admin[n].job = None
  <2>1. Requests(n) = <<>> \o admin_thread_list[n]
    BY <1>4 DEF Requests
  <2>2. Requests(n) = admin_thread_list[n]
    BY <1>1, <2>1, ConcatEmptySeq
  <2> QED
    BY <1>1, <1>2, <1>3, <1>4, <2>2
<1>5. CASE admin[n].job # None
  <2>1. Requests(n) = <<admin[n].job>> \o admin_thread_list[n]
    BY <1>5 DEF Requests
  <2>2. admin[n].job \in Request
    BY <1>2, <1>5
  <2>3. <<admin[n].job>> \in Seq(Request)
    BY <2>2, SingleType
  <2>4. Requests(n) \in Seq(Request)
    BY <1>1, <2>1, <2>3, ConcatProperties
  <2> QED
    BY <1>1, <1>2, <1>3, <1>5, <2>1, <2>2, <2>4
<1> QED
  BY <1>4, <1>5

LEMMA RequestsLen ==
    ASSUME TypeOK, NEW n \in Node
    PROVE  Len(Requests(n)) \in Nat
BY RequestsCases, LenProperties

\* A step that leaves the list and the job of every server alone.
LEMMA SameRequests ==
    ASSUME admin_thread_list' = admin_thread_list,
           \A n \in Node : admin'[n].job = admin[n].job
    PROVE  \A n \in Node : Requests(n)' = Requests(n)
BY DEF Requests

-----------------------------------------------------------------------------
(***************************************************************************)
(* The steps that leave the requests alone.                                *)
(***************************************************************************)

\* No session changes that has a request.
LEMMA Undisturbed ==
    ASSUME BInv, TypeOK',
           \A n \in Node : Requests(n)' = Requests(n),
           \A c \in Customer :
              \/ engineer'[c] = engineer[c] /\ server'[c] = server[c] /\ ordered'[c] = ordered[c]
              \/ /\ ~AtBarrier(c) /\ engineer'[c] \notin {"waiting", "closing"}
                 /\ engineer'[c] # "new" => server'[c] \in Node
    PROVE  BInv'
<1>1. Sessions'
  BY DEF BInv, Sessions
<1>2. \A c \in Customer : AtBarrier(c)' =>
          /\ AtBarrier(c) /\ server'[c] = server[c] /\ RequestOf(c)' = RequestOf(c)
  BY DEF AtBarrier, RequestOf
<1>3. \A c \in Customer : AtBarrier(c) =>
          /\ AtBarrier(c)' /\ server'[c] = server[c] /\ RequestOf(c)' = RequestOf(c)
  BY DEF AtBarrier, RequestOf
<1>4. \A n \in Node : \A i \in 1 .. Len(Requests(n)) : Requests(n)[i].eng \in Customer
  <2> TAKE n \in Node
  <2> TAKE i \in 1 .. Len(Requests(n))
  <2>1. Requests(n)[i] \in Request
    BY RequestsCases, ElementOfSeq DEF BInv
  <2> QED
    BY <2>1 DEF Request
<1>5. NoDanglingRequest'
  BY <1>3, <1>4 DEF BInv, BarrierDiscipline, NoDanglingRequest
<1>6. NoBarrierTwice'
  BY DEF BInv, BarrierDiscipline, NoBarrierTwice
<1>7. NobodyForgotten'
  BY <1>2 DEF BInv, BarrierDiscipline, NobodyForgotten
<1> QED
  BY <1>1, <1>5, <1>6, <1>7 DEF BInv, BarrierDiscipline

\* The sessions of a step that touches none.
LEMMA QuietStep ==
    ASSUME BInv, TypeOK', \A n \in Node : Requests(n)' = Requests(n),
           UNCHANGED <<engineer, server, ordered>>
    PROVE  BInv'
BY Undisturbed

LEMMA SessionSteps ==
    ASSUME BInv, TypeOK', NEW c \in Customer,
           Connect(c) \/ Ship(c) \/ Finish(c)
    PROVE  BInv'
<1>1. \A n \in Node : Requests(n)' = Requests(n)
  BY SameRequests DEF Connect, Ship, Finish, CloseSession, threadVars
<1>2. engineer[c] \in {"new", "ready", "released", "idle"}
  BY DEF Connect, Ship, Finish
<1>3. engineer'[c] \in {"idle", "lost", "gone"}
  BY DEF Connect, Ship, Finish, BInv, TypeOK
<1>4. server'[c] \in Node
  <2>1. CASE Connect(c)
    BY <2>1, NextMaster DEF Connect, BInv, TypeOK
  <2>2. CASE Ship(c) \/ Finish(c)
    <3>1. server' = server /\ engineer[c] # "new"
      BY <2>2 DEF Ship, Finish
    <3> QED
      BY <3>1 DEF BInv, Sessions
  <2> QED
    BY <2>1, <2>2
<1>5. \A d \in Customer \ {c} :
          engineer'[d] = engineer[d] /\ server'[d] = server[d] /\ ordered'[d] = ordered[d]
  <2>1. \E x, y : /\ engineer' = [engineer EXCEPT ![c] = x]
                  /\ server' = server \/ server' = [server EXCEPT ![c] = y]
    BY DEF Connect, Ship, Finish
  <2>2. ordered' = ordered
    BY DEF Connect, Ship, Finish
  <2>3. DOMAIN engineer = Customer /\ DOMAIN server = Customer
    BY DEF BInv, TypeOK
  <2> QED
    BY <2>1, <2>2, <2>3
<1> QED
  BY <1>1, <1>2, <1>3, <1>4, <1>5, Undisturbed DEF AtBarrier

\* While a request goes round the peers it stays in the thread's hands, and so it
\* does, if there is one, after a recheck.
LEMMA SendingKeepsJobs ==
    ASSUME TypeOK, NEW n \in Node,
           \/ AdminSkip(n) \/ AdminSend(n) \/ AdminAck(n) \/ AdminPeerGone(n)
           \/ admin' = [admin EXCEPT ![n].pc = "take"]
    PROVE  \A m \in Node : admin'[m].job = admin[m].job
<1>1. /\ admin[n] \in AdminState
      /\ admin \in [Node -> AdminState]
  BY DEF TypeOK
<1>2. \A q, r : /\ [admin[n] EXCEPT !.pc = q].job = admin[n].job
                /\ [admin[n] EXCEPT !.pc = q, !.todo = r].job = admin[n].job
  BY <1>1, AdminKeepsJob
<1>3. \/ \E q : admin' = [admin EXCEPT ![n] = [admin[n] EXCEPT !.pc = q]]
      \/ \E q, r : admin' = [admin EXCEPT ![n] = [admin[n] EXCEPT !.pc = q, !.todo = r]]
  <2>1. CASE AdminSend(n)
    BY <2>1, <1>1 DEF AdminSend
  <2>2. CASE NextPeer(n)
    BY <2>2, <1>1 DEF NextPeer
  <2>3. CASE admin' = [admin EXCEPT ![n].pc = "reack"]
    BY <2>3, <1>1
  <2>4. CASE admin' = [admin EXCEPT ![n].pc = "take"]
    BY <2>4, <1>1
  <2> QED
    BY <2>1, <2>2, <2>3, <2>4 DEF AdminSkip, AdminAck, AdminPeerGone
<1>4. ASSUME NEW q, admin' = [admin EXCEPT ![n] = [admin[n] EXCEPT !.pc = q]]
      PROVE  \A m \in Node : admin'[m].job = admin[m].job
  BY <1>1, <1>2, <1>4
<1>5. ASSUME NEW q, NEW r,
             admin' = [admin EXCEPT ![n] = [admin[n] EXCEPT !.pc = q, !.todo = r]]
      PROVE  \A m \in Node : admin'[m].job = admin[m].job
  BY <1>1, <1>2, <1>5
<1> QED
  BY <1>3, <1>4, <1>5

LEMMA QuietSteps ==
    ASSUME BInv, TypeOK', NEW n \in Node,
           \/ CloseReader(n) \/ AdminSkip(n) \/ AdminSend(n) \/ AdminAck(n)
           \/ AdminPeerGone(n) \/ (\E p \in Node : IfaRead(p, n)) \/ RecoverRead(n)
           \/ RecoverFail(n) \/ Restart(n) \/ HeartBeat(n)
    PROVE  BInv'
<1>1. UNCHANGED <<engineer, server, ordered, admin_thread_list>>
  BY DEF CloseReader, CloseSession, AdminSkip, AdminSend, AdminAck, AdminPeerGone, IfaRead,
         RecoverRead, RecoverFail, Restart, HeartBeat, clientVars, threadVars
<1>2. \A m \in Node : admin'[m].job = admin[m].job
  <2>1. CASE admin' = admin
    BY <2>1
  <2>2. CASE AdminSkip(n) \/ AdminSend(n) \/ AdminAck(n) \/ AdminPeerGone(n)
    BY <2>2, SendingKeepsJobs DEF BInv
  <2> QED
    BY <2>1, <2>2 DEF CloseReader, CloseSession, IfaRead, RecoverRead, RecoverFail, Restart,
                      HeartBeat, threadVars
<1>3. \A m \in Node : Requests(m)' = Requests(m)
  BY <1>1, <1>2, SameRequests
<1> QED
  BY <1>1, <1>3, QuietStep

\* AdminTake moves the first of the list into the thread's hands.
LEMMA TakeKeeps ==
    ASSUME BInv, TypeOK', NEW n \in Node, AdminTake(n)
    PROVE  BInv'
<1> DEFINE list == admin_thread_list[n]
           job == Head(list)
<1>1. /\ TypeOK /\ list \in Seq(Request) /\ list # <<>>
      /\ admin[n].pc \in {"wait", "next", "take"}
  BY DEF BInv, TypeOK, AdminTake, AdminAwake, MtxFree
<1>2. /\ admin_thread_list' = [admin_thread_list EXCEPT ![n] = Tail(list)]
      /\ admin' = [admin EXCEPT ![n] = [pc |-> "send", job |-> job, todo |-> Peers[n]]]
      /\ UNCHANGED <<engineer, server, ordered>>
  BY DEF AdminTake, clientVars, BInv, TypeOK
<1>3. Requests(n) = list
  BY <1>1, RequestsCases
<1>4. job \in Request /\ Tail(list) \in Seq(Request) /\ job # None
  BY <1>1, HeadTailProperties, NoneIsNoRequest
<1>5. /\ admin[n] \in AdminState
      /\ admin'[n].job = job /\ admin_thread_list'[n] = Tail(list)
      /\ \A m \in Node \ {n} : admin'[m] = admin[m]
                                /\ admin_thread_list'[m] = admin_thread_list[m]
  BY <1>1, <1>2 DEF TypeOK
<1> HIDE DEF job
<1>6. Requests(n)' = <<job>> \o Tail(list)
  BY <1>4, <1>5 DEF Requests
<1>7. <<job>> \o Tail(list) = list
  <2>1. <<job>> \in Seq(Request) /\ Len(<<job>>) = 1 /\ <<job>>[1] = job
    BY <1>4, SingleType
  <2>2. Len(list) \in Nat \ {0}
    BY <1>1, EmptySeq
  <2>3. /\ Len(Tail(list)) = Len(list) - 1
        /\ \A i \in 1 .. Len(list) - 1 : Tail(list)[i] = list[i + 1]
        /\ job = list[1]
    BY <1>1, HeadTailProperties DEF job
  <2> DEFINE joined == <<job>> \o Tail(list)
  <2>4. /\ joined \in Seq(Request) /\ Len(joined) = Len(list)
        /\ \A i \in 1 .. Len(list) : joined[i] = IF i <= 1 THEN <<job>>[i] ELSE Tail(list)[i - 1]
    BY <1>4, <2>1, <2>2, <2>3, ConcatProperties
  <2>5. \A i \in 1 .. Len(list) : joined[i] = list[i]
    <3> HIDE DEF joined
    <3> TAKE i \in 1 .. Len(list)
    <3>1. CASE i = 1
      BY <2>1, <2>3, <2>4, <3>1
    <3>2. CASE i # 1
      <4>1. i - 1 \in 1 .. Len(list) - 1 /\ ~(i <= 1) /\ (i - 1) + 1 = i
        BY <2>2, <3>2
      <4> QED
        BY <2>3, <2>4, <4>1
    <3> QED
      BY <3>1, <3>2
  <2> HIDE DEF joined
  <2>6. joined = list
    BY <1>1, <2>4, <2>5, SeqEqual
  <2> QED
    BY <2>6 DEF joined
<1>8. \A m \in Node \ {n} : Requests(m)' = Requests(m)
  BY <1>5 DEF Requests
<1>9. \A m \in Node : Requests(m)' = Requests(m)
  BY <1>3, <1>6, <1>7, <1>8
<1> QED
  BY <1>2, <1>9, QuietStep

-----------------------------------------------------------------------------
(***************************************************************************)
(* The steps that add, settle or drop requests.                            *)
(***************************************************************************)

\* PlaceOrder and Hangup: an engineer thread that has no request puts one in the
\* list of its server and waits for it.
LEMMA EnqueueKeeps ==
    ASSUME BInv, TypeOK', NEW c \in Customer, PlaceOrder(c) \/ Hangup(c)
    PROVE  BInv'
<1>0. PICK n \in Node : server[c] = n
  BY DEF PlaceOrder, Hangup, BInv, Sessions
<1>1. /\ engineer[c] = "idle" /\ TypeOK
      /\ server' = server /\ admin' = admin
      /\ engineer'[c] \in {"waiting", "closing"}
      /\ \A d \in Customer \ {c} : engineer'[d] = engineer[d] /\ ordered'[d] = ordered[d]
  BY DEF PlaceOrder, Hangup, BInv, TypeOK
<1>r. PICK r : r = RequestOf(c)'
  OBVIOUS
<1>2. r \in Request /\ admin_thread_list' = [admin_thread_list EXCEPT ![n] = Append(@, r)]
  <2>1. CASE PlaceOrder(c)
    <3>1. ordered'[c] = ordered[c] + 1 /\ engineer'[c] = "waiting"
      BY <2>1 DEF PlaceOrder, BInv, TypeOK
    <3>2. r = [op |-> [arg1 |-> c, arg2 |-> ordered[c] + 1], eng |-> c]
      BY <3>1, <1>r DEF RequestOf
    <3>3. ordered[c] + 1 \in 1 .. MaxOrders
      <4>1. ordered[c] \in 0 .. MaxOrders
        BY DEF BInv, TypeOK
      <4>2. ordered[c] < MaxOrders
        BY <2>1 DEF PlaceOrder
      <4> QED
        BY <4>1, <4>2, BoundsAssumption
    <3> QED
      BY <1>0, <2>1, <3>2, <3>3 DEF PlaceOrder, NextOrder, Enqueue, Request, Order
  <2>2. CASE Hangup(c)
    <3>1. engineer'[c] = "closing"
      BY <2>2 DEF Hangup, BInv, TypeOK
    <3>2. r = [op |-> CommitOnly, eng |-> c]
      BY <3>1, <1>r DEF RequestOf
    <3> QED
      BY <1>0, <2>2, <3>2 DEF Hangup, Enqueue, Request
  <2> QED
    BY <2>1, <2>2
<1>3. r.eng = c
  BY <1>r DEF RequestOf
<1>4. /\ \A m \in Node \ {n} : Requests(m)' = Requests(m)
      /\ Requests(n) \in Seq(Request)
      /\ Requests(n)' = Append(Requests(n), r)
  <2>1. /\ admin_thread_list[n] \in Seq(Request)
        /\ admin_thread_list'[n] = Append(admin_thread_list[n], r)
        /\ \A m \in Node \ {n} : admin_thread_list'[m] = admin_thread_list[m]
    BY <1>1, <1>2 DEF TypeOK
  <2>2. \A m \in Node \ {n} : Requests(m)' = Requests(m)
    BY <1>1, <2>1 DEF Requests
  <2>3. CASE admin[n].job = None
    <3>1. Requests(n) = admin_thread_list[n]
      BY <1>1, <2>3, RequestsCases
    <3>2. Requests(n)' = <<>> \o admin_thread_list'[n]
      BY <1>1, <2>3 DEF Requests
    <3>3. admin_thread_list'[n] \in Seq(Request)
      BY <1>2, <2>1, AppendProperties
    <3>4. Requests(n)' = admin_thread_list'[n]
      BY <3>2, <3>3, ConcatEmptySeq
    <3>5. Requests(n) \in Seq(Request)
      BY <2>1, <3>1
    <3> QED
      BY <2>1, <2>2, <3>1, <3>4, <3>5
  <2>4. CASE admin[n].job # None
    <3>1. /\ admin[n].job \in Request
          /\ Requests(n) = <<admin[n].job>> \o admin_thread_list[n]
      BY <1>1, <2>4, RequestsCases
    <3>5. Requests(n)' = <<admin[n].job>> \o admin_thread_list'[n]
      BY <1>1, <2>4 DEF Requests
    <3>2. <<admin[n].job>> \in Seq(Request)
      BY <3>1, SingleType
    <3>3. <<admin[n].job>> \o Append(admin_thread_list[n], r)
             = Append(<<admin[n].job>> \o admin_thread_list[n], r)
      BY <1>2, <2>1, <3>2, SMT
    <3>4. Requests(n) \in Seq(Request)
      BY <1>1, RequestsCases
    <3> QED
      BY <2>1, <2>2, <3>1, <3>3, <3>4, <3>5
  <2> QED
    BY <2>3, <2>4
<1>5. \A m \in Node : \A i \in 1 .. Len(Requests(m)) :
          /\ Requests(m)[i].eng \in Customer \ {c}
          /\ AtBarrier(Requests(m)[i].eng) /\ server[Requests(m)[i].eng] = m
          /\ Requests(m)[i] = RequestOf(Requests(m)[i].eng)
  <2> TAKE m \in Node
  <2> TAKE i \in 1 .. Len(Requests(m))
  <2>1. Requests(m)[i] \in Request
    BY <1>1, RequestsCases, ElementOfSeq
  <2>2. Requests(m)[i].eng \in Customer
    BY <2>1 DEF Request
  <2>3. AtBarrier(Requests(m)[i].eng) /\ server[Requests(m)[i].eng] = m
        /\ Requests(m)[i] = RequestOf(Requests(m)[i].eng)
    BY DEF BInv, BarrierDiscipline, NoDanglingRequest
  <2> QED
    BY <1>1, <2>2, <2>3 DEF AtBarrier
<1>6. \A d \in Customer \ {c} :
          AtBarrier(d)' = AtBarrier(d) /\ RequestOf(d)' = RequestOf(d)
  BY <1>1 DEF AtBarrier, RequestOf
<1>7. AtBarrier(c)'
  BY <1>1 DEF AtBarrier
<1>8. /\ Len(Requests(n)) \in Nat
      /\ Len(Requests(n)') = Len(Requests(n)) + 1
      /\ \A i \in 1 .. Len(Requests(n)) : Requests(n)'[i] = Requests(n)[i]
      /\ Requests(n)'[Len(Requests(n)) + 1] = r
  BY <1>2, <1>4, LenProperties, AppendProperties
<1>9. Sessions'
  <2>1. \A d \in Customer : engineer'[d] # "new" => engineer[d] # "new"
    BY <1>1
  <2> QED
    BY <1>1, <2>1 DEF BInv, Sessions
<1>10. NoDanglingRequest'
  <2> SUFFICES ASSUME NEW m \in Node, NEW i \in 1 .. Len(Requests(m)')
               PROVE  \E d \in Customer :
                         /\ Requests(m)'[i].eng = d
                         /\ AtBarrier(d)' /\ server'[d] = m /\ Requests(m)'[i] = RequestOf(d)'
    BY DEF NoDanglingRequest
  <2>1. CASE m = n /\ i = Len(Requests(n)) + 1
    <3>1. Requests(m)'[i] = r /\ server'[c] = m
      BY <1>0, <1>1, <1>8, <2>1
    <3> QED
      BY <1>3, <1>7, <1>r, <3>1
  <2>2. CASE ~(m = n /\ i = Len(Requests(n)) + 1)
    <3>1. i \in 1 .. Len(Requests(m)) /\ Requests(m)'[i] = Requests(m)[i]
      BY <1>4, <1>8, <2>2
    <3> QED
      BY <1>1, <1>5, <1>6, <3>1
  <2> QED
    BY <2>1, <2>2
<1>11. NoBarrierTwice'
  <2> SUFFICES ASSUME NEW m \in Node,
                      NEW i \in 1 .. Len(Requests(m)'), NEW j \in 1 .. Len(Requests(m)'),
                      Requests(m)'[i].eng = Requests(m)'[j].eng
               PROVE  i = j
    BY DEF NoBarrierTwice
  <2>1. CASE m # n
    <3>1. Requests(m)' = Requests(m)
      BY <1>4, <2>1
    <3> QED
      BY <3>1 DEF BInv, BarrierDiscipline, NoBarrierTwice
  <2>2. CASE m = n
    <3>1. \A k \in 1 .. Len(Requests(n)') :
              \/ k \in 1 .. Len(Requests(n)) /\ Requests(n)'[k] = Requests(n)[k]
                 /\ Requests(n)'[k].eng # c
              \/ k = Len(Requests(n)) + 1 /\ Requests(n)'[k].eng = c
      BY <1>3, <1>5, <1>8
    <3>3. CASE Requests(n)'[i].eng = c
      BY <2>2, <3>1, <3>3
    <3>4. CASE Requests(n)'[i].eng # c
      <4>1. i \in 1 .. Len(Requests(n)) /\ j \in 1 .. Len(Requests(n))
            /\ Requests(n)[i].eng = Requests(n)[j].eng
        BY <2>2, <3>1, <3>4
      <4> QED
        BY <4>1 DEF BInv, BarrierDiscipline, NoBarrierTwice
    <3> QED
      BY <3>3, <3>4
  <2> QED
    BY <2>1, <2>2
<1>12. NobodyForgotten'
  <2> SUFFICES ASSUME NEW d \in Customer, NEW m \in Node, AtBarrier(d)', server'[d] = m
               PROVE  \E i \in 1 .. Len(Requests(m)') : Requests(m)'[i].eng = d
    BY DEF NobodyForgotten
  <2>1. CASE d = c
    <3>1. Len(Requests(n)) + 1 \in 1 .. Len(Requests(n)')
      BY <1>8
    <3> QED
      BY <1>0, <1>1, <1>3, <1>8, <2>1, <3>1
  <2>2. CASE d # c
    <3>1. AtBarrier(d) /\ server[d] = m
      BY <1>1, <1>6, <2>2
    <3>2. PICK i \in 1 .. Len(Requests(m)) : Requests(m)[i].eng = d
      BY <3>1 DEF BInv, BarrierDiscipline, NobodyForgotten
    <3>3. i \in 1 .. Len(Requests(m)') /\ Requests(m)'[i] = Requests(m)[i]
      BY <1>4, <1>8
    <3> QED
      BY <3>2, <3>3
  <2> QED
    BY <2>1, <2>2
<1> QED
  BY <1>9, <1>10, <1>11, <1>12 DEF BInv, BarrierDiscipline

\* AdminCommit answers the request in the thread's hands: its engineer thread no
\* longer waits, and no other request is of that thread.
LEMMA CommitKeeps ==
    ASSUME BInv, TypeOK', NEW n \in Node, AdminCommit(n)
    PROVE  BInv'
<1> DEFINE list == admin_thread_list[n]
           c == admin[n].job.eng
<1>1. /\ TypeOK /\ admin[n].pc = "send"
      /\ admin_thread_list' = admin_thread_list /\ server' = server /\ ordered' = ordered
  BY DEF AdminCommit, BInv
<1>2. /\ list \in Seq(Request) /\ admin[n].job \in Request
      /\ Requests(n) = <<admin[n].job>> \o list
  BY <1>1, RequestsCases
<1>3. c \in Customer
  BY <1>2 DEF Request
<1>4. /\ \A d \in Customer \ {c} : engineer'[d] = engineer[d]
      /\ engineer'[c] \in {"ready", "released"}
  <2>1. \E step \in {"ready", "released"} : engineer' = [engineer EXCEPT ![c] = step]
    BY DEF AdminCommit
  <2>2. engineer \in [Customer -> EngineerState]
    BY <1>1 DEF TypeOK
  <2> QED
    BY <1>3, <2>1, <2>2
<1>5. admin'[n].job = None /\ \A m \in Node \ {n} : admin'[m] = admin[m]
  <2>1. admin \in [Node -> AdminState]
    BY <1>1 DEF TypeOK
  <2>2. PICK q : admin' = [admin EXCEPT ![n] = [AdminWaits EXCEPT !.pc = q]]
    BY DEF AdminCommit
  <2>3. admin'[n] = [AdminWaits EXCEPT !.pc = q]
    BY <2>1, <2>2
  <2> QED
    BY <2>1, <2>2, <2>3 DEF AdminWaits
<1>6. Requests(n)' = list
  <2>1. Requests(n)' = <<>> \o list
    BY <1>1, <1>5 DEF Requests
  <2> QED
    BY <1>2, <2>1, ConcatEmptySeq
<1>7. \A m \in Node \ {n} : Requests(m)' = Requests(m)
  BY <1>1, <1>5 DEF Requests
<1>8. /\ Len(list) \in Nat /\ Len(Requests(n)) = Len(list) + 1
      /\ Requests(n)[1] = admin[n].job
      /\ \A i \in 1 .. Len(list) : Requests(n)[i + 1] = list[i]
  <2>1. <<admin[n].job>> \in Seq(Request) /\ Len(<<admin[n].job>>) = 1
        /\ <<admin[n].job>>[1] = admin[n].job
    BY <1>2, SingleType
  <2>2. Len(list) \in Nat
    BY <1>2, LenProperties
  <2>3. /\ Len(Requests(n)) = 1 + Len(list)
        /\ \A i \in 1 .. 1 + Len(list) :
              Requests(n)[i] = IF i <= 1 THEN <<admin[n].job>>[i] ELSE list[i - 1]
    BY <1>2, <2>1, <2>2, ConcatProperties
  <2> HIDE DEF list
  <2>4. \A i \in 1 .. Len(list) :
            i + 1 \in 1 .. 1 + Len(list) /\ ~(i + 1 <= 1) /\ (i + 1) - 1 = i
    BY <2>2
  <2> QED
    BY <2>1, <2>2, <2>3, <2>4
<1>9. server[c] = n
  <2>1. 1 \in 1 .. Len(Requests(n))
    BY <1>8
  <2> QED
    BY <1>8, <2>1 DEF BInv, BarrierDiscipline, NoDanglingRequest
<1> HIDE DEF list, c
<1>10. \A m \in Node : \A i \in 1 .. Len(Requests(m)') :
          \E j \in 1 .. Len(Requests(m)) :
              /\ Requests(m)[j] = Requests(m)'[i]
              /\ j = IF m = n THEN i + 1 ELSE i
  BY <1>6, <1>7, <1>8
<1>11. \A m \in Node : \A i \in 1 .. Len(Requests(m)') :
          /\ Requests(m)'[i].eng \in Customer \ {c}
          /\ AtBarrier(Requests(m)'[i].eng) /\ server[Requests(m)'[i].eng] = m
          /\ Requests(m)'[i] = RequestOf(Requests(m)'[i].eng)
  <2> TAKE m \in Node
  <2> TAKE i \in 1 .. Len(Requests(m)')
  <2>1. PICK j \in 1 .. Len(Requests(m)) :
              Requests(m)[j] = Requests(m)'[i] /\ j = IF m = n THEN i + 1 ELSE i
    BY <1>10
  <2>2. Requests(m)[j] \in Request
    BY <1>1, RequestsCases, ElementOfSeq
  <2>3. Requests(m)[j].eng \in Customer
    BY <2>2 DEF Request
  <2>4. /\ AtBarrier(Requests(m)[j].eng) /\ server[Requests(m)[j].eng] = m
        /\ Requests(m)[j] = RequestOf(Requests(m)[j].eng)
    BY DEF BInv, BarrierDiscipline, NoDanglingRequest
  <2>5. Requests(m)[j].eng # c
    <3>1. CASE m # n
      BY <1>9, <2>4, <3>1
    <3>2. CASE m = n
      <4>1. j # 1 /\ 1 \in 1 .. Len(Requests(n)) /\ j \in 1 .. Len(Requests(n))
        BY <1>6, <1>8, <2>1, <3>2
      <4>2. Requests(n)[1].eng = c
        BY <1>8 DEF c
      <4> QED
        BY <3>2, <4>1, <4>2 DEF BInv, BarrierDiscipline, NoBarrierTwice
    <3> QED
      BY <3>1, <3>2
  <2> QED
    BY <2>1, <2>3, <2>4, <2>5
<1>12. \A d \in Customer \ {c} :
          AtBarrier(d)' = AtBarrier(d) /\ RequestOf(d)' = RequestOf(d)
  BY <1>1, <1>4 DEF AtBarrier, RequestOf
<1>13. Sessions'
  <2>1. \A d \in Customer : engineer'[d] # "new" => server[d] \in Node
    BY <1>4, <1>9 DEF BInv, Sessions
  <2> QED
    BY <1>1, <2>1 DEF Sessions
<1>14. NoDanglingRequest'
  <2> SUFFICES ASSUME NEW m \in Node, NEW i \in 1 .. Len(Requests(m)')
               PROVE  \E d \in Customer :
                         /\ Requests(m)'[i].eng = d
                         /\ AtBarrier(d)' /\ server'[d] = m /\ Requests(m)'[i] = RequestOf(d)'
    BY DEF NoDanglingRequest
  <2> QED
    BY <1>1, <1>11, <1>12
<1>15. NoBarrierTwice'
  <2> SUFFICES ASSUME NEW m \in Node,
                      NEW i \in 1 .. Len(Requests(m)'), NEW j \in 1 .. Len(Requests(m)'),
                      Requests(m)'[i].eng = Requests(m)'[j].eng
               PROVE  i = j
    BY DEF NoBarrierTwice
  <2>1. CASE m # n
    BY <1>7, <2>1 DEF BInv, BarrierDiscipline, NoBarrierTwice
  <2>2. CASE m = n
    <3>1. /\ i + 1 \in 1 .. Len(Requests(n)) /\ j + 1 \in 1 .. Len(Requests(n))
          /\ Requests(n)[i + 1].eng = Requests(n)[j + 1].eng
          /\ i \in Int /\ j \in Int
      BY <1>6, <1>8, <2>2
    <3>2. i + 1 = j + 1
      BY <3>1 DEF BInv, BarrierDiscipline, NoBarrierTwice
    <3> QED
      BY <3>1, <3>2
  <2> QED
    BY <2>1, <2>2
<1>16. NobodyForgotten'
  <2> SUFFICES ASSUME NEW d \in Customer, NEW m \in Node, AtBarrier(d)', server'[d] = m
               PROVE  \E i \in 1 .. Len(Requests(m)') : Requests(m)'[i].eng = d
    BY DEF NobodyForgotten
  <2>1. d # c /\ AtBarrier(d) /\ server[d] = m
    <3>1. d # c
      BY <1>4 DEF AtBarrier
    <3> QED
      BY <1>1, <1>12, <3>1
  <2>2. PICK i \in 1 .. Len(Requests(m)) : Requests(m)[i].eng = d
    BY <2>1 DEF BInv, BarrierDiscipline, NobodyForgotten
  <2>3. CASE m # n
    BY <1>7, <2>2, <2>3
  <2>4. CASE m = n
    <3>1. i # 1
      BY <1>8, <2>1, <2>2, <2>4 DEF c
    <3>2. i - 1 \in 1 .. Len(list) /\ (i - 1) + 1 = i
      BY <1>8, <2>4, <3>1
    <3>3. Requests(n)[(i - 1) + 1] = list[i - 1]
      BY <1>8, <3>2
    <3>4. list[i - 1].eng = d
      BY <2>2, <2>4, <3>2, <3>3
    <3> QED
      BY <1>6, <2>4, <3>2, <3>4
  <2> QED
    BY <2>3, <2>4
<1> QED
  BY <1>13, <1>14, <1>15, <1>16 DEF BInv, BarrierDiscipline

\* A server that dies takes its requests along, and the sessions that wait.
LEMMA DieKeeps ==
    ASSUME BInv, TypeOK', NEW n \in Node, NEW w, Die(n, w)
    PROVE  BInv'
<1>1. /\ TypeOK
      /\ admin_thread_list' = [admin_thread_list EXCEPT ![n] = <<>>]
      /\ admin' = [admin EXCEPT ![n] = AdminWaits]
      /\ server' = server /\ ordered' = ordered
  BY DEF Die, BInv
<1>2. /\ admin'[n].job = None /\ admin_thread_list'[n] = <<>>
      /\ \A m \in Node \ {n} : admin'[m] = admin[m]
                                /\ admin_thread_list'[m] = admin_thread_list[m]
  BY <1>1 DEF TypeOK, AdminWaits
<1>3. Requests(n)' = <<>>
  <2>1. Requests(n)' = <<>> \o <<>>
    BY <1>2 DEF Requests
  <2>2. <<>> \in Seq(Request)
    OBVIOUS
  <2> QED
    BY <2>1, <2>2, ConcatEmptySeq
<1>4. \A m \in Node \ {n} : Requests(m)' = Requests(m)
  BY <1>2 DEF Requests
<1>5. \A d \in Customer : engineer'[d] = IF server[d] = n /\ engineer[d] \notin {"new", "gone"}
                                        THEN "lost" ELSE engineer[d]
  BY DEF Die
<1>6. \A d \in Customer : server[d] # n =>
          AtBarrier(d)' = AtBarrier(d) /\ RequestOf(d)' = RequestOf(d)
  BY <1>1, <1>5 DEF AtBarrier, RequestOf
<1>7. \A d \in Customer : AtBarrier(d)' => AtBarrier(d) /\ server[d] # n
  BY <1>5 DEF AtBarrier
<1>8. Sessions'
  <2>1. \A d \in Customer : engineer'[d] # "new" => engineer[d] # "new"
    BY <1>5
  <2> QED
    BY <1>1, <2>1 DEF BInv, Sessions
<1>9. \A m \in Node : \A i \in 1 .. Len(Requests(m)') :
          m # n /\ Requests(m)' = Requests(m) /\ i \in 1 .. Len(Requests(m))
  BY <1>3, <1>4
<1>10. NoDanglingRequest'
  <2> SUFFICES ASSUME NEW m \in Node, NEW i \in 1 .. Len(Requests(m)')
               PROVE  \E d \in Customer :
                         /\ Requests(m)'[i].eng = d
                         /\ AtBarrier(d)' /\ server'[d] = m /\ Requests(m)'[i] = RequestOf(d)'
    BY DEF NoDanglingRequest
  <2>1. m # n /\ Requests(m)' = Requests(m) /\ i \in 1 .. Len(Requests(m))
    BY <1>9
  <2>2. Requests(m)[i] \in Request
    BY <1>1, <2>1, RequestsCases, ElementOfSeq
  <2>3. Requests(m)[i].eng \in Customer
    BY <2>2 DEF Request
  <2>4. /\ AtBarrier(Requests(m)[i].eng) /\ server[Requests(m)[i].eng] = m
        /\ Requests(m)[i] = RequestOf(Requests(m)[i].eng)
    BY <2>1 DEF BInv, BarrierDiscipline, NoDanglingRequest
  <2> QED
    BY <1>1, <1>6, <2>1, <2>3, <2>4
<1>11. NoBarrierTwice'
  BY <1>9 DEF BInv, BarrierDiscipline, NoBarrierTwice
<1>12. NobodyForgotten'
  <2> SUFFICES ASSUME NEW d \in Customer, NEW m \in Node, AtBarrier(d)', server'[d] = m
               PROVE  \E i \in 1 .. Len(Requests(m)') : Requests(m)'[i].eng = d
    BY DEF NobodyForgotten
  <2>1. AtBarrier(d) /\ server[d] = m /\ m # n
    BY <1>1, <1>7
  <2> QED
    BY <1>4, <2>1 DEF BInv, BarrierDiscipline, NobodyForgotten
<1> QED
  BY <1>8, <1>10, <1>11, <1>12 DEF BInv, BarrierDiscipline

\* The steps in which a server may find an index out of range and die.
LEMMA PerilousSteps ==
    ASSUME BInv, TypeOK', NEW n \in Node,
           \/ AdminRecheck(n) \/ (\E p \in Node : IfaStray(p, n))
           \/ RecoverWrite(n) \/ IfaApply(n) \/ Crash(n)
    PROVE  BInv'
<1>1. CASE \E w : Die(n, w)
  BY <1>1, DieKeeps
<1>2. CASE ~ \E w : Die(n, w)
  <2>1. UNCHANGED <<engineer, server, ordered, admin_thread_list>>
    BY <1>2 DEF AdminRecheck, IfaStray, RecoverWrite, IfaApply, Crash, clientVars
  <2>2. \A m \in Node : admin'[m].job = admin[m].job
    <3>1. CASE admin' = admin
      BY <3>1
    <3>2. CASE admin' = [admin EXCEPT ![n].pc = "take"]
      BY <3>2, SendingKeepsJobs DEF BInv
    <3> QED
      BY <1>2, <3>1, <3>2 DEF AdminRecheck, IfaStray, RecoverWrite, IfaApply, Crash
  <2>3. \A m \in Node : Requests(m)' = Requests(m)
    BY <2>1, <2>2, SameRequests
  <2> QED
    BY <2>1, <2>3, QuietStep
<1> QED
  BY <1>1, <1>2

-----------------------------------------------------------------------------
(***************************************************************************)
(* The theorem.                                                            *)
(***************************************************************************)

LEMMA InitBInv == Init => BInv
<1> SUFFICES ASSUME Init PROVE BInv
  OBVIOUS
<1>1. TypeOK
  BY InitType
<1>2. \A c \in Customer : engineer[c] = "new"
  BY DEF Init
<1>3. \A n \in Node : Requests(n) = <<>>
  <2> TAKE n \in Node
  <2>1. admin_thread_list[n] = <<>> /\ admin[n].job = None
    BY DEF Init, AdminWaits
  <2> QED
    BY <1>1, <2>1, RequestsCases
<1> QED
  BY <1>1, <1>2, <1>3 DEF BInv, Sessions, BarrierDiscipline, NoDanglingRequest,
                          NoBarrierTwice, NobodyForgotten, AtBarrier

LEMMA NextBInv == BInv /\ [Next]_vars => BInv'
<1> SUFFICES ASSUME BInv, [Next]_vars PROVE BInv'
  OBVIOUS
<1>1. TypeOK'
  BY NextType DEF BInv
<1>2. ASSUME NEW c \in Customer, Connect(c) \/ Ship(c) \/ Finish(c) PROVE BInv'
  BY <1>1, <1>2, SessionSteps
<1>3. ASSUME NEW c \in Customer, PlaceOrder(c) \/ Hangup(c) PROVE BInv'
  BY <1>1, <1>3, EnqueueKeeps
<1>4. ASSUME NEW n \in Node, CloseReader(n) \/ Restart(n) \/ HeartBeat(n) PROVE BInv'
  BY <1>1, <1>4, QuietSteps
<1>5. ASSUME NEW n \in Node, AdminThread(n) PROVE BInv'
  <2>1. CASE AdminRecheck(n)
    BY <1>1, <2>1, PerilousSteps
  <2>2. CASE AdminTake(n)
    BY <1>1, <2>2, TakeKeeps
  <2>3. CASE AdminSkip(n) \/ AdminSend(n) \/ AdminAck(n) \/ AdminPeerGone(n)
    BY <1>1, <2>3, QuietSteps
  <2>4. CASE AdminCommit(n)
    BY <1>1, <2>4, CommitKeeps
  <2> QED
    BY <1>5, <2>1, <2>2, <2>3, <2>4 DEF AdminThread
<1>6. ASSUME NEW n \in Node, IfaThread(n) PROVE BInv'
  <2>1. CASE (\E p \in Node : IfaRead(p, n)) \/ RecoverRead(n) \/ RecoverFail(n)
    BY <1>1, <2>1, QuietSteps
  <2>2. CASE (\E p \in Node : IfaStray(p, n)) \/ RecoverWrite(n) \/ IfaApply(n)
    BY <1>1, <2>2, PerilousSteps
  <2> QED
    BY <1>6, <2>1, <2>2 DEF IfaThread
<1>7. ASSUME NEW n \in Node, Crash(n) PROVE BInv'
  BY <1>1, <1>7, PerilousSteps
<1>8. CASE UNCHANGED vars
  <2>1. UNCHANGED <<engineer, server, ordered, admin, admin_thread_list>>
    BY <1>8 DEF vars, clientVars, threadVars
  <2>2. \A n \in Node : Requests(n)' = Requests(n)
    BY <2>1, SameRequests
  <2> QED
    BY <1>1, <2>1, <2>2, QuietStep
<1> QED
  BY <1>2, <1>3, <1>4, <1>5, <1>6, <1>7, <1>8 DEF Next

\* Engineer threads and the admin thread agree on who waits for what
\* (Server.cpp:150-182, 379-457), for any number of servers, customers, orders,
\* crashes and restarts: no request outlives the locals it points to, no
\* promise is set twice, and nobody waits for a request that is not there.
THEOREM BarriersAgree == Spec => []BarrierDiscipline
<1>1. BInv => BarrierDiscipline
  BY DEF BInv
<1> QED
  BY <1>1, InitBInv, NextBInv, PTL DEF Spec

-----------------------------------------------------------------------------
(***************************************************************************)
(* What a crash costs the customers, for any number of servers, customers, *)
(* orders, crashes and restarts and for every batch size: each order whose *)
(* robot was shipped went through the write-ahead log of the server that   *)
(* shipped it, and never leaves it while that server lives.                *)
(* ShippedLossIsBounded of Replication.                                    *)
(***************************************************************************)

\* The entries that a log holds, in any of its three places.
Kept(w) == Range(w.file) \cup Range(w.buffer) \cup Range(w.batch)

\* A log between two calls: nothing in the file is damaged, the batch is not
\* full, and if writelogwithcrc flushes nothing stays in the stdio buffer.
WalOk(w) ==
    /\ w \in Wal(Entry)
    /\ Damaged(w.file) = {}
    /\ Len(w.batch) < BatchSize
    /\ Flushing => w.buffer = <<>>

WalsOk == \A n \in Node : WalOk(wal[n])

\* The order in the hands of an admin thread has been logged.
HandsLogged ==
    \A n \in Node : admin[n].job # None /\ admin[n].job.op # CommitOnly =>
        admin[n].job.op \in Kept(wal[n])

\* So has the one whose robot is about to be shipped.
ReadyLogged ==
    \A c \in Customer : engineer[c] = "ready" =>
        [arg1 |-> c, arg2 |-> ordered[c]] \in Kept(wal[server[c]])

\* And those that were shipped, on a server that has not died since.
AckedLogged ==
    \A o \in acked :
        /\ engineer[o.arg1] # "new"
        /\ hb_conn[server[o.arg1]] => o \in Kept(wal[server[o.arg1]])

\* These are inductive together with what engineer threads and the admin thread
\* agree on.
DInv == BInv /\ WalsOk /\ HandsLogged /\ ReadyLogged /\ AckedLogged

-----------------------------------------------------------------------------
(***************************************************************************)
(* What the operations of a log keep.                                      *)
(***************************************************************************)

LEMMA BadIsNoEntry == Bad \notin Entry
BY OpAssumption, OpsDiffer DEF Entry

LEMMA RangeConcat ==
    ASSUME NEW S, NEW s \in Seq(S), NEW t \in Seq(S)
    PROVE  Range(s \o t) = Range(s) \cup Range(t)
<1>1. /\ Len(s) \in Nat /\ DOMAIN s = 1 .. Len(s)
      /\ Len(t) \in Nat /\ DOMAIN t = 1 .. Len(t)
  BY LenProperties
<1>2. /\ s \o t \in Seq(S) /\ Len(s \o t) = Len(s) + Len(t)
      /\ \A i \in 1 .. Len(s) + Len(t) :
            (s \o t)[i] = IF i <= Len(s) THEN s[i] ELSE t[i - Len(s)]
  BY ConcatProperties
<1>3. DOMAIN (s \o t) = 1 .. Len(s) + Len(t)
  BY <1>2, LenProperties
<1>4. ASSUME NEW x \in Range(s \o t) PROVE x \in Range(s) \cup Range(t)
  <2>1. PICK i \in 1 .. Len(s) + Len(t) : (s \o t)[i] = x
    BY <1>3, <1>4 DEF Range
  <2>2. CASE i <= Len(s)
    BY <1>1, <1>2, <2>1, <2>2 DEF Range
  <2>3. CASE ~(i <= Len(s))
    <3>1. i - Len(s) \in 1 .. Len(t) /\ t[i - Len(s)] = x
      BY <1>1, <1>2, <2>1, <2>3
    <3> QED
      BY <1>1, <3>1 DEF Range
  <2> QED
    BY <2>2, <2>3
<1>5. ASSUME NEW x \in Range(s) PROVE x \in Range(s \o t)
  <2>1. PICK i \in 1 .. Len(s) : s[i] = x
    BY <1>1, <1>5 DEF Range
  <2>2. i \in 1 .. Len(s) + Len(t) /\ (s \o t)[i] = x
    BY <1>1, <1>2, <2>1
  <2> QED
    BY <1>3, <2>2 DEF Range
<1>6. ASSUME NEW x \in Range(t) PROVE x \in Range(s \o t)
  <2>1. PICK i \in 1 .. Len(t) : t[i] = x
    BY <1>1, <1>6 DEF Range
  <2>2. /\ i + Len(s) \in 1 .. Len(s) + Len(t)
        /\ ~(i + Len(s) <= Len(s)) /\ (i + Len(s)) - Len(s) = i
    BY <1>1, <2>1
  <2>3. (s \o t)[i + Len(s)] = x
    BY <1>2, <2>1, <2>2
  <2> QED
    BY <1>3, <2>2, <2>3 DEF Range
<1> QED
  BY <1>4, <1>5, <1>6

LEMMA RangeAppend ==
    ASSUME NEW S, NEW s \in Seq(S), NEW e \in S
    PROVE  Range(Append(s, e)) = Range(s) \cup {e}
<1>1. Len(s) \in Nat /\ DOMAIN s = 1 .. Len(s)
  BY LenProperties
<1>2. /\ Append(s, e) \in Seq(S) /\ Len(Append(s, e)) = Len(s) + 1
      /\ \A i \in 1 .. Len(s) : Append(s, e)[i] = s[i]
      /\ Append(s, e)[Len(s) + 1] = e
  BY AppendProperties
<1>3. DOMAIN Append(s, e) = 1 .. Len(s) + 1
  BY <1>2, LenProperties
<1>4. \A i \in 1 .. Len(s) + 1 : i \in 1 .. Len(s) \/ i = Len(s) + 1
  BY <1>1
<1>5. Len(s) + 1 \in 1 .. Len(s) + 1 /\ \A i \in 1 .. Len(s) : i \in 1 .. Len(s) + 1
  BY <1>1
<1> QED
  BY <1>1, <1>2, <1>3, <1>4, <1>5 DEF Range

LEMMA RangeEmpty == Range(<<>>) = {}
BY DEF Range

\* fflush: an entry may change its place, none is lost.
LEMMA FlushedOk ==
    ASSUME NEW w, WalOk(w)
    PROVE  WalOk(Flushed(w)) /\ Kept(Flushed(w)) = Kept(w)
<1>1. w \in Wal(Entry) /\ Damaged(w.file) = {} /\ Len(w.batch) < BatchSize
  BY DEF WalOk
<1>2. /\ Flushed(w) \in Wal(Entry)
      /\ Flushed(w).file = w.file \o w.buffer
      /\ Flushed(w).buffer = <<>>
      /\ Flushed(w).batch = w.batch
  BY <1>1, FlushedFields
<1>3. /\ w.file \in Seq(Entry \cup {Bad}) /\ w.buffer \in Seq(Entry)
      /\ w.buffer \in Seq(Entry \cup {Bad})
  BY <1>1, WalType
<1>4. Damaged(w.file \o w.buffer) = {}
  BY <1>1, <1>3, BadIsNoEntry, DamagedConcat
<1>5. Range(w.file \o w.buffer) = Range(w.file) \cup Range(w.buffer)
  BY <1>3, RangeConcat
<1> QED
  BY <1>1, <1>2, <1>4, <1>5, RangeEmpty DEF WalOk, Kept

\* writelogwithcrc: the entry joins those that are kept.
LEMMA WrittenOk ==
    ASSUME NEW w, WalOk(w), NEW e \in Entry
    PROVE  WalOk(WriteLog(w, e)) /\ Kept(WriteLog(w, e)) = Kept(w) \cup {e}
<1> DEFINE full == Append(w.batch, e)
           v == WriteLog(w, e)
<1>1. w \in Wal(Entry) /\ Damaged(w.file) = {} /\ Len(w.batch) < BatchSize
  BY DEF WalOk
<1>2. /\ w.file \in Seq(Entry \cup {Bad}) /\ w.buffer \in Seq(Entry) /\ w.batch \in Seq(Entry)
      /\ Len(w.batch) \in Nat
  BY <1>1, WalType, LenProperties
<1>3. full \in Seq(Entry) /\ Len(full) = Len(w.batch) + 1 /\ Range(full) = Range(w.batch) \cup {e}
  BY <1>2, AppendProperties, RangeAppend
<1> HIDE DEF full
<1>4. /\ w.buffer \o full \in Seq(Entry)
      /\ Range(w.buffer \o full) = Range(w.buffer) \cup Range(full)
  BY <1>2, <1>3, ConcatProperties, RangeConcat
<1>5. w.buffer \o full \in Seq(Entry \cup {Bad})
  BY <1>4, SeqMonotonic
<1>6. /\ Damaged(w.file \o (w.buffer \o full)) = {}
      /\ Range(w.file \o (w.buffer \o full)) = Range(w.file) \cup Range(w.buffer \o full)
  <2>1. Damaged(w.file \o (w.buffer \o full)) = Damaged(w.file)
    BY <1>2, <1>4, BadIsNoEntry, DamagedConcat
  <2>2. Range(w.file \o (w.buffer \o full)) = Range(w.file) \cup Range(w.buffer \o full)
    <3>1. PICK f, t : f = w.file /\ t = w.buffer \o full
      OBVIOUS
    <3>2. f \in Seq(Entry \cup {Bad}) /\ t \in Seq(Entry \cup {Bad})
      BY <1>2, <1>5, <3>1
    <3>3. Range(f \o t) = Range(f) \cup Range(t)
      BY <3>2, RangeConcat
    <3> QED
      BY <3>1, <3>3
  <2> QED
    BY <1>1, <2>1, <2>2
<1>7. v \in Wal(Entry)
  BY <1>1, WriteLogFields
<1>8. CASE Len(w.batch) + 1 < BatchSize
  <2>1. v.file = w.file /\ v.buffer = w.buffer /\ v.batch = full
    BY <1>1, <1>8, WriteLogFields DEF full
  <2> HIDE DEF v
  <2> QED
    BY <1>1, <1>3, <1>7, <1>8, <2>1 DEF WalOk, Kept, v
<1>9. CASE ~(Len(w.batch) + 1 < BatchSize) /\ Flushing
  <2>1. v.batch = <<>> /\ v.file = w.file \o (w.buffer \o full) /\ v.buffer = <<>>
    BY <1>1, <1>9, WriteLogFields DEF Flushing, full
  <2>2. Len(<<>>) = 0 /\ 0 < BatchSize
    BY BatchSizeType
  <2>3. WalOk(v)
    BY <1>6, <1>7, <2>1, <2>2 DEF WalOk
  <2>4. Kept(v) = Kept(w) \cup {e}
    BY <1>3, <1>4, <1>6, <2>1, RangeEmpty DEF Kept
  <2> QED
    BY <2>3, <2>4
<1>10. CASE ~(Len(w.batch) + 1 < BatchSize) /\ ~Flushing
  <2>1. v.batch = <<>> /\ v.file = w.file /\ v.buffer = w.buffer \o full
    BY <1>1, <1>10, WriteLogFields DEF Flushing, full
  <2>2. Len(<<>>) = 0 /\ 0 < BatchSize
    BY BatchSizeType
  <2>3. WalOk(v)
    BY <1>1, <1>7, <1>10, <2>1, <2>2 DEF WalOk
  <2>4. Kept(v) = Kept(w) \cup {e}
    BY <1>3, <1>4, <2>1, RangeEmpty DEF Kept
  <2> QED
    BY <2>3, <2>4
<1> QED
  BY <1>8, <1>9, <1>10

LEMMA LostOk ==
    ASSUME NEW w, WalOk(w)
    PROVE  WalOk(Lost(w))
<1>1. w \in Wal(Entry)
  BY DEF WalOk
<1>2. Len(<<>>) = 0 /\ 0 < BatchSize
  BY BatchSizeType
<1> QED
  BY <1>1, <1>2, LostFields DEF WalOk

-----------------------------------------------------------------------------
(***************************************************************************)
(* What a step has to respect.                                             *)
(***************************************************************************)

\* In a step in which n dies, nothing is left on it that was to be shipped.
Dies(n) ==
    /\ ~hb_conn'[n]
    /\ admin'[n].job = None
    /\ \A c \in Customer : server'[c] = n => engineer'[c] # "ready"

\* The logs keep what they have, and what is new in an admin thread's hands, about
\* to be shipped or shipped is in them.
LEMMA Carried ==
    ASSUME DInv, BInv', WalsOk',
           \A n \in Node : Kept(wal[n]) \subseteq Kept(wal'[n]) \/ Dies(n),
           \A n \in Node : hb_conn'[n] => hb_conn[n],
           \A n \in Node : \/ admin'[n].job \in {admin[n].job, None}
                           \/ admin'[n].job.op = CommitOnly
                           \/ admin'[n].job.op \in Kept(wal'[n]),
           \A c \in Customer : engineer[c] # "new" =>
               engineer'[c] # "new" /\ server'[c] = server[c],
           \A c \in Customer : engineer'[c] = "ready" =>
               /\ engineer[c] # "new"
               /\ \/ engineer[c] = "ready" /\ ordered'[c] = ordered[c]
                  \/ [arg1 |-> c, arg2 |-> ordered'[c]] \in Kept(wal[server[c]]),
           \A o \in acked' : \/ o \in acked
                             \/ /\ o.arg1 \in Customer /\ engineer[o.arg1] # "new"
                                /\ o \in Kept(wal[server[o.arg1]])
    PROVE  DInv'
<1>1. /\ Sessions /\ TypeOK
      /\ \A n \in Node : admin[n].job # None /\ admin[n].job.op # CommitOnly =>
            admin[n].job.op \in Kept(wal[n])
      /\ \A c \in Customer : engineer[c] = "ready" =>
            [arg1 |-> c, arg2 |-> ordered[c]] \in Kept(wal[server[c]])
      /\ \A o \in acked : /\ o.arg1 \in Customer /\ engineer[o.arg1] # "new"
                          /\ hb_conn[server[o.arg1]] => o \in Kept(wal[server[o.arg1]])
  BY DEF DInv, BInv, HandsLogged, ReadyLogged, AckedLogged, TypeOK
<1> HIDE DEF Kept
<1>2. HandsLogged'
  <2> SUFFICES ASSUME NEW n \in Node, admin'[n].job # None, admin'[n].job.op # CommitOnly
               PROVE  admin'[n].job.op \in Kept(wal'[n])
    BY DEF HandsLogged, Kept
  <2>1. CASE admin'[n].job = admin[n].job
    <3>1. admin[n].job.op \in Kept(wal[n])
      BY <1>1, <2>1
    <3>2. Kept(wal[n]) \subseteq Kept(wal'[n])
      BY DEF Dies
    <3> QED
      BY <2>1, <3>1, <3>2
  <2> QED
    BY <2>1
<1>3. ReadyLogged'
  <2> SUFFICES ASSUME NEW c \in Customer, engineer'[c] = "ready"
               PROVE  [arg1 |-> c, arg2 |-> ordered'[c]] \in Kept(wal'[server'[c]])
    BY DEF ReadyLogged, Kept
  <2>1. server'[c] = server[c] /\ server[c] \in Node
    BY <1>1 DEF Sessions
  <2>2. [arg1 |-> c, arg2 |-> ordered'[c]] \in Kept(wal[server[c]])
    BY <1>1
  <2>3. Kept(wal[server[c]]) \subseteq Kept(wal'[server[c]])
    BY <2>1 DEF Dies
  <2> QED
    BY <2>1, <2>2, <2>3
<1>4. AckedLogged'
  <2> SUFFICES ASSUME NEW o \in acked'
               PROVE  /\ engineer'[o.arg1] # "new"
                      /\ hb_conn'[server'[o.arg1]] => o \in Kept(wal'[server'[o.arg1]])
    BY DEF AckedLogged, Kept
  <2>1. /\ o.arg1 \in Customer /\ engineer[o.arg1] # "new"
        /\ hb_conn[server[o.arg1]] => o \in Kept(wal[server[o.arg1]])
    BY <1>1
  <2>2. PICK n \in Node : server[o.arg1] = n
    BY <1>1, <2>1 DEF Sessions
  <2>3. engineer'[o.arg1] # "new" /\ server'[o.arg1] = n
    BY <2>1, <2>2
  <2>4. hb_conn'[n] => hb_conn[n] /\ Kept(wal[n]) \subseteq Kept(wal'[n])
    BY DEF Dies
  <2> QED
    BY <2>1, <2>2, <2>3, <2>4
<1> QED
  BY <1>2, <1>3, <1>4 DEF DInv

\* The log of one server changes and is still in order.
LEMMA OneWal ==
    ASSUME WalsOk, wal \in [Node -> Wal(Entry)], NEW n \in Node, NEW w, WalOk(w),
           wal' = [wal EXCEPT ![n] = w]
    PROVE  /\ WalsOk'
           /\ wal'[n] = w
           /\ \A m \in Node \ {n} : Kept(wal[m]) \subseteq Kept(wal'[m])
<1>1. wal'[n] = w /\ \A m \in Node \ {n} : wal'[m] = wal[m]
  OBVIOUS
<1>2. \A m \in Node : WalOk(wal'[m])
  BY <1>1 DEF WalsOk
<1> QED
  BY <1>1, <1>2 DEF WalsOk, WalOk

\* A step in which nothing is taken in hand, made ready or shipped, and in which
\* the logs keep what they have.
LEMMA QuietLogs ==
    ASSUME DInv, BInv', WalsOk',
           \A n \in Node : Kept(wal[n]) \subseteq Kept(wal'[n]),
           \A n \in Node : admin'[n].job = admin[n].job,
           \A c \in Customer : /\ engineer[c] # "new" =>
                                     engineer'[c] # "new" /\ server'[c] = server[c]
                               /\ engineer'[c] = "ready" =>
                                     engineer[c] = "ready" /\ ordered'[c] = ordered[c],
           UNCHANGED <<acked, hb_conn>>
    PROVE  DInv'
BY Carried

-----------------------------------------------------------------------------
(***************************************************************************)
(* The steps.                                                              *)
(***************************************************************************)

\* A server that dies takes along what was in its hands and its sessions.
LEMMA DieLogs ==
    ASSUME DInv, BInv', NEW n \in Node, NEW w, WalOk(w), Die(n, w)
    PROVE  DInv'
<1>1. TypeOK /\ WalsOk /\ Sessions
  BY DEF DInv, BInv
<1>2. /\ wal' = [wal EXCEPT ![n] = Lost(w)] /\ hb_conn' = [hb_conn EXCEPT ![n] = FALSE]
      /\ admin' = [admin EXCEPT ![n] = AdminWaits]
      /\ UNCHANGED <<server, ordered, acked>>
      /\ \A c \in Customer : engineer'[c] = IF server[c] = n /\ engineer[c] \notin {"new", "gone"}
                                            THEN "lost" ELSE engineer[c]
  BY DEF Die
<1>3. WalsOk' /\ \A m \in Node \ {n} : Kept(wal[m]) \subseteq Kept(wal'[m])
  <2>1. WalOk(Lost(w)) /\ wal \in [Node -> Wal(Entry)]
    BY <1>1, LostOk DEF TypeOK
  <2> QED
    BY <1>1, <1>2, <2>1, OneWal
<1>4. /\ admin'[n].job = None /\ \A m \in Node \ {n} : admin'[m] = admin[m]
      /\ ~hb_conn'[n] /\ \A m \in Node \ {n} : hb_conn'[m] = hb_conn[m]
  BY <1>1, <1>2 DEF TypeOK, AdminWaits
<1>5. Dies(n)
  BY <1>2, <1>4 DEF Dies
<1>6. \A c \in Customer : /\ engineer[c] # "new" =>
                                engineer'[c] # "new" /\ server'[c] = server[c]
                          /\ engineer'[c] = "ready" =>
                                engineer[c] = "ready" /\ ordered'[c] = ordered[c]
  BY <1>2
<1>7. acked' = acked
  BY <1>2
<1> HIDE DEF Dies
<1> QED
  BY <1>3, <1>4, <1>5, <1>6, <1>7, Carried

\* Steps of customers' sessions other than Ship.  Connect gives a server to a
\* customer that nothing was shipped to.
LEMMA SessionLogs ==
    ASSUME DInv, BInv', NEW c \in Customer, Connect(c) \/ PlaceOrder(c) \/ Hangup(c)
    PROVE  DInv'
<1>1. TypeOK /\ WalsOk
  BY DEF DInv, BInv
<1>2. wal' = wal /\ admin' = admin /\ UNCHANGED <<acked, hb_conn>>
  BY DEF Connect, PlaceOrder, Hangup, logVars, threadVars, lbVars
<1>3. WalsOk'
  BY <1>1, <1>2 DEF WalsOk
<1>4. \A d \in Customer : /\ engineer[d] # "new" =>
                                engineer'[d] # "new" /\ server'[d] = server[d]
                          /\ engineer'[d] = "ready" =>
                                engineer[d] = "ready" /\ ordered'[d] = ordered[d]
  BY <1>1 DEF Connect, PlaceOrder, Hangup, TypeOK
<1> QED
  BY <1>2, <1>3, <1>4, QuietLogs

\* The robot of a logged order is shipped.
LEMMA ShipLogs ==
    ASSUME DInv, BInv', NEW c \in Customer, Ship(c)
    PROVE  DInv'
<1>1. TypeOK /\ WalsOk /\ ReadyLogged
  BY DEF DInv, BInv
<1>2. /\ engineer[c] = "ready" /\ engineer' = [engineer EXCEPT ![c] = "idle"]
      /\ acked' = acked \cup {[arg1 |-> c, arg2 |-> ordered[c]]}
      /\ UNCHANGED <<wal, admin, server, ordered, hb_conn>>
  BY DEF Ship, logVars, threadVars, lbVars
<1>3. WalsOk'
  BY <1>1, <1>2 DEF WalsOk
<1>4. [arg1 |-> c, arg2 |-> ordered[c]] \in Kept(wal[server[c]])
  BY <1>1, <1>2 DEF ReadyLogged
<1>5. \A o \in acked' : \/ o \in acked
                        \/ /\ o.arg1 \in Customer /\ engineer[o.arg1] # "new"
                           /\ o \in Kept(wal[server[o.arg1]])
  BY <1>2, <1>4
<1>6. \A d \in Customer : /\ engineer[d] # "new" =>
                                engineer'[d] # "new" /\ server'[d] = server[d]
                          /\ engineer'[d] = "ready" =>
                                engineer[d] = "ready" /\ ordered'[d] = ordered[d]
  BY <1>1, <1>2 DEF TypeOK
<1> QED
  BY <1>2, <1>3, <1>5, <1>6, Carried

\* A session ends: its server flushes the stdio buffer.
LEMMA CloseLogs ==
    ASSUME DInv, BInv', (\E c \in Customer : Finish(c)) \/ (\E n \in Node : CloseReader(n))
    PROVE  DInv'
<1>1. TypeOK /\ WalsOk /\ wal \in [Node -> Wal(Entry)] /\ Sessions
  BY DEF DInv, BInv, TypeOK
<1>2. PICK n \in Node : CloseSession(n)
  BY <1>1 DEF Finish, CloseReader, Sessions
<1>3. wal' = [wal EXCEPT ![n] = Flushed(wal[n])]
  BY <1>2 DEF CloseSession
<1>4. /\ WalsOk' /\ wal'[n] = Flushed(wal[n])
      /\ \A m \in Node \ {n} : Kept(wal[m]) \subseteq Kept(wal'[m])
  BY <1>1, <1>3, FlushedOk, OneWal DEF WalsOk
<1>5. Kept(wal'[n]) = Kept(wal[n])
  BY <1>1, <1>4, FlushedOk DEF WalsOk
<1>6. UNCHANGED <<admin, acked, hb_conn, server, ordered>>
  BY DEF Finish, CloseReader, clientVars, lbVars
<1>7. \A d \in Customer : /\ engineer[d] # "new" => engineer'[d] # "new"
                          /\ engineer'[d] = "ready" => engineer[d] = "ready"
  BY <1>1 DEF Finish, CloseReader, clientVars, TypeOK
<1>8. \A m \in Node : Kept(wal[m]) \subseteq Kept(wal'[m])
  BY <1>4, <1>5
<1> QED
  BY <1>4, <1>6, <1>7, <1>8, QuietLogs

\* Steps that leave the logs, the requests in hand and the sessions alone.
LEMMA OtherLogs ==
    ASSUME DInv, BInv', NEW n \in Node,
           \/ AdminSkip(n) \/ AdminSend(n) \/ AdminAck(n) \/ AdminPeerGone(n)
           \/ RecoverRead(n) \/ RecoverFail(n) \/ Restart(n) \/ HeartBeat(n)
    PROVE  DInv'
<1>1. TypeOK /\ WalsOk
  BY DEF DInv, BInv
<1>2. UNCHANGED <<wal, engineer, server, ordered, acked, hb_conn>>
  BY DEF AdminSkip, AdminSend, AdminAck, AdminPeerGone, RecoverRead, RecoverFail, Restart,
         HeartBeat, logVars, clientVars, lbVars
<1>3. \A m \in Node : admin'[m].job = admin[m].job
  <2>1. CASE admin' = admin
    BY <2>1
  <2>2. CASE AdminSkip(n) \/ AdminSend(n) \/ AdminAck(n) \/ AdminPeerGone(n)
    BY <1>1, <2>2, SendingKeepsJobs
  <2> QED
    BY <2>1, <2>2 DEF RecoverRead, RecoverFail, Restart, HeartBeat, threadVars
<1>4. WalsOk'
  BY <1>1, <1>2 DEF WalsOk
<1> QED
  BY <1>2, <1>3, <1>4, QuietLogs

\* AdminTake logs the order it takes.
LEMMA TakeLogs ==
    ASSUME DInv, BInv', NEW n \in Node, AdminTake(n)
    PROVE  DInv'
<1> DEFINE job == Head(admin_thread_list[n])
<1>1. TypeOK /\ WalsOk /\ wal \in [Node -> Wal(Entry)] /\ admin \in [Node -> AdminState]
  BY DEF DInv, BInv, TypeOK
<1>2. /\ admin' = [admin EXCEPT ![n] = [pc |-> "send", job |-> job, todo |-> Peers[n]]]
      /\ UNCHANGED <<engineer, server, ordered, acked, hb_conn>>
      /\ wal' = IF job.op = CommitOnly THEN wal
                ELSE [wal EXCEPT ![n] = WriteLog(wal[n], job.op)]
  BY DEF AdminTake, IsAnnouncement, clientVars, lbVars
<1>3. admin'[n].job = job /\ \A m \in Node \ {n} : admin'[m] = admin[m]
  BY <1>1, <1>2
<1>4. job \in Request
  BY <1>1, HeadTailProperties DEF AdminTake, TypeOK
<1> HIDE DEF job
<1>5. /\ WalsOk'
      /\ \A m \in Node : Kept(wal[m]) \subseteq Kept(wal'[m])
      /\ job.op = CommitOnly \/ job.op \in Kept(wal'[n])
  <2>1. CASE job.op = CommitOnly
    <3>1. wal' = wal
      BY <1>2, <2>1
    <3> QED
      BY <1>1, <2>1, <3>1 DEF WalsOk
  <2>2. CASE job.op # CommitOnly
    <3>1. job.op \in Entry
      BY <1>4, <2>2 DEF Request, Entry
    <3>2. /\ WalOk(WriteLog(wal[n], job.op))
          /\ Kept(WriteLog(wal[n], job.op)) = Kept(wal[n]) \cup {job.op}
      BY <1>1, <3>1, WrittenOk DEF WalsOk
    <3>3. wal' = [wal EXCEPT ![n] = WriteLog(wal[n], job.op)]
      BY <1>2, <2>2
    <3>4. /\ WalsOk' /\ wal'[n] = WriteLog(wal[n], job.op)
          /\ \A m \in Node \ {n} : Kept(wal[m]) \subseteq Kept(wal'[m])
      BY <1>1, <3>2, <3>3, OneWal
    <3> QED
      BY <3>2, <3>4
  <2> QED
    BY <2>1, <2>2
<1>6. \A m \in Node : \/ admin'[m].job \in {admin[m].job, None}
                      \/ admin'[m].job.op = CommitOnly
                      \/ admin'[m].job.op \in Kept(wal'[m])
  BY <1>3, <1>5
<1> QED
  BY <1>2, <1>5, <1>6, Carried

\* AdminCommit lets the engineer thread of the order in hand go on: it is the order
\* that thread waits for.
LEMMA CommitLogs ==
    ASSUME DInv, BInv', NEW n \in Node, AdminCommit(n)
    PROVE  DInv'
<1> DEFINE job == admin[n].job
<1>1. /\ TypeOK /\ WalsOk /\ HandsLogged /\ admin \in [Node -> AdminState]
      /\ admin[n].pc = "send"
  BY DEF DInv, BInv, TypeOK, AdminCommit
<1>2. /\ \E q : admin' = [admin EXCEPT ![n] = [AdminWaits EXCEPT !.pc = q]]
      /\ UNCHANGED <<wal, server, ordered, acked, hb_conn>>
      /\ engineer' = [engineer EXCEPT ![job.eng] =
                         IF job.op = CommitOnly THEN "released" ELSE "ready"]
  BY DEF AdminCommit, IsAnnouncement, lbVars
<1>3. admin'[n].job = None /\ \A m \in Node \ {n} : admin'[m] = admin[m]
  <2>1. PICK q : admin' = [admin EXCEPT ![n] = [AdminWaits EXCEPT !.pc = q]]
    BY <1>2
  <2> QED
    BY <1>1, <2>1 DEF AdminWaits
<1>4. /\ job \in Request /\ job # None
      /\ Requests(n) = <<job>> \o admin_thread_list[n]
      /\ admin_thread_list[n] \in Seq(Request)
  BY <1>1, RequestsCases
<1>5. /\ job.eng \in Customer /\ AtBarrier(job.eng) /\ server[job.eng] = n
      /\ job = RequestOf(job.eng)
  <2>1. job.eng \in Customer
    BY <1>4 DEF Request
  <2>2. 1 \in 1 .. Len(Requests(n)) /\ Requests(n)[1] = job
    <3> HIDE DEF job
    <3>1. <<job>> \in Seq(Request) /\ Len(<<job>>) = 1 /\ <<job>>[1] = job
      BY <1>4, SingleType
    <3>2. Len(admin_thread_list[n]) \in Nat
      BY <1>4, LenProperties
    <3>3. /\ Len(Requests(n)) = 1 + Len(admin_thread_list[n])
          /\ \A i \in 1 .. 1 + Len(admin_thread_list[n]) :
                Requests(n)[i] = IF i <= 1 THEN <<job>>[i]
                                 ELSE admin_thread_list[n][i - 1]
      BY <1>4, <3>1, ConcatProperties
    <3>4. 1 \in 1 .. 1 + Len(admin_thread_list[n]) /\ 1 <= 1
      BY <3>2
    <3> QED
      BY <3>1, <3>3, <3>4
  <2> HIDE DEF job
  <2> QED
    BY <2>1, <2>2 DEF DInv, BInv, BarrierDiscipline, NoDanglingRequest
<1> HIDE DEF job
<1>6. /\ \A c \in Customer \ {job.eng} : engineer'[c] = engineer[c]
      /\ engineer'[job.eng] = IF job.op = CommitOnly THEN "released" ELSE "ready"
      /\ engineer[job.eng] \in {"waiting", "closing"}
  BY <1>1, <1>2, <1>5 DEF TypeOK, AtBarrier
<1>7. \A c \in Customer : engineer[c] # "new" =>
          engineer'[c] # "new" /\ server'[c] = server[c]
  BY <1>2, <1>6
<1>8. \A c \in Customer : engineer'[c] = "ready" =>
          /\ engineer[c] # "new"
          /\ \/ engineer[c] = "ready" /\ ordered'[c] = ordered[c]
             \/ [arg1 |-> c, arg2 |-> ordered'[c]] \in Kept(wal[server[c]])
  <2> SUFFICES ASSUME job.op # CommitOnly
               PROVE  [arg1 |-> job.eng, arg2 |-> ordered'[job.eng]]
                         \in Kept(wal[server[job.eng]])
    BY <1>2, <1>6
  <2>1. job.op = [arg1 |-> job.eng, arg2 |-> ordered[job.eng]]
    <3>1. job.op = IF engineer[job.eng] = "closing" THEN CommitOnly
                   ELSE [arg1 |-> job.eng, arg2 |-> ordered[job.eng]]
      BY <1>5 DEF RequestOf
    <3> QED
      BY <3>1
  <2>2. job.op \in Kept(wal[n])
    BY <1>1, <1>4 DEF HandsLogged, job
  <2> QED
    BY <1>2, <1>5, <2>1, <2>2
<1>9. WalsOk'
  BY <1>1, <1>2 DEF WalsOk
<1> QED
  BY <1>2, <1>3, <1>7, <1>8, <1>9, Carried

\* A backup logs what it is sent.
LEMMA IfaLogs ==
    ASSUME DInv, BInv', NEW n \in Node,
           (\E p \in Node : IfaRead(p, n)) \/ RecoverWrite(n) \/ IfaApply(n)
    PROVE  DInv'
<1>1. TypeOK /\ WalsOk /\ wal \in [Node -> Wal(Entry)] /\ WalOk(wal[n])
  BY DEF DInv, BInv, TypeOK, WalsOk
<1>2. CASE Die(n, wal[n])
  BY <1>1, <1>2, DieLogs
<1>3. CASE ~Die(n, wal[n])
  <2>1. UNCHANGED <<admin, engineer, server, ordered, acked, hb_conn>>
    BY <1>3 DEF IfaRead, RecoverWrite, IfaApply, clientVars, lbVars
  <2>2. \/ wal' = wal
        \/ \E e \in Entry : \/ wal' = [wal EXCEPT ![n] = WriteLog(wal[n], e)]
                            \/ wal' = [wal EXCEPT ![n] = Flushed(WriteLog(wal[n], e))]
    <3>1. ASSUME NEW p \in Node, IfaRead(p, n), wal' # wal
          PROVE  \E e \in Entry : wal' = [wal EXCEPT ![n] = Flushed(WriteLog(wal[n], e))]
      <4> DEFINE req == Head(wire[p][n]).req
      <4>1. /\ wire[p][n] # <<>> /\ Head(wire[p][n]).kind = "req"
            /\ req.op # CommitOnly
            /\ wal' = [wal EXCEPT ![n] = Flushed(WriteLog(wal[n], req.op))]
        BY <3>1 DEF IfaRead, IsAnnouncement
      <4>2. Head(wire[p][n]) \in Message
        <5>1. wire[p][n] \in Seq(Message)
          BY <1>1 DEF TypeOK
        <5> QED
          BY <4>1, <5>1, HeadTailProperties
      <4>3. req \in ReplReq
        BY <4>1, <4>2 DEF Message
      <4> HIDE DEF req
      <4>4. req.op \in Entry
        BY <4>1, <4>3 DEF ReplReq, Entry
      <4> QED
        BY <4>1, <4>4
    <3>2. CASE RecoverWrite(n)
      <4> DEFINE i == ifa[n].i
      <4>1. /\ ifa[n] # None /\ InRange(smr_log[n], i)
            /\ wal' = [wal EXCEPT ![n] = WriteLog(wal[n], At(smr_log[n], i))]
        BY <1>3, <3>2 DEF RecoverWrite
      <4>2. i \in Int /\ smr_log[n] \in Seq(Entry)
        <5>1. ifa[n] # None
          BY <4>1
        <5>2. ifa[n].i \in Nat
          BY <1>1, <5>1, IfaFields
        <5> QED
          BY <1>1, <5>2 DEF TypeOK
      <4> HIDE DEF i
      <4>3. At(smr_log[n], i) \in Entry
        BY <4>1, <4>2, AtType
      <4> QED
        BY <4>1, <4>3
    <3>3. CASE IfaApply(n)
      BY <1>3, <3>3 DEF IfaApply
    <3> QED
      BY <3>1, <3>2, <3>3
  <2>3. WalsOk' /\ \A m \in Node : Kept(wal[m]) \subseteq Kept(wal'[m])
    <3>1. CASE wal' = wal
      BY <1>1, <3>1 DEF WalsOk
    <3>2. ASSUME NEW w, WalOk(w), Kept(wal[n]) \subseteq Kept(w),
                 wal' = [wal EXCEPT ![n] = w]
          PROVE  WalsOk' /\ \A m \in Node : Kept(wal[m]) \subseteq Kept(wal'[m])
      <4>1. /\ WalsOk' /\ wal'[n] = w
            /\ \A m \in Node \ {n} : Kept(wal[m]) \subseteq Kept(wal'[m])
        BY <1>1, <3>2, OneWal
      <4> QED
        BY <3>2, <4>1
    <3>3. \A e \in Entry : /\ WalOk(WriteLog(wal[n], e))
                           /\ Kept(wal[n]) \subseteq Kept(WriteLog(wal[n], e))
      BY <1>1, WrittenOk
    <3>4. \A e \in Entry : /\ WalOk(Flushed(WriteLog(wal[n], e)))
                           /\ Kept(wal[n]) \subseteq Kept(Flushed(WriteLog(wal[n], e)))
      BY <3>3, FlushedOk
    <3> QED
      BY <2>2, <3>1, <3>2, <3>3, <3>4
  <2> QED
    BY <2>1, <2>3, QuietLogs
<1> QED
  BY <1>2, <1>3

\* A server dies, or looks whether it has to.
LEMMA PerilousLogs ==
    ASSUME DInv, BInv', NEW n \in Node,
           AdminRecheck(n) \/ (\E p \in Node : IfaStray(p, n)) \/ Crash(n)
    PROVE  DInv'
<1>1. TypeOK /\ WalsOk /\ WalOk(wal[n])
  BY DEF DInv, BInv, WalsOk
<1>2. CASE \E w : WalOk(w) /\ Die(n, w)
  BY <1>2, DieLogs
<1>3. CASE \E p \in Node : IfaStray(p, n)
  <2>1. Garbage \in Entry
    BY DEF Entry
  <2>2. WalOk(Flushed(WriteLog(wal[n], Garbage)))
    BY <1>1, <2>1, WrittenOk, FlushedOk
  <2> QED
    BY <1>1, <1>2, <1>3, <2>2 DEF IfaStray
<1>4. CASE AdminRecheck(n) /\ ~Die(n, wal[n])
  <2>1. /\ admin' = [admin EXCEPT ![n].pc = "take"]
        /\ UNCHANGED <<wal, engineer, server, ordered, acked, hb_conn>>
    BY <1>4 DEF AdminRecheck, clientVars, lbVars
  <2>2. \A m \in Node : admin'[m].job = admin[m].job
    BY <1>1, <2>1, SendingKeepsJobs
  <2>3. WalsOk'
    BY <1>1, <2>1 DEF WalsOk
  <2> QED
    BY <2>1, <2>2, <2>3, QuietLogs
<1> QED
  BY <1>1, <1>2, <1>3, <1>4 DEF Crash

-----------------------------------------------------------------------------
(***************************************************************************)
(* The theorem.                                                            *)
(***************************************************************************)

LEMMA InitDInv == Init => DInv
<1> SUFFICES ASSUME Init PROVE DInv
  OBVIOUS
<1>1. BInv
  BY InitBInv
<1>2. /\ wal = [n \in Node |-> EmptyWal] /\ admin = [n \in Node |-> AdminWaits]
      /\ engineer = [c \in Customer |-> "new"] /\ acked = {}
  BY DEF Init
<1>3. WalOk(EmptyWal)
  <2>1. EmptyWal \in Wal(Entry)
    BY EmptyWalType
  <2>2. EmptyWal.file = <<>> /\ EmptyWal.buffer = <<>> /\ EmptyWal.batch = <<>>
    BY DEF EmptyWal
  <2>3. Len(<<>>) = 0 /\ 0 < BatchSize
    BY BatchSizeType
  <2>4. Damaged(<<>>) = {}
    BY <2>3 DEF Damaged
  <2> QED
    BY <2>1, <2>2, <2>3, <2>4 DEF WalOk
<1>4. WalsOk
  BY <1>2, <1>3 DEF WalsOk
<1>5. HandsLogged /\ ReadyLogged /\ AckedLogged
  BY <1>2 DEF HandsLogged, ReadyLogged, AckedLogged, AdminWaits
<1> QED
  BY <1>1, <1>4, <1>5 DEF DInv

LEMMA NextDInv == DInv /\ [Next]_vars => DInv'
<1> SUFFICES ASSUME DInv, [Next]_vars PROVE DInv'
  OBVIOUS
<1>1. BInv'
  BY NextBInv DEF DInv
<1>2. ASSUME NEW c \in Customer,
             Connect(c) \/ PlaceOrder(c) \/ Ship(c) \/ Hangup(c) \/ Finish(c)
      PROVE  DInv'
  BY <1>1, <1>2, SessionLogs, ShipLogs, CloseLogs
<1>3. ASSUME NEW n \in Node, CloseReader(n) \/ Crash(n) \/ Restart(n) \/ HeartBeat(n)
      PROVE  DInv'
  BY <1>1, <1>3, CloseLogs, PerilousLogs, OtherLogs
<1>4. ASSUME NEW n \in Node, AdminThread(n) PROVE DInv'
  BY <1>1, <1>4, PerilousLogs, TakeLogs, OtherLogs, CommitLogs DEF AdminThread
<1>5. ASSUME NEW n \in Node, IfaThread(n) PROVE DInv'
  BY <1>1, <1>5, IfaLogs, PerilousLogs, OtherLogs DEF IfaThread
<1>6. CASE UNCHANGED vars
  <2>1. UNCHANGED <<wal, admin, engineer, server, ordered, acked, hb_conn>>
    BY <1>6 DEF vars, logVars, threadVars, clientVars, lbVars
  <2>2. WalsOk'
    BY <2>1 DEF DInv, WalsOk
  <2> QED
    BY <1>1, <2>1, <2>2, QuietLogs
<1> QED
  BY <1>2, <1>3, <1>4, <1>5, <1>6 DEF Next

\* A sequence has no more elements than places.
LEMMA RangeSize ==
    ASSUME NEW S, NEW s \in Seq(S)
    PROVE  IsFiniteSet(Range(s)) /\ Cardinality(Range(s)) <= Len(s)
<1>1. Len(s) \in Nat /\ DOMAIN s = 1 .. Len(s) /\ s \in [1 .. Len(s) -> S]
  BY LenProperties
<1>2. s \in Surjection(1 .. Len(s), Range(s))
  <2>1. \A t \in Range(s) : \E i \in 1 .. Len(s) : s[i] = t
    BY <1>1 DEF Range
  <2>2. s \in [1 .. Len(s) -> Range(s)]
    BY <1>1 DEF Range
  <2> QED
    BY <2>1, <2>2 DEF Surjection
<1>3. IsFiniteSet(1 .. Len(s)) /\ Cardinality(1 .. Len(s)) = Len(s)
  BY <1>1, FS_Interval
<1> QED
  BY <1>2, <1>3, FS_Surjection

\* What a server that flushes its batches would not read back is in its batch.
LEMMA UnwrittenInBatch ==
    ASSUME DInv, Flushing, NEW n \in Survivors
    PROVE  Unwritten(n) \subseteq Range(wal[n].batch)
<1>1. n \in Node /\ hb_conn[n] /\ wal[n] \in Wal(Entry)
      /\ Damaged(wal[n].file) = {} /\ wal[n].buffer = <<>>
  BY DEF Survivors, DInv, WalsOk, WalOk
<1>2. Recovered(wal[n]) = wal[n].file
  BY <1>1, BadIsNoEntry, RecoveredCases
<1>3. ASSUME NEW o \in Unwritten(n) PROVE o \in Range(wal[n].batch)
  <2>1. o \in acked /\ server[o.arg1] = n /\ o \notin Range(wal[n].file)
    BY <1>2 DEF Unwritten
  <2>2. o \in Kept(wal[n])
    BY <1>1, <2>1 DEF DInv, AckedLogged
  <2> QED
    BY <1>1, <2>1, <2>2, RangeEmpty DEF Kept
<1> QED
  BY <1>3

\* Of the orders whose robots it has shipped a crash of a server loses fewer than a
\* batch holds (CommitLog.cpp:91, Server.cpp:394-405), for every batch size above
\* 1 or with F_FLUSH, for any number of servers, customers, orders and crashes.
THEOREM ShippedOrdersAreWritten == Spec => []ShippedLossIsBounded
<1>1. DInv => ShippedLossIsBounded
  <2> SUFFICES ASSUME DInv, Flushing, NEW n \in Survivors
               PROVE  Cardinality(Unwritten(n)) < BatchSize
    BY DEF ShippedLossIsBounded
  <2>1. wal[n] \in Wal(Entry) /\ Len(wal[n].batch) < BatchSize
    BY DEF Survivors, DInv, WalsOk, WalOk
  <2>2. wal[n].batch \in Seq(Entry) /\ Len(wal[n].batch) \in Nat
    BY <2>1, WalType, LenProperties
  <2>3. /\ IsFiniteSet(Range(wal[n].batch))
        /\ Cardinality(Range(wal[n].batch)) <= Len(wal[n].batch)
    BY <2>2, RangeSize
  <2>4. /\ IsFiniteSet(Unwritten(n))
        /\ Cardinality(Unwritten(n)) <= Cardinality(Range(wal[n].batch))
    BY <2>3, UnwrittenInBatch, FS_Subset
  <2>5. Cardinality(Unwritten(n)) \in Nat /\ Cardinality(Range(wal[n].batch)) \in Nat
    BY <2>3, <2>4, FS_CardinalityType
  <2> QED
    BY <2>1, <2>2, <2>3, <2>4, <2>5, BatchSizeType
<1> QED
  BY <1>1, InitDInv, NextDInv, PTL DEF Spec

=============================================================================
