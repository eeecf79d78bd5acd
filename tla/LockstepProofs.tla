--------------------------- MODULE LockstepProofs ---------------------------
(***************************************************************************)
(* The servers that have never died keep the same log and never fall       *)
(* behind by more than the request that is going round, for any number of  *)
(* servers, customers, orders, crashes and restarts.  From this follow the *)
(* promises about them in Replication: AckedSurvive, FileMatchesLog,       *)
(* ReadsLagByOne, LastIndexIsLast and the refinement of OrderLedger.       *)
(***************************************************************************)
EXTENDS ReplicationProofs

-----------------------------------------------------------------------------
(***************************************************************************)
(* Who plays which part.  There is one primary at a time, and it is the    *)
(* load balancer's master.  hb_conn[n]: n has never died.                  *)
(***************************************************************************)

\* A server has never died, or its death is going to be noticed.
Lives ==
    \A n \in Node : /\ hb_conn[n] => up[n] /\ node_health[n]
                    /\ up[n] /\ node_health[n] => hb_conn[n]

\* The session of c is open.
Active(c) == engineer[c] \in {"idle", "waiting", "ready", "closing", "released"}

ActiveAtMaster ==
    \A c \in Customer : Active(c) =>
        server[c] = master_node_id /\ hb_conn[master_node_id]

\* An admin thread in its loop has found work in its list.
WorkAhead ==
    \A n \in Node : admin[n].pc \in {"next", "take"} => admin_thread_list[n] # <<>>

\* Nothing is still to be read, or being read, from a server that is not the
\* master or that is known to be dead, nor from itself.
OnePrimary ==
    \A p, b \in Node : wire[p][b] # <<>> \/ (ifa[b] # None /\ ifa[b].from = p) =>
        p = master_node_id /\ p # b /\ node_health[p]

\* A server that is not the living master has no connections to peers.
OthersIdle ==
    \A p \in Node : p # master_node_id \/ ~hb_conn[p] =>
        /\ recheck_allow[p]
        /\ \A b \in Node : socket[p][b] = "closed" /\ reply[p][b] = None

\* The peers that a request still has to go to: each once, and not its sender.
TodoDistinct ==
    \A n \in Node :
        /\ n \notin Range(admin[n].todo)
        /\ IsInjective(admin[n].todo)

RolesInv ==
    /\ BInv /\ Lives /\ ActiveAtMaster /\ WorkAhead
    /\ OnePrimary /\ OthersIdle /\ TodoDistinct

\* Only the living master has requests to handle, and it is nobody's backup.
LEMMA OnlyMasterWorks ==
    ASSUME RolesInv, NEW n \in Node, admin_thread_list[n] # <<>> \/ admin[n].pc # "wait"
    PROVE  /\ n = master_node_id /\ hb_conn[n] /\ up[n] /\ node_health[n]
           /\ ifa[n] = None
           /\ \A p \in Node : wire[p][n] = <<>>
           /\ \E c \in Customer : AtBarrier(c) /\ server[c] = n
<1>1. TypeOK /\ NoDanglingRequest
  BY DEF RolesInv, BInv, BarrierDiscipline
<1>2. Requests(n) \in Seq(Request) /\ Requests(n) # <<>>
  <2>1. admin[n] \in AdminState /\ admin_thread_list[n] \in Seq(Request)
    BY <1>1 DEF TypeOK
  <2>2. admin_thread_list[n] # <<>> \/ admin[n].job # None
    BY <1>1, <2>1, AdminStateCases, RequestsCases DEF RolesInv, WorkAhead
  <2>3. CASE admin[n].job = None
    BY <1>1, <2>2, <2>3, RequestsCases
  <2>4. CASE admin[n].job # None
    <3>1. Requests(n) = <<admin[n].job>> \o admin_thread_list[n] /\ admin[n].job \in Request
      BY <1>1, <2>4, RequestsCases
    <3>2. /\ <<admin[n].job>> \in Seq(Request) /\ Len(<<admin[n].job>>) = 1
          /\ Len(admin_thread_list[n]) \in Nat
      BY <2>1, <3>1, SingleType, LenProperties
    <3>3. Requests(n) \in Seq(Request) /\ Len(Requests(n)) = 1 + Len(admin_thread_list[n])
      BY <2>1, <3>1, <3>2, ConcatProperties
    <3> QED
      BY <3>2, <3>3, EmptySeq
  <2> QED
    BY <2>3, <2>4
<1>3. 1 \in 1 .. Len(Requests(n)) /\ Requests(n)[1] \in Request
  BY <1>2, EmptySeq, LenProperties, ElementOfSeq
<1>4. PICK c \in Customer : AtBarrier(c) /\ server[c] = n
  BY <1>1, <1>3 DEF NoDanglingRequest, Request
<1>5. n = master_node_id /\ hb_conn[n]
  BY <1>4 DEF RolesInv, ActiveAtMaster, Active, AtBarrier
<1>6. up[n] /\ node_health[n]
  BY <1>5 DEF RolesInv, Lives
<1>7. ifa[n] = None
  BY <1>1, <1>5, IfaFields DEF RolesInv, OnePrimary
<1>8. \A p \in Node : wire[p][n] = <<>>
  BY <1>5 DEF RolesInv, OnePrimary
<1> QED
  BY <1>4, <1>5, <1>6, <1>7, <1>8

\* What a step that is none of a death, a restart, a detection and the choice of
\* a master has to respect.
LEMMA RolesStay ==
    ASSUME RolesInv, BInv',
           UNCHANGED <<up, hb_conn, node_health, master_node_id>>,
           \A c \in Customer : Active(c)' => Active(c) /\ server'[c] = server[c],
           \A n \in Node : admin'[n].pc \in {"next", "take"} => admin_thread_list'[n] # <<>>,
           \A p, b \in Node : wire'[p][b] # <<>> =>
               wire[p][b] # <<>> \/ (p = master_node_id /\ p # b /\ node_health[p]),
           \A b \in Node : ifa'[b] # None =>
               \/ ifa[b] # None /\ ifa'[b].from = ifa[b].from
               \/ wire[ifa'[b].from][b] # <<>>,
           \A p \in Node : p # master_node_id \/ ~hb_conn[p] =>
               /\ recheck_allow[p] => recheck_allow'[p]
               /\ \A b \in Node : /\ socket'[p][b] = socket[p][b]
                                  /\ reply'[p][b] \in {None, reply[p][b]},
           TodoDistinct'
    PROVE  RolesInv'
<1>1. Lives'
  BY DEF RolesInv, Lives
<1>2. ActiveAtMaster'
  BY DEF RolesInv, ActiveAtMaster
<1>3. WorkAhead'
  BY DEF WorkAhead
<1>4. OnePrimary'
  <2> SUFFICES ASSUME NEW p \in Node, NEW b \in Node,
                      wire'[p][b] # <<>> \/ (ifa'[b] # None /\ ifa'[b].from = p)
               PROVE  p = master_node_id /\ p # b /\ node_health[p]
    BY DEF OnePrimary
  <2>1. CASE wire'[p][b] # <<>>
    BY <2>1 DEF RolesInv, OnePrimary
  <2>2. CASE ifa'[b] # None /\ ifa'[b].from = p
    BY <2>2 DEF RolesInv, OnePrimary
  <2> QED
    BY <2>1, <2>2
<1>5. OthersIdle'
  BY DEF RolesInv, OthersIdle
<1> QED
  BY <1>1, <1>2, <1>3, <1>4, <1>5 DEF RolesInv

-----------------------------------------------------------------------------
(***************************************************************************)
(* The peers a request still has to go to.                                 *)
(***************************************************************************)

LEMMA RangeTail ==
    ASSUME NEW S, NEW s \in Seq(S), s # <<>>
    PROVE  /\ Head(s) \in S /\ Tail(s) \in Seq(S)
           /\ Range(s) = {Head(s)} \cup Range(Tail(s))
           /\ IsInjective(s) => IsInjective(Tail(s)) /\ Head(s) \notin Range(Tail(s))
<1>1. /\ Len(s) \in Nat \ {0} /\ DOMAIN s = 1 .. Len(s)
      /\ Head(s) \in S /\ Head(s) = s[1] /\ Tail(s) \in Seq(S) /\ Len(Tail(s)) = Len(s) - 1
      /\ \A i \in 1 .. Len(Tail(s)) : Tail(s)[i] = s[i + 1]
  BY HeadTailProperties, EmptySeq, LenProperties
<1>2. DOMAIN Tail(s) = 1 .. Len(s) - 1
  BY <1>1, LenProperties
<1>3. ASSUME NEW x \in Range(s) PROVE x = Head(s) \/ x \in Range(Tail(s))
  <2>1. PICK i \in 1 .. Len(s) : s[i] = x
    BY <1>1, <1>3 DEF Range
  <2>2. CASE i = 1
    BY <1>1, <2>1, <2>2
  <2>3. CASE i # 1
    <3>1. i - 1 \in 1 .. Len(s) - 1 /\ Tail(s)[i - 1] = x
      BY <1>1, <2>1, <2>3
    <3> QED
      BY <1>2, <3>1 DEF Range
  <2> QED
    BY <2>2, <2>3
<1>4. ASSUME NEW x \in Range(Tail(s)) PROVE \E i \in 2 .. Len(s) : s[i] = x
  <2>1. PICK i \in 1 .. Len(s) - 1 : Tail(s)[i] = x
    BY <1>2, <1>4 DEF Range
  <2>2. i + 1 \in 2 .. Len(s) /\ s[i + 1] = x
    BY <1>1, <2>1
  <2> QED
    BY <2>2
<1>5. \A i \in 2 .. Len(s) : i \in 1 .. Len(s) /\ i # 1
  BY <1>1
<1>6. 1 \in 1 .. Len(s)
  BY <1>1
<1>7. Range(s) = {Head(s)} \cup Range(Tail(s))
  BY <1>1, <1>3, <1>4, <1>5, <1>6 DEF Range
<1>8. ASSUME IsInjective(s) PROVE Head(s) \notin Range(Tail(s))
  BY <1>1, <1>4, <1>5, <1>6, <1>8 DEF IsInjective
<1>9. ASSUME IsInjective(s) PROVE IsInjective(Tail(s))
  <2> SUFFICES ASSUME NEW i \in 1 .. Len(s) - 1, NEW j \in 1 .. Len(s) - 1,
                      Tail(s)[i] = Tail(s)[j]
               PROVE  i = j
    BY <1>2 DEF IsInjective
  <2>1. i + 1 \in 1 .. Len(s) /\ j + 1 \in 1 .. Len(s) /\ s[i + 1] = s[j + 1]
    BY <1>1
  <2>2. i + 1 = j + 1
    BY <1>1, <1>9, <2>1 DEF IsInjective
  <2> QED
    BY <2>2
<1> QED
  BY <1>1, <1>7, <1>8, <1>9

LEMMA TodoShrinks ==
    ASSUME TypeOK, TodoDistinct,
           \A n \in Node : \/ admin'[n].todo \in {admin[n].todo, <<>>, Peers[n]}
                           \/ admin[n].todo # <<>> /\ admin'[n].todo = Tail(admin[n].todo)
    PROVE  TodoDistinct'
<1> SUFFICES ASSUME NEW n \in Node
             PROVE  n \notin Range(admin'[n].todo) /\ IsInjective(admin'[n].todo)
  BY DEF TodoDistinct
<1>1. n \notin Range(admin[n].todo) /\ IsInjective(admin[n].todo)
  BY DEF TodoDistinct
<1>2. CASE admin'[n].todo = admin[n].todo
  BY <1>1, <1>2
<1>3. CASE admin'[n].todo = <<>>
  BY <1>3 DEF IsInjective, Range
<1>4. CASE admin'[n].todo = Peers[n]
  BY <1>4, MeshAssumption
<1>5. CASE admin[n].todo # <<>> /\ admin'[n].todo = Tail(admin[n].todo)
  <2>1. admin[n].todo \in Seq(Node)
    <3>1. admin[n] \in AdminState /\ <<>> \in Seq(Node)
      BY DEF TypeOK
    <3> QED
      BY <1>5, <3>1, AdminStateCases
  <2> QED
    BY <1>1, <1>5, <2>1, RangeTail
<1> QED
  BY <1>2, <1>3, <1>4, <1>5

\* How each step of an admin thread changes its state.
LEMMA AdminMoves ==
    ASSUME TypeOK, NEW n \in Node
    PROVE  /\ AdminSend(n) => admin' = [admin EXCEPT ![n] =
                  [pc |-> "ack", job |-> admin[n].job, todo |-> admin[n].todo]]
           /\ NextPeer(n) => admin' = [admin EXCEPT ![n] =
                  [pc |-> "send", job |-> admin[n].job, todo |-> Tail(admin[n].todo)]]
           /\ admin' = [admin EXCEPT ![n].pc = "reack"] => admin' = [admin EXCEPT ![n] =
                  [pc |-> "reack", job |-> admin[n].job, todo |-> admin[n].todo]]
           /\ admin' = [admin EXCEPT ![n].pc = "take"] => admin' = [admin EXCEPT ![n] =
                  [pc |-> "take", job |-> admin[n].job, todo |-> admin[n].todo]]
<1>1. admin \in [Node -> AdminState] /\ admin[n] \in AdminState
  BY DEF TypeOK
<1>2. \A q, r : /\ [admin[n] EXCEPT !.pc = q] = [pc |-> q, job |-> admin[n].job, todo |-> admin[n].todo]
                /\ [admin[n] EXCEPT !.pc = q, !.todo = r] = [pc |-> q, job |-> admin[n].job, todo |-> r]
  <2> SUFFICES ASSUME NEW q, NEW r
               PROVE  /\ [admin[n] EXCEPT !.pc = q] = [pc |-> q, job |-> admin[n].job, todo |-> admin[n].todo]
                      /\ [admin[n] EXCEPT !.pc = q, !.todo = r] = [pc |-> q, job |-> admin[n].job, todo |-> r]
    OBVIOUS
  <2> QED
    BY <1>1, AdminStateFields
<1>3. \A q : [admin EXCEPT ![n].pc = q] = [admin EXCEPT ![n] = [admin[n] EXCEPT !.pc = q]]
  BY <1>1
<1>4. \A q, r : [admin EXCEPT ![n].pc = q, ![n].todo = r]
                    = [admin EXCEPT ![n] = [admin[n] EXCEPT !.pc = q, !.todo = r]]
  BY <1>1
<1>5. AdminSend(n) => admin' = [admin EXCEPT ![n] =
          [pc |-> "ack", job |-> admin[n].job, todo |-> admin[n].todo]]
  BY <1>2, <1>3 DEF AdminSend
<1>6. NextPeer(n) => admin' = [admin EXCEPT ![n] =
          [pc |-> "send", job |-> admin[n].job, todo |-> Tail(admin[n].todo)]]
  <2> SUFFICES ASSUME NextPeer(n)
               PROVE  admin' = [admin EXCEPT ![n] =
                          [pc |-> "send", job |-> admin[n].job, todo |-> Tail(admin[n].todo)]]
    OBVIOUS
  <2> DEFINE rest == Tail(admin[n].todo)
  <2>1. admin' = [admin EXCEPT ![n].pc = "send", ![n].todo = rest]
    BY <1>1 DEF NextPeer
  <2> HIDE DEF rest
  <2>2. admin' = [admin EXCEPT ![n] = [admin[n] EXCEPT !.pc = "send", !.todo = rest]]
    BY <1>4, <2>1
  <2>3. admin' = [admin EXCEPT ![n] = [pc |-> "send", job |-> admin[n].job, todo |-> rest]]
    BY <1>2, <2>2
  <2> QED
    BY <2>3 DEF rest
<1>7. \A q : admin' = [admin EXCEPT ![n].pc = q] => admin' = [admin EXCEPT ![n] =
          [pc |-> q, job |-> admin[n].job, todo |-> admin[n].todo]]
  BY <1>2, <1>3
<1> QED
  BY <1>5, <1>6, <1>7

-----------------------------------------------------------------------------
(***************************************************************************)
(* The parts stay as they are in every step.                               *)
(***************************************************************************)

LEMMA SessionRoles ==
    ASSUME RolesInv, BInv', NEW c \in Customer,
           PlaceOrder(c) \/ Ship(c) \/ Hangup(c) \/ Finish(c)
    PROVE  RolesInv'
<1>1. /\ TypeOK
      /\ UNCHANGED <<up, hb_conn, node_health, master_node_id, wire, ifa, socket, reply, admin,
                     server>>
  BY DEF RolesInv, BInv, PlaceOrder, Ship, Hangup, Finish, Enqueue, CloseSession,
         lbVars, netVars, threadVars
<1>2. \A d \in Customer : Active(d)' => Active(d)
  BY <1>1 DEF Active, PlaceOrder, Ship, Hangup, Finish, TypeOK
<1>3. \A n \in Node : admin_thread_list[n] # <<>> => admin_thread_list'[n] # <<>>
  <2>1. CASE PlaceOrder(c) \/ Hangup(c)
    <3>1. \E r : admin_thread_list' = [admin_thread_list EXCEPT ![server[c]] = Append(@, r)]
      BY <2>1 DEF PlaceOrder, Hangup, Enqueue
    <3>2. \A r : Append(admin_thread_list[server[c]], r) # <<>>
      OBVIOUS
    <3> QED
      BY <1>1, <3>1, <3>2 DEF TypeOK
  <2>2. CASE Ship(c) \/ Finish(c)
    BY <2>2 DEF Ship, Finish, threadVars
  <2> QED
    BY <2>1, <2>2
<1>4. \A p \in Node : recheck_allow[p] => recheck_allow'[p]
  BY <1>1 DEF PlaceOrder, Ship, Hangup, Finish, CloseSession, threadVars, TypeOK
<1>5. TodoDistinct'
  BY <1>1, TodoShrinks DEF RolesInv
<1> QED
  BY <1>1, <1>2, <1>3, <1>4, <1>5, RolesStay DEF RolesInv, WorkAhead

LEMMA CloseReaderRoles ==
    ASSUME RolesInv, BInv', NEW n \in Node, CloseReader(n)
    PROVE  RolesInv'
<1>1. /\ TypeOK
      /\ UNCHANGED <<up, hb_conn, node_health, master_node_id, wire, ifa, socket, reply, admin,
                     server, engineer, admin_thread_list>>
      /\ recheck_allow' = [recheck_allow EXCEPT ![n] = TRUE]
  BY DEF RolesInv, BInv, CloseReader, CloseSession, lbVars, netVars, clientVars
<1>2. TodoDistinct'
  BY <1>1, TodoShrinks DEF RolesInv
<1> QED
  BY <1>1, <1>2, RolesStay DEF RolesInv, WorkAhead, Active, TypeOK

\* The steps in which the admin thread goes round the peers.
LEMMA SendingRoles ==
    ASSUME RolesInv, BInv', NEW n \in Node,
           AdminSkip(n) \/ AdminSend(n) \/ AdminAck(n) \/ AdminPeerGone(n)
    PROVE  RolesInv'
<1> DEFINE to == Head(admin[n].todo)
<1>1. /\ TypeOK
      /\ UNCHANGED <<up, hb_conn, node_health, master_node_id, ifa, recheck_allow,
                     server, engineer, admin_thread_list>>
      /\ admin[n].pc \in {"send", "ack", "reack"}
  BY DEF RolesInv, BInv, AdminSkip, AdminSend, AdminAck, AdminPeerGone, PeerFailed,
         lbVars, clientVars
<1>2. n = master_node_id /\ hb_conn[n] /\ node_health[n]
  BY <1>1, OnlyMasterWorks
<1>3. admin[n].todo # <<>> /\ admin[n].todo \in Seq(Node) /\ to \in Node /\ to # n
  <2>1. admin[n].todo # <<>> /\ admin[n].todo \in Seq(Node)
    BY <1>1, AdminStateCases DEF AdminSkip, AdminSend, AdminAck, AdminPeerGone, TypeOK
  <2>2. to \in Range(admin[n].todo) /\ to \in Node
    BY <2>1, RangeTail
  <2> QED
    BY <2>1, <2>2 DEF RolesInv, TodoDistinct
<1>4. \/ \E q \in {"ack", "reack"} : admin' = [admin EXCEPT ![n] =
                [pc |-> q, job |-> admin[n].job, todo |-> admin[n].todo]]
      \/ admin' = [admin EXCEPT ![n] =
                [pc |-> "send", job |-> admin[n].job, todo |-> Tail(admin[n].todo)]]
  BY <1>1, AdminMoves DEF AdminSkip, AdminAck, AdminPeerGone
<1>5. /\ \A m \in Node \ {n} : admin'[m] = admin[m]
      /\ admin'[n].pc \in {"ack", "reack", "send"}
      /\ admin'[n].todo \in {admin[n].todo, Tail(admin[n].todo)}
  <2>1. admin \in [Node -> AdminState]
    BY <1>1 DEF TypeOK
  <2> QED
    BY <1>4, <2>1
<1>6. TodoDistinct'
  BY <1>1, <1>3, <1>5, TodoShrinks DEF RolesInv
<1>7. \A p, b \in Node : wire'[p][b] # wire[p][b] => p = n /\ b = to
  <2>1. \/ wire' = wire
        \/ \E s : wire' = [wire EXCEPT ![n][to] = s]
    BY DEF AdminSkip, AdminSend, AdminAck, AdminPeerGone, netVars
  <2> HIDE DEF to
  <2>2. wire \in [Node -> [Node -> Seq(Message)]] /\ to \in Node
    BY <1>1, <1>3 DEF TypeOK
  <2>3. ASSUME NEW s, wire' = [wire EXCEPT ![n][to] = s]
        PROVE  \A p, b \in Node : wire'[p][b] # wire[p][b] => p = n /\ b = to
    BY <2>2, <2>3
  <2> QED
    BY <2>1, <2>3
<1>8. \A p \in Node \ {n} : socket'[p] = socket[p] /\ reply'[p] = reply[p]
  BY <1>1 DEF AdminSkip, AdminSend, AdminAck, AdminPeerGone, netVars, TypeOK
<1> HIDE DEF to
<1> QED
  BY <1>1, <1>2, <1>3, <1>5, <1>6, <1>7, <1>8, RolesStay DEF RolesInv, WorkAhead, Active

LEMMA TakeRoles ==
    ASSUME RolesInv, BInv', NEW n \in Node, AdminTake(n)
    PROVE  RolesInv'
<1>1. /\ TypeOK
      /\ UNCHANGED <<up, hb_conn, node_health, master_node_id, ifa, wire, socket, reply,
                     server, engineer>>
      /\ admin_thread_list[n] # <<>>
      /\ recheck_allow' = [recheck_allow EXCEPT ![n] = FALSE]
      /\ admin_thread_list' = [admin_thread_list EXCEPT ![n] = Tail(@)]
      /\ \E job : admin' = [admin EXCEPT ![n] = [pc |-> "send", job |-> job, todo |-> Peers[n]]]
  BY DEF RolesInv, BInv, AdminTake, lbVars, netVars, clientVars
<1>2. n = master_node_id /\ hb_conn[n]
  BY <1>1, OnlyMasterWorks
<1>3. /\ \A m \in Node \ {n} : admin'[m] = admin[m] /\ recheck_allow'[m] = recheck_allow[m]
                               /\ admin_thread_list'[m] = admin_thread_list[m]
      /\ admin'[n].pc = "send" /\ admin'[n].todo = Peers[n]
  BY <1>1 DEF TypeOK
<1>4. TodoDistinct'
  BY <1>1, <1>3, TodoShrinks DEF RolesInv
<1> QED
  BY <1>1, <1>2, <1>3, <1>4, RolesStay DEF RolesInv, WorkAhead, Active

LEMMA CommitRoles ==
    ASSUME RolesInv, BInv', NEW n \in Node, AdminCommit(n)
    PROVE  RolesInv'
<1> DEFINE c == admin[n].job.eng
<1>1. /\ TypeOK
      /\ UNCHANGED <<up, hb_conn, node_health, master_node_id, ifa, wire, socket, reply,
                     server, admin_thread_list, recheck_allow>>
      /\ admin[n].pc = "send"
      /\ \E e : engineer' = [engineer EXCEPT ![c] = e]
      /\ admin' = [admin EXCEPT ![n] =
                      [AdminWaits EXCEPT !.pc =
                          IF admin_thread_list[n] = <<>> THEN "wait" ELSE "next"]]
  BY DEF RolesInv, BInv, AdminCommit, lbVars, netVars
<1>2. n = master_node_id /\ hb_conn[n]
  BY <1>1, OnlyMasterWorks
<1>3. /\ \A m \in Node \ {n} : admin'[m] = admin[m]
      /\ admin'[n].pc = (IF admin_thread_list[n] = <<>> THEN "wait" ELSE "next")
      /\ admin'[n].todo = <<>>
  BY <1>1 DEF TypeOK, AdminWaits
<1>4. TodoDistinct'
  <2>1. \A m \in Node : admin'[m].todo \in {admin[m].todo, <<>>}
    BY <1>3
  <2> QED
    BY <1>1, <2>1, TodoShrinks DEF RolesInv
<1>5. c \in Customer /\ Active(c)
  <2>1. Requests(n) = <<admin[n].job>> \o admin_thread_list[n] /\ admin[n].job \in Request
    BY <1>1, RequestsCases
  <2>2. Requests(n)[1] = admin[n].job /\ 1 \in 1 .. Len(Requests(n))
    BY <1>1, <2>1, SingleType, RequestsCases, LenProperties, ConcatProperties
  <2>3. AtBarrier(c)
    BY <2>2 DEF RolesInv, BInv, BarrierDiscipline, NoDanglingRequest
  <2> QED
    BY <2>1, <2>3 DEF Request, AtBarrier, Active
<1>6. \A d \in Customer : Active(d)' => Active(d)
  BY <1>1, <1>5 DEF Active, TypeOK
<1> QED
  BY <1>1, <1>2, <1>3, <1>4, <1>6, RolesStay DEF RolesInv, WorkAhead

\* A server that dies: nothing of it goes on.
LEMMA DieRoles ==
    ASSUME RolesInv, BInv', NEW n \in Node, NEW w, Die(n, w)
    PROVE  RolesInv'
<1>1. /\ TypeOK
      /\ UNCHANGED <<server, master_node_id, node_health>>
      /\ up' = [up EXCEPT ![n] = FALSE] /\ hb_conn' = [hb_conn EXCEPT ![n] = FALSE]
      /\ recheck_allow' = [recheck_allow EXCEPT ![n] = TRUE]
      /\ admin_thread_list' = [admin_thread_list EXCEPT ![n] = <<>>]
      /\ admin' = [admin EXCEPT ![n] = AdminWaits]
      /\ ifa' = [ifa EXCEPT ![n] = None]
  BY DEF RolesInv, BInv, Die
<1>2. /\ ~up'[n] /\ ~hb_conn'[n] /\ recheck_allow'[n] /\ admin'[n] = AdminWaits /\ ifa'[n] = None
      /\ \A m \in Node \ {n} :
            /\ up'[m] = up[m] /\ hb_conn'[m] = hb_conn[m] /\ recheck_allow'[m] = recheck_allow[m]
            /\ admin'[m] = admin[m] /\ ifa'[m] = ifa[m]
            /\ admin_thread_list'[m] = admin_thread_list[m]
  BY <1>1 DEF TypeOK
<1>3. \A p, b \in Node : wire'[p][b] # <<>> => wire[p][b] # <<>>
  <2> SUFFICES ASSUME NEW p \in Node, NEW b \in Node, wire[p][b] = <<>>
               PROVE  wire'[p][b] = <<>>
    OBVIOUS
  <2>1. PICK to \in Node : \E k \in 0 .. Len(wire[n][to]) :
          wire' = [q \in Node |-> [a \in Node |->
                    IF a = n THEN <<>>
                    ELSE IF q = n /\ a = to THEN SubSeq(wire[n][to], 1, k)
                    ELSE wire[q][a]]]
    BY DEF Die
  <2>2. PICK k \in 0 .. Len(wire[n][to]) :
          wire' = [q \in Node |-> [a \in Node |->
                    IF a = n THEN <<>>
                    ELSE IF q = n /\ a = to THEN SubSeq(wire[n][to], 1, k)
                    ELSE wire[q][a]]]
    BY <2>1
  <2>3. wire[n][to] = <<>> => k = 0 /\ SubSeq(<<>>, 1, 0) = <<>>
    OBVIOUS
  <2> QED
    BY <2>2, <2>3
<1>4. \A p, b \in Node : /\ p = n => socket'[p][b] = "closed" /\ reply'[p][b] = None
                         /\ p # n /\ socket[p][b] = "closed" => socket'[p][b] = "closed"
                         /\ p # n /\ reply[p][b] = None => reply'[p][b] = None
  BY DEF Die
<1>5. Lives'
  BY <1>1, <1>2 DEF RolesInv, Lives
<1>6. ActiveAtMaster'
  <2> SUFFICES ASSUME NEW c \in Customer, Active(c)'
               PROVE  server[c] = master_node_id /\ hb_conn'[master_node_id]
    BY <1>1 DEF ActiveAtMaster
  <2>1. Active(c) /\ server[c] # n
    BY DEF Die, Active
  <2> QED
    BY <1>1, <1>2, <2>1 DEF RolesInv, ActiveAtMaster, TypeOK
<1>7. WorkAhead'
  BY <1>2 DEF RolesInv, WorkAhead, AdminWaits
<1>8. OnePrimary'
  BY <1>1, <1>2, <1>3 DEF RolesInv, OnePrimary
<1>9. OthersIdle'
  BY <1>1, <1>2, <1>4 DEF RolesInv, OthersIdle
<1>10. TodoDistinct'
  <2>1. \A m \in Node : admin'[m].todo \in {admin[m].todo, <<>>}
    BY <1>2 DEF AdminWaits
  <2> QED
    BY <1>1, <2>1, TodoShrinks DEF RolesInv
<1> QED
  BY <1>5, <1>6, <1>7, <1>8, <1>9, <1>10 DEF RolesInv

LEMMA RecheckRoles ==
    ASSUME RolesInv, BInv', NEW n \in Node, AdminRecheck(n)
    PROVE  RolesInv'
<1>1. CASE \E w : Die(n, w)
  BY <1>1, DieRoles
<1>2. CASE ~ \E w : Die(n, w)
  <2>1. /\ TypeOK /\ admin_thread_list[n] # <<>>
        /\ UNCHANGED <<up, hb_conn, node_health, master_node_id, ifa, wire, reply,
                       server, engineer, admin_thread_list, recheck_allow>>
        /\ admin' = [admin EXCEPT ![n].pc = "take"]
        /\ \E s : socket' = [socket EXCEPT ![n] = s]
    BY <1>2 DEF RolesInv, BInv, AdminRecheck, AdminAwake, RecheckReplSock, clientVars, lbVars
  <2>2. n = master_node_id /\ hb_conn[n]
    BY <2>1, OnlyMasterWorks
  <2>3. admin' = [admin EXCEPT ![n] = [pc |-> "take", job |-> admin[n].job, todo |-> admin[n].todo]]
    BY <2>1, AdminMoves
  <2>4. /\ \A m \in Node \ {n} : admin'[m] = admin[m] /\ socket'[m] = socket[m]
        /\ admin'[n].todo = admin[n].todo
    BY <2>1, <2>3 DEF TypeOK
  <2>5. TodoDistinct'
    BY <2>1, <2>4, TodoShrinks DEF RolesInv
  <2> QED
    BY <2>1, <2>2, <2>4, <2>5, RolesStay DEF RolesInv, WorkAhead, Active
<1> QED
  BY <1>1, <1>2

\* The steps of an ifa thread that is not cut short.
LEMMA IfaRoles ==
    ASSUME RolesInv, BInv', NEW b \in Node,
           (\E p \in Node : IfaRead(p, b)) \/ RecoverRead(b) \/ RecoverFail(b)
               \/ RecoverWrite(b) \/ IfaApply(b),
           ~ \E w : Die(b, w)
    PROVE  RolesInv'
<1>1. /\ TypeOK
      /\ UNCHANGED <<up, hb_conn, node_health, master_node_id, socket, admin,
                     server, engineer, admin_thread_list, recheck_allow>>
  BY DEF RolesInv, BInv, IfaRead, RecoverRead, RecoverFail, RecoverWrite, IfaApply,
         clientVars, lbVars, netVars
<1>2. TodoDistinct'
  BY <1>1, TodoShrinks DEF RolesInv
<1>3. /\ \A a \in Node \ {b} : ifa'[a] = ifa[a]
      /\ ifa'[b] # None => \/ ifa[b] # None /\ ifa'[b].from = ifa[b].from
                           \/ ifa'[b].from \in Node /\ wire[ifa'[b].from][b] # <<>>
  <2>1. CASE \E p \in Node : IfaRead(p, b)
    <3>1. PICK p \in Node : IfaRead(p, b)
      BY <2>1
    <3>2. PICK req, i, phase :
             ifa' = [ifa EXCEPT ![b] = [from |-> p, req |-> req, i |-> i, phase |-> phase]]
      BY <3>1 DEF IfaRead
    <3>3. ifa \in [Node -> IfaState \cup {None}]
      BY <1>1 DEF TypeOK
    <3>4. ifa'[b].from = p /\ \A a \in Node \ {b} : ifa'[a] = ifa[a]
      BY <3>2, <3>3
    <3>5. wire[p][b] # <<>>
      BY <3>1 DEF IfaRead
    <3> QED
      BY <3>4, <3>5
  <2>2. ASSUME NEW v, ifa' = [ifa EXCEPT ![b] = v], v.from = ifa[b].from, ifa[b] # None
        PROVE  (\A a \in Node \ {b} : ifa'[a] = ifa[a]) /\ ifa'[b].from = ifa[b].from
    BY <1>1, <2>2 DEF TypeOK
  <2>3. \A q, i : ifa[b] # None => /\ [ifa[b] EXCEPT !.phase = q].from = ifa[b].from
                                  /\ [ifa[b] EXCEPT !.phase = q, !.i = i].from = ifa[b].from
                                  /\ [ifa[b] EXCEPT !.i = i].from = ifa[b].from
    <3>1. ifa[b] # None =>
              ifa[b] \in [from : Node, req : ReplReq, i : Nat, phase : {"read", "write", "apply"}]
      BY <1>1, IfaFields DEF IfaState
    <3> QED
      BY <3>1
  <2>4. CASE RecoverRead(b) \/ RecoverFail(b) \/ RecoverWrite(b)
    <3>1. ifa[b] # None /\ \E v : ifa' = [ifa EXCEPT ![b] = v] /\ v.from = ifa[b].from
      <4>1. CASE RecoverRead(b)
        <5>1. ifa[b] # None /\ Handled(b, "write", last_index[b] + 1)
          BY <4>1 DEF RecoverRead
        <5> DEFINE v == IF ifa[b].i = ifa[b].req.last_index
                        THEN [ifa[b] EXCEPT !.phase = "write", !.i = last_index[b] + 1]
                        ELSE [ifa[b] EXCEPT !.i = ifa[b].i + 1]
        <5>2. ifa' = [ifa EXCEPT ![b] = v]
          BY <5>1 DEF Handled
        <5>3. v.from = ifa[b].from
          BY <2>3, <5>1
        <5> HIDE DEF v
        <5> QED
          BY <5>1, <5>2, <5>3
      <4>2. CASE RecoverFail(b)
        <5>1. ifa[b] # None /\ ifa' = [ifa EXCEPT ![b] = [ifa[b] EXCEPT !.phase = "apply"]]
          BY <1>1, <4>2 DEF RecoverFail, TypeOK
        <5> QED
          BY <2>3, <5>1
      <4>3. CASE RecoverWrite(b)
        <5>1. ifa[b] # None /\ Handled(b, "apply", ifa[b].i)
          BY <1>1, <4>3 DEF RecoverWrite
        <5> DEFINE v == IF ifa[b].i = ifa[b].req.last_index
                        THEN [ifa[b] EXCEPT !.phase = "apply", !.i = ifa[b].i]
                        ELSE [ifa[b] EXCEPT !.i = ifa[b].i + 1]
        <5>2. ifa' = [ifa EXCEPT ![b] = v]
          BY <5>1 DEF Handled
        <5>3. v.from = ifa[b].from
          BY <2>3, <5>1
        <5> HIDE DEF v
        <5> QED
          BY <5>1, <5>2, <5>3
      <4> QED
        BY <2>4, <4>1, <4>2, <4>3
    <3> QED
      BY <2>2, <3>1
  <2>6. CASE IfaApply(b)
    <3>1. ifa' = [ifa EXCEPT ![b] = None]
      BY <2>6 DEF IfaApply
    <3> QED
      BY <1>1, <3>1 DEF TypeOK
  <2> QED
    BY <2>1, <2>4, <2>6
<1>4. \A p, a \in Node : wire'[p][a] # <<>> => wire[p][a] # <<>>
  <2>1. \/ wire' = wire
        \/ \E p \in Node : wire[p][b] # <<>> /\ wire' = [wire EXCEPT ![p][b] = Tail(@)]
    <3>1. CASE \E p \in Node : IfaRead(p, b)
      BY <3>1 DEF IfaRead
    <3>2. CASE RecoverRead(b)
      <4>1. ifa[b] # None
        BY <3>2 DEF RecoverRead
      <4>2. ifa[b].from \in Node
        BY <1>1, <4>1, IfaFields
      <4> QED
        BY <3>2, <4>2 DEF RecoverRead
    <3>3. CASE RecoverFail(b) \/ RecoverWrite(b) \/ IfaApply(b)
      BY <3>3 DEF RecoverFail, RecoverWrite, IfaApply, netVars
    <3> QED
      BY <3>1, <3>2, <3>3
  <2>2. ASSUME NEW q \in Node, wire[q][b] # <<>>, wire' = [wire EXCEPT ![q][b] = Tail(@)]
        PROVE  \A p, a \in Node : wire'[p][a] # <<>> => wire[p][a] # <<>>
    BY <1>1, <2>2 DEF TypeOK
  <2> QED
    BY <2>1, <2>2
<1>5. \A p, a \in Node : socket[p][a] # "open" => reply'[p][a] = reply[p][a]
  <2>1. \A p \in Node : \A ack : Reply(p, b, ack) =>
            \A q, a \in Node : socket[q][a] # "open" => reply'[q][a] = reply[q][a]
    BY <1>1 DEF Reply, TypeOK
  <2>2. ifa[b] # None => ifa[b].from \in Node
    BY <1>1, IfaFields
  <2>3. CASE \E p \in Node : IfaRead(p, b)
    BY <2>1, <2>3 DEF IfaRead
  <2>4. CASE RecoverRead(b) \/ RecoverFail(b) \/ RecoverWrite(b)
    BY <2>4 DEF RecoverRead, RecoverFail, RecoverWrite, netVars
  <2>5. CASE IfaApply(b)
    BY <2>1, <2>2, <2>5 DEF IfaApply
  <2> QED
    BY <2>3, <2>4, <2>5
<1>6. \A p \in Node : p # master_node_id \/ ~hb_conn[p] =>
          \A a \in Node : socket[p][a] = "closed"
  BY DEF RolesInv, OthersIdle
<1> QED
  BY <1>1, <1>2, <1>3, <1>4, <1>5, <1>6, RolesStay DEF RolesInv, WorkAhead, Active

\* A new master is chosen only when nothing of the old one goes on.
LEMMA ConnectRoles ==
    ASSUME RolesInv, BInv', NEW c \in Customer, Connect(c)
    PROVE  RolesInv'
<1>1. /\ TypeOK
      /\ UNCHANGED <<up, hb_conn, node_health, ifa, wire, socket, reply, admin,
                     admin_thread_list, recheck_allow>>
      /\ server' = [server EXCEPT ![c] = master_node_id']
      /\ engineer' = [engineer EXCEPT ![c] =
            IF node_health[master_node_id'] /\ up[master_node_id'] THEN "idle" ELSE "lost"]
      /\ node_health[master_node_id] => master_node_id' = master_node_id
      /\ master_node_id' \in Node
  BY NextMaster DEF RolesInv, BInv, Connect, InUse, netVars, threadVars
<1>2. Lives'
  BY <1>1 DEF RolesInv, Lives
<1>3. ActiveAtMaster'
  <2> SUFFICES ASSUME NEW d \in Customer, Active(d)'
               PROVE  server'[d] = master_node_id' /\ hb_conn[master_node_id']
    BY <1>1 DEF ActiveAtMaster
  <2>1. CASE d = c
    BY <1>1, <2>1 DEF Active, TypeOK, RolesInv, Lives
  <2>2. CASE d # c
    <3>1. Active(d) /\ server'[d] = server[d]
      BY <1>1, <2>2 DEF Active, TypeOK
    <3>2. server[d] = master_node_id /\ hb_conn[master_node_id] /\ node_health[master_node_id]
      BY <1>1, <3>1 DEF RolesInv, ActiveAtMaster, Lives, TypeOK
    <3> QED
      BY <1>1, <3>1, <3>2
  <2> QED
    BY <2>1, <2>2
<1>4. WorkAhead' /\ TodoDistinct'
  BY <1>1 DEF RolesInv, WorkAhead, TodoDistinct
<1>5. OnePrimary'
  BY <1>1 DEF RolesInv, OnePrimary
<1>6. OthersIdle'
  <2> SUFFICES ASSUME NEW p \in Node, p # master_node_id' \/ ~hb_conn[p]
               PROVE  /\ recheck_allow[p]
                      /\ \A b \in Node : socket[p][b] = "closed" /\ reply[p][b] = None
    BY <1>1 DEF OthersIdle
  <2>1. p # master_node_id \/ ~hb_conn[p]
    <3>1. CASE node_health[master_node_id]
      BY <1>1, <3>1
    <3>2. CASE ~node_health[master_node_id]
      BY <3>2 DEF RolesInv, Lives
    <3> QED
      BY <3>1, <3>2
  <2> QED
    BY <2>1 DEF RolesInv, OthersIdle
<1> QED
  BY <1>2, <1>3, <1>4, <1>5, <1>6 DEF RolesInv

\* A server is started again only after its death was noticed.
LEMMA RestartRoles ==
    ASSUME RolesInv, BInv', ~PromptRestart, NEW n \in Node, Restart(n)
    PROVE  RolesInv'
<1>1. /\ TypeOK
      /\ UNCHANGED <<hb_conn, node_health, master_node_id, ifa, wire, socket, reply, admin,
                     admin_thread_list, recheck_allow, engineer, server>>
      /\ ~node_health[n]
      /\ up' = up \/ up' = [up EXCEPT ![n] = TRUE]
  BY DEF RolesInv, BInv, Restart, clientVars, lbVars, netVars, threadVars
<1>2. Lives'
  BY <1>1 DEF RolesInv, Lives, TypeOK
<1>3. ActiveAtMaster' /\ WorkAhead' /\ TodoDistinct' /\ OnePrimary' /\ OthersIdle'
  BY <1>1 DEF RolesInv, ActiveAtMaster, Active, WorkAhead, TodoDistinct, OnePrimary, OthersIdle
<1> QED
  BY <1>2, <1>3 DEF RolesInv

LEMMA HeartBeatRoles ==
    ASSUME RolesInv, BInv', ~SlowReaders, NEW n \in Node, HeartBeat(n)
    PROVE  RolesInv'
<1>1. /\ TypeOK
      /\ UNCHANGED <<up, hb_conn, master_node_id, ifa, wire, socket, reply, admin,
                     admin_thread_list, recheck_allow, engineer, server>>
      /\ ~hb_conn[n] /\ node_health[n]
      /\ node_health' = [node_health EXCEPT ![n] = FALSE]
      /\ Drained(n) \/ up[n]
  BY DEF RolesInv, BInv, HeartBeat, clientVars, netVars, threadVars
<1>2. Lives'
  BY <1>1 DEF RolesInv, Lives, TypeOK
<1>3. ActiveAtMaster' /\ WorkAhead' /\ TodoDistinct' /\ OthersIdle'
  BY <1>1 DEF RolesInv, ActiveAtMaster, Active, WorkAhead, TodoDistinct, OthersIdle
<1>4. OnePrimary'
  <2>1. Drained(n)
    BY <1>1 DEF RolesInv, Lives
  <2> SUFFICES ASSUME NEW p \in Node, NEW b \in Node,
                      wire[p][b] # <<>> \/ (ifa[b] # None /\ ifa[b].from = p)
               PROVE  p = master_node_id /\ p # b /\ node_health'[p]
    BY <1>1 DEF OnePrimary
  <2>2. p = master_node_id /\ p # b /\ node_health[p]
    BY DEF RolesInv, OnePrimary
  <2>3. p # n
    BY <2>1 DEF Drained
  <2>4. node_health \in [Node -> BOOLEAN]
    BY <1>1 DEF TypeOK
  <2> QED
    BY <1>1, <2>2, <2>3, <2>4
<1> QED
  BY <1>2, <1>3, <1>4 DEF RolesInv

LEMMA InitRoles == Init => RolesInv
<1> SUFFICES ASSUME Init PROVE RolesInv
  OBVIOUS
<1>1. BInv
  BY InitBInv
<1>2. Lives /\ ActiveAtMaster /\ WorkAhead /\ OnePrimary /\ OthersIdle
  BY DEF Init, Lives, ActiveAtMaster, Active, WorkAhead, OnePrimary, OthersIdle, AdminWaits
<1>3. TodoDistinct
  BY DEF Init, TodoDistinct, AdminWaits, IsInjective, Range
<1> QED
  BY <1>1, <1>2, <1>3 DEF RolesInv

LEMMA NextRoles ==
    ASSUME RolesInv, [Next]_vars, ~PromptRestart, ~SlowReaders
    PROVE  RolesInv'
<1>1. BInv'
  BY NextBInv DEF RolesInv
<1>2. ASSUME NEW c \in Customer,
             Connect(c) \/ PlaceOrder(c) \/ Ship(c) \/ Hangup(c) \/ Finish(c)
      PROVE  RolesInv'
  BY <1>1, <1>2, ConnectRoles, SessionRoles
<1>3. ASSUME NEW n \in Node, CloseReader(n) \/ Crash(n) \/ Restart(n) \/ HeartBeat(n)
      PROVE  RolesInv'
  BY <1>1, <1>3, CloseReaderRoles, DieRoles, RestartRoles, HeartBeatRoles DEF Crash
<1>4. ASSUME NEW n \in Node, AdminThread(n) PROVE RolesInv'
  BY <1>1, <1>4, RecheckRoles, TakeRoles, SendingRoles, CommitRoles DEF AdminThread
<1>5. ASSUME NEW n \in Node, IfaThread(n) PROVE RolesInv'
  <2>1. CASE \E w : Die(n, w)
    BY <1>1, <2>1, DieRoles
  <2>2. CASE ~ \E w : Die(n, w)
    <3>1. ~ \E p \in Node : IfaStray(p, n)
      BY <2>2 DEF IfaStray
    <3> QED
      BY <1>1, <1>5, <2>2, <3>1, IfaRoles DEF IfaThread
  <2> QED
    BY <2>1, <2>2
<1>6. CASE UNCHANGED vars
  BY <1>1, <1>6 DEF vars, logVars, threadVars, netVars, clientVars, lbVars, RolesInv, Lives,
     ActiveAtMaster, Active, WorkAhead, OnePrimary, OthersIdle, TodoDistinct
<1> QED
  BY <1>2, <1>3, <1>4, <1>5, <1>6 DEF Next

-----------------------------------------------------------------------------
(***************************************************************************)
(* The logs of the servers that have never died.                           *)
(***************************************************************************)

\* The request in the hands of the master, and by how much it makes the log longer.
Hand == admin[master_node_id].job
Ahead(op) == IF op = CommitOnly THEN 0 ELSE 1

\* What the master has sent to b, and b has not read yet.
OnWire(b) == wire[master_node_id][b]

\* The request is with b, or its answer is on its way back.
Asked(b) == admin[master_node_id].pc = "ack" /\ Head(admin[master_node_id].todo) = b

\* b has not answered the request yet.
Behind(b) ==
    /\ hb_conn[b]
    /\ b \in Range(admin[master_node_id].todo)
    /\ reply[master_node_id][b] = None

\* After its recheck the master is connected to all others.
Connected ==
    \A b \in Node : hb_conn[b] =>
        /\ \A p \in Node : socket[p][b] # "broken"
        /\ /\ b # master_node_id
           /\ \/ ~recheck_allow[master_node_id]
              \/ admin[master_node_id].pc \in {"take", "send", "ack", "reack"}
           => socket[master_node_id][b] = "open"

\* The master has applied all orders but the one in its hands, which is the last
\* of its log.
InHand ==
    /\ \/ admin[master_node_id].pc = "take"
       \/ ~recheck_allow[master_node_id] /\ Hand = None
       => committed_index[master_node_id] = last_index[master_node_id]
    /\ Hand # None =>
          /\ committed_index[master_node_id] = last_index[master_node_id] - Ahead(Hand.op)
          /\ Hand.op # CommitOnly =>
                At(smr_log[master_node_id], last_index[master_node_id]) = Hand.op

\* A request goes on where the log of b ends.
Fits(b, req) ==
    /\ req.committed_index = last_index[b]
    /\ req.last_index = last_index[b] + Ahead(req.op)

\* The indexes of a server and its log, the request it handles and the one it is
\* going to read.  It never recovers: no request leaves a gap.
Tidy(b) ==
    /\ committed_index[b] \in {last_index[b] - 1, last_index[b]}
    /\ ifa[b] = None => Len(smr_log[b]) = last_index[b] + 1
    /\ ifa[b] # None => /\ ifa[b].phase = "apply"
                        /\ Fits(b, ifa[b].req)
                        /\ Len(smr_log[b]) = ifa[b].req.last_index + 1
                        /\ OnWire(b) = <<>>
    /\ OnWire(b) # <<>> => /\ Len(OnWire(b)) = 1
                           /\ OnWire(b)[1].kind = "req"
                           /\ Fits(b, OnWire(b)[1].req)

LogsTidy == \A b \in Node : hb_conn[b] => Tidy(b)

Replies ==
    \A b \in Node : hb_conn[b] /\ reply[master_node_id][b] # None =>
        reply[master_node_id][b].is_success = 1 /\ Asked(b)

\* Who has not answered yet lacks the order in the master's hands, or has just
\* inserted it, and nothing else.
Lagging ==
    \A b \in Node : Behind(b) =>
        /\ last_index[b] = last_index[master_node_id] - Ahead(Hand.op)
        /\ ifa[b] = None => smr_log[b] = SubSeq(smr_log[master_node_id], 1, last_index[b] + 1)
        /\ ifa[b] # None => smr_log[b] = smr_log[master_node_id] /\ ifa[b].req.op = Hand.op
        /\ OnWire(b) # <<>> => OnWire(b)[1].req.op = Hand.op
        /\ ifa[b] # None \/ OnWire(b) # <<>> => Asked(b)

\* All others have the same log.
InStep ==
    \A a, b \in Node : hb_conn[a] /\ hb_conn[b] /\ a # b /\ ~Behind(a) /\ ~Behind(b) =>
        /\ ifa[a] = None /\ OnWire(a) = <<>>
        /\ smr_log[a] = smr_log[b]

Lockstep == Connected /\ InHand /\ LogsTidy /\ Replies /\ Lagging /\ InStep

LockInv == RolesInv /\ Lockstep

\* Nobody is behind unless the living master has a request in its hands.
LEMMA BehindCases ==
    ASSUME RolesInv, NEW b \in Node, Behind(b)
    PROVE  /\ b # master_node_id /\ hb_conn[master_node_id] /\ Hand \in Request /\ Hand # None
           /\ admin[master_node_id].pc \in {"send", "ack", "reack"}
           /\ ifa[master_node_id] = None
           /\ \A p \in Node : wire[p][master_node_id] = <<>>
<1>1. TypeOK /\ master_node_id \in Node
  BY DEF RolesInv, BInv, TypeOK
<1>2. b # master_node_id
  BY <1>1 DEF RolesInv, TodoDistinct, Behind
<1>3. admin[master_node_id].todo # <<>>
  BY DEF Behind, Range
<1>4. admin[master_node_id] \in AdminState
  BY <1>1 DEF TypeOK
<1>5. admin[master_node_id].pc \in {"send", "ack", "reack"}
  BY <1>3, <1>4, AdminStateCases
<1>6. Hand \in Request /\ Hand # None
  BY <1>4, <1>5, AdminStateCases, NoneIsNoRequest DEF Hand
<1> QED
  BY <1>1, <1>2, <1>5, <1>6, OnlyMasterWorks

\* What the master is to itself.
LEMMA MasterCases ==
    ASSUME RolesInv
    PROVE  /\ master_node_id \in Node
           /\ ~Behind(master_node_id)
           /\ ifa[master_node_id] = None
           /\ OnWire(master_node_id) = <<>>
           /\ ~hb_conn[master_node_id] => /\ \A b \in Node : ~Behind(b)
                                          /\ Hand = None
                                          /\ admin[master_node_id] = AdminWaits
                                          /\ admin_thread_list[master_node_id] = <<>>
<1>1. TypeOK /\ master_node_id \in Node
  BY DEF RolesInv, BInv, TypeOK
<1>2. ~Behind(master_node_id)
  BY <1>1, BehindCases
<1>3. ifa[master_node_id] = None
  BY <1>1, IfaFields DEF RolesInv, OnePrimary
<1>4. OnWire(master_node_id) = <<>>
  BY <1>1 DEF RolesInv, OnePrimary, OnWire
<1>5. ASSUME ~hb_conn[master_node_id]
      PROVE  /\ \A b \in Node : ~Behind(b)
             /\ Hand = None /\ admin[master_node_id] = AdminWaits
             /\ admin_thread_list[master_node_id] = <<>>
  <2>1. admin[master_node_id].pc = "wait" /\ admin[master_node_id] \in AdminState
        /\ admin_thread_list[master_node_id] = <<>>
    BY <1>1, <1>5, OnlyMasterWorks DEF TypeOK
  <2>2. admin[master_node_id] = AdminWaits
    BY <2>1, AdminStateCases DEF AdminWaits
  <2> QED
    BY <1>5, <2>1, <2>2, BehindCases DEF AdminWaits, Hand
<1> QED
  BY <1>1, <1>2, <1>3, <1>4, <1>5

\* A step that changes nothing of the logs, and of what travels between the
\* servers that have never died at most takes an answer off.
LEMMA LockstepStays ==
    ASSUME LockInv, RolesInv', master_node_id' = master_node_id,
           Hand' = Hand,
           /\ admin'[master_node_id].pc = "take" => admin[master_node_id].pc = "take"
           /\ admin'[master_node_id].pc \in {"take", "send", "ack", "reack"} =>
                 admin[master_node_id].pc \in {"take", "send", "ack", "reack"},
           recheck_allow[master_node_id] => recheck_allow'[master_node_id],
           hb_conn[master_node_id] => hb_conn'[master_node_id],
           \A b \in Node : hb_conn'[b] =>
               /\ hb_conn[b]
               /\ last_index'[b] = last_index[b] /\ committed_index'[b] = committed_index[b]
               /\ smr_log'[b] = smr_log[b]
               /\ ifa'[b] = ifa[b] /\ OnWire(b)' = OnWire(b)
               /\ reply'[master_node_id][b] \in {None, reply[master_node_id][b]}
               /\ Behind(b)' <=> Behind(b)
               /\ Asked(b) /\ (reply'[master_node_id][b] # None \/ Behind(b)) => Asked(b)'
               /\ \A p \in Node : socket[p][b] # "broken" => socket'[p][b] # "broken"
               /\ socket[master_node_id][b] = "open" => socket'[master_node_id][b] = "open"
    PROVE  LockInv'
<1>1. Connected'
  BY DEF LockInv, Lockstep, Connected
<1>2. InHand'
  <2>1. master_node_id \in Node
    BY MasterCases DEF LockInv
  <2>2. CASE hb_conn[master_node_id]
    <3>1. /\ committed_index'[master_node_id] = committed_index[master_node_id]
          /\ last_index'[master_node_id] = last_index[master_node_id]
          /\ smr_log'[master_node_id] = smr_log[master_node_id]
      BY <2>1, <2>2
    <3> QED
      BY <3>1 DEF LockInv, Lockstep, InHand, At
  <2>3. CASE ~hb_conn[master_node_id]
    <3>1. Hand = None /\ admin[master_node_id].pc = "wait" /\ recheck_allow[master_node_id]
      BY <2>1, <2>3, MasterCases DEF LockInv, AdminWaits, RolesInv, OthersIdle
    <3> QED
      BY <3>1 DEF InHand
  <2> QED
    BY <2>2, <2>3
<1>3. LogsTidy'
  BY DEF LockInv, Lockstep, LogsTidy, Tidy, Fits
<1>4. Replies'
  BY DEF LockInv, Lockstep, Replies
<1>5. Lagging'
  <2> SUFFICES ASSUME NEW b \in Node, Behind(b)'
               PROVE  /\ last_index'[b] = last_index'[master_node_id] - Ahead(Hand.op)
                      /\ ifa'[b] = None =>
                            smr_log'[b] = SubSeq(smr_log'[master_node_id], 1, last_index'[b] + 1)
                      /\ ifa'[b] # None =>
                            smr_log'[b] = smr_log'[master_node_id] /\ ifa'[b].req.op = Hand.op
                      /\ OnWire(b)' # <<>> => OnWire(b)'[1].req.op = Hand.op
                      /\ ifa'[b] # None \/ OnWire(b)' # <<>> => Asked(b)'
    BY DEF Lagging
  <2>1. hb_conn'[b] /\ Behind(b)
    BY DEF Behind
  <2>2. master_node_id \in Node /\ hb_conn[master_node_id]
    BY <2>1, MasterCases, BehindCases DEF LockInv
  <2> QED
    BY <2>1, <2>2 DEF LockInv, Lockstep, Lagging
<1>6. InStep'
  BY DEF LockInv, Lockstep, InStep
<1> QED
  BY <1>1, <1>2, <1>3, <1>4, <1>5, <1>6 DEF LockInv, Lockstep

\* A restart is nothing to the logs of others.
LEMMA RestartFrame ==
    ASSUME TypeOK, NEW n \in Node, Restart(n), NEW b \in Node \ {n}
    PROVE  /\ last_index'[b] = last_index[b] /\ committed_index'[b] = committed_index[b]
           /\ smr_log'[b] = smr_log[b] /\ customer_record'[b] = customer_record[b]
           /\ wal'[b] = wal[b]
<1>1. wal' = wal
  BY DEF Restart
<1>2. CASE UNCHANGED <<smr_log, last_index, committed_index, customer_record>>
  BY <1>1, <1>2
<1>3. CASE ~ UNCHANGED <<smr_log, last_index, committed_index, customer_record>>
  <2> DEFINE log == Recovered(wal[n])
             last == ReplayIndex(Len(log), RemoteCommitted(n))
             record == Replay(log, last)
  <2>1. /\ smr_log' = [smr_log EXCEPT ![n] = log]
        /\ last_index' = [last_index EXCEPT ![n] = last]
        /\ committed_index' = [committed_index EXCEPT ![n] = last]
        /\ customer_record' = [customer_record EXCEPT ![n] = record]
    BY <1>3 DEF Restart
  <2>2. DOMAIN smr_log = Node /\ DOMAIN last_index = Node
        /\ DOMAIN committed_index = Node /\ DOMAIN customer_record = Node
    BY DEF TypeOK
  <2> HIDE DEF log, last, record
  <2> QED
    BY <1>1, <2>1, <2>2
<1> QED
  BY <1>2, <1>3

\* Steps of sessions, of the heartbeat and restarts.
LEMMA QuietLockstep ==
    ASSUME LockInv, RolesInv',
           \/ \E c \in Customer : PlaceOrder(c) \/ Ship(c) \/ Hangup(c) \/ Finish(c)
           \/ \E n \in Node : CloseReader(n) \/ Restart(n) \/ HeartBeat(n)
    PROVE  LockInv'
<1>1. /\ TypeOK
      /\ UNCHANGED <<master_node_id, hb_conn, ifa, wire, socket, reply, admin>>
  BY DEF LockInv, RolesInv, BInv, PlaceOrder, Ship, Hangup, Finish, Enqueue, CloseReader,
         CloseSession, Restart, HeartBeat, lbVars, netVars, threadVars, logVars
<1>2. \A b \in Node : hb_conn[b] =>
          /\ last_index'[b] = last_index[b] /\ committed_index'[b] = committed_index[b]
          /\ smr_log'[b] = smr_log[b]
  <2>1. CASE UNCHANGED <<last_index, committed_index, smr_log>>
    BY <2>1
  <2>2. ASSUME NEW n \in Node, Restart(n)
        PROVE  \A b \in Node : hb_conn[b] =>
                  /\ last_index'[b] = last_index[b] /\ committed_index'[b] = committed_index[b]
                  /\ smr_log'[b] = smr_log[b]
    <3>1. ~hb_conn[n]
      BY <2>2 DEF Restart, LockInv, RolesInv, Lives
    <3> QED
      BY <1>1, <2>2, <3>1, RestartFrame
  <2> QED
    BY <2>1, <2>2 DEF PlaceOrder, Ship, Hangup, Finish, CloseReader, HeartBeat, logVars
<1>3. recheck_allow[master_node_id] => recheck_allow'[master_node_id]
  BY <1>1 DEF PlaceOrder, Ship, Hangup, Finish, Enqueue, CloseReader,
         CloseSession, Restart, HeartBeat, threadVars, TypeOK
<1>4. /\ Hand' = Hand
      /\ \A b \in Node : /\ OnWire(b)' = OnWire(b) /\ Behind(b)' = Behind(b)
                         /\ Asked(b)' = Asked(b)
  BY <1>1 DEF Hand, OnWire, Behind, Asked
<1> QED
  BY <1>1, <1>2, <1>3, <1>4, LockstepStays

\* A server dies that is not the living master.
LEMMA DieLockstep ==
    ASSUME LockInv, RolesInv', NEW n \in Node, NEW w, Die(n, w),
           n # master_node_id \/ ~hb_conn[n], up[n] \/ n # master_node_id
    PROVE  LockInv'
<1>1. /\ TypeOK /\ master_node_id' = master_node_id
      /\ hb_conn' = [hb_conn EXCEPT ![n] = FALSE]
      /\ recheck_allow' = [recheck_allow EXCEPT ![n] = TRUE]
      /\ last_index' = [last_index EXCEPT ![n] = -1]
      /\ committed_index' = [committed_index EXCEPT ![n] = -1]
      /\ smr_log' = [smr_log EXCEPT ![n] = <<>>]
      /\ admin' = [admin EXCEPT ![n] = AdminWaits]
      /\ ifa' = [ifa EXCEPT ![n] = None]
  BY DEF LockInv, RolesInv, BInv, Die
<1>2. ~hb_conn'[n] /\ \A b \in Node \ {n} :
          /\ hb_conn'[b] = hb_conn[b] /\ ifa'[b] = ifa[b]
          /\ last_index'[b] = last_index[b] /\ committed_index'[b] = committed_index[b]
          /\ smr_log'[b] = smr_log[b]
  BY <1>1 DEF TypeOK
<1>3. admin'[master_node_id] = admin[master_node_id]
  BY <1>1, MasterCases DEF TypeOK, LockInv
<1>4. recheck_allow[master_node_id] => recheck_allow'[master_node_id]
  BY <1>1 DEF TypeOK
<1>5. \A b \in Node \ {n} : OnWire(b)' = OnWire(b)
  <2> SUFFICES ASSUME NEW b \in Node \ {n} PROVE wire'[master_node_id][b] = wire[master_node_id][b]
    BY <1>1 DEF OnWire
  <2>1. PICK to \in Node : \E k \in 0 .. Len(wire[n][to]) :
          wire' = [q \in Node |-> [a \in Node |->
                    IF a = n THEN <<>>
                    ELSE IF q = n /\ a = to THEN SubSeq(wire[n][to], 1, k)
                    ELSE wire[q][a]]]
    BY DEF Die
  <2>2. PICK k \in 0 .. Len(wire[n][to]) :
          wire' = [q \in Node |-> [a \in Node |->
                    IF a = n THEN <<>>
                    ELSE IF q = n /\ a = to THEN SubSeq(wire[n][to], 1, k)
                    ELSE wire[q][a]]]
    BY <2>1
  <2>3. CASE n # master_node_id
    BY <1>1, <2>2, <2>3 DEF TypeOK
  <2>4. CASE n = master_node_id
    <3>1. ~node_health[n]
      BY <2>4 DEF LockInv, RolesInv, Lives
    <3>2. \A a \in Node : wire[n][a] = <<>>
      BY <3>1 DEF LockInv, RolesInv, OnePrimary
    <3>3. k = 0 /\ SubSeq(<<>>, 1, 0) = <<>>
      BY <2>2, <3>2
    <3> QED
      BY <2>2, <2>4, <3>2, <3>3
  <2> QED
    BY <2>3, <2>4
<1>6. \A b \in Node \ {n} :
          /\ reply'[master_node_id][b] = reply[master_node_id][b]
          /\ \A p \in Node : /\ socket[p][b] # "broken" => socket'[p][b] # "broken"
                             /\ p # n => socket'[p][b] = socket[p][b]
  <2>1. \A b \in Node \ {n}, p \in Node :
            socket'[p][b] = IF p = n THEN "closed" ELSE socket[p][b]
    BY DEF Die
  <2>2. \A b \in Node \ {n} : n # master_node_id =>
            reply'[master_node_id][b] = reply[master_node_id][b]
    BY <1>1 DEF Die, TypeOK
  <2>3. \A b \in Node \ {n} : n = master_node_id =>
            reply'[n][b] = None /\ reply[n][b] = None
    BY DEF Die, LockInv, RolesInv, OthersIdle
  <2> QED
    BY <2>1, <2>2, <2>3
<1>7. \A b \in Node \ {n} : socket[master_node_id][b] = "open" => socket'[master_node_id][b] = "open"
  BY <1>1, <1>6 DEF LockInv, RolesInv, OthersIdle, TypeOK
<1>8. /\ Hand' = Hand
      /\ \A b \in Node \ {n} : Behind(b)' = Behind(b) /\ Asked(b)' = Asked(b)
  BY <1>1, <1>2, <1>3, <1>6 DEF Hand, Behind, Asked
<1> QED
  BY <1>1, <1>2, <1>3, <1>4, <1>5, <1>6, <1>7, <1>8, LockstepStays

\* The master dies with no request on its way, or its only peer may be left with
\* one that it has not handled.
LEMMA MasterDiesLockstep ==
    ASSUME LockInv, RolesInv', NEW w, Die(master_node_id, w), hb_conn[master_node_id],
           \/ ~Broadcasting(master_node_id)
           \/ \A a, b, c \in Node : a = b \/ b = c \/ a = c
    PROVE  LockInv'
<1> DEFINE n == master_node_id
<1>1. /\ TypeOK /\ n' = n /\ n \in Node
      /\ hb_conn' = [hb_conn EXCEPT ![n] = FALSE]
      /\ recheck_allow' = [recheck_allow EXCEPT ![n] = TRUE]
      /\ last_index' = [last_index EXCEPT ![n] = -1]
      /\ committed_index' = [committed_index EXCEPT ![n] = -1]
      /\ smr_log' = [smr_log EXCEPT ![n] = <<>>]
      /\ admin' = [admin EXCEPT ![n] = AdminWaits]
      /\ ifa' = [ifa EXCEPT ![n] = None]
  BY DEF LockInv, RolesInv, BInv, Die, TypeOK
<1>2. ~hb_conn'[n] /\ admin'[n] = AdminWaits /\ recheck_allow'[n]
      /\ \A b \in Node \ {n} :
          /\ hb_conn'[b] = hb_conn[b] /\ ifa'[b] = ifa[b]
          /\ last_index'[b] = last_index[b] /\ committed_index'[b] = committed_index[b]
          /\ smr_log'[b] = smr_log[b]
  BY <1>1 DEF TypeOK
<1>3. Hand' = None /\ \A b \in Node : ~Behind(b)'
  BY <1>1, <1>2 DEF Hand, Behind, AdminWaits, Range
<1>4. Connected'
  <2>1. \A b \in Node \ {n}, p \in Node : socket[p][b] # "broken" => socket'[p][b] # "broken"
    BY DEF Die
  <2> QED
    BY <1>1, <1>2, <2>1 DEF Connected, LockInv, Lockstep, AdminWaits
<1>5. InHand' /\ Lagging'
  BY <1>1, <1>2, <1>3 DEF InHand, Lagging, AdminWaits
<1>6. \A b \in Node \ {n} :
          hb_conn[b] /\ OnWire(b)' # <<>> => OnWire(b)' = OnWire(b)
  <2> SUFFICES ASSUME NEW b \in Node \ {n}, hb_conn[b], wire'[n][b] # <<>>
               PROVE  wire'[n][b] = wire[n][b]
    BY <1>1 DEF OnWire
  <2>1. PICK to \in Node : \E k \in 0 .. Len(wire[n][to]) :
          wire' = [q \in Node |-> [a \in Node |->
                    IF a = n THEN <<>>
                    ELSE IF q = n /\ a = to THEN SubSeq(wire[n][to], 1, k)
                    ELSE wire[q][a]]]
    BY DEF Die
  <2>2. PICK k \in 0 .. Len(wire[n][to]) :
          wire' = [q \in Node |-> [a \in Node |->
                    IF a = n THEN <<>>
                    ELSE IF q = n /\ a = to THEN SubSeq(wire[n][to], 1, k)
                    ELSE wire[q][a]]]
    BY <2>1
  <2>3. CASE b # to
    BY <1>1, <2>2, <2>3
  <2>4. CASE b = to
    <3>1. wire'[n][b] = SubSeq(wire[n][b], 1, k)
      BY <1>1, <2>2, <2>4
    <3>2. wire[n][b] \in Seq(Message) /\ Len(wire[n][b]) \in {0, 1}
      <4>1. wire[n][b] \in Seq(Message)
        BY <1>1 DEF TypeOK
      <4>2. wire[n][b] # <<>> => Len(wire[n][b]) = 1
        BY DEF LockInv, Lockstep, LogsTidy, Tidy, OnWire
      <4> QED
        BY <4>1, <4>2, EmptySeq
    <3>3. CASE k = 0
      BY <2>4, <3>1, <3>2, <3>3
    <3>4. CASE k = 1
      <4>1. Len(wire[n][b]) = 1
        BY <2>2, <2>4, <3>2, <3>4
      <4>2. SubSeq(wire[n][b], 1, Len(wire[n][b])) = wire[n][b]
        BY <3>2, SubSeqFull
      <4> QED
        BY <3>1, <3>4, <4>1, <4>2
    <3>5. k \in {0, 1}
      <4>1. k \in 0 .. Len(wire[n][b])
        BY <2>4
      <4>2. PICK l : l = Len(wire[n][b])
        OBVIOUS
      <4>3. l \in {0, 1} /\ k \in 0 .. l
        BY <3>2, <4>1, <4>2
      <4> QED
        BY <4>3
    <3> QED
      BY <3>3, <3>4, <3>5
  <2> QED
    BY <2>3, <2>4
<1>7. LogsTidy'
  <2> SUFFICES ASSUME NEW b \in Node, hb_conn'[b] PROVE Tidy(b)'
    BY DEF LogsTidy
  <2>1. b # n /\ hb_conn[b] /\ Tidy(b)
    BY <1>2 DEF LockInv, Lockstep, LogsTidy
  <2>2. OnWire(b)' = <<>> \/ OnWire(b)' = OnWire(b)
    BY <1>6, <2>1
  <2> QED
    BY <1>2, <2>1, <2>2 DEF Tidy, Fits
<1>8. Replies'
  <2>1. \A b \in Node : reply'[n][b] = None
    BY <1>1 DEF Die
  <2> QED
    BY <1>1, <2>1 DEF Replies
<1>9. InStep'
  <2> SUFFICES ASSUME NEW a \in Node, NEW b \in Node, hb_conn'[a], hb_conn'[b], a # b
               PROVE  ifa'[a] = None /\ OnWire(a)' = <<>> /\ smr_log'[a] = smr_log'[b]
    BY DEF InStep
  <2>1. a # n /\ b # n /\ hb_conn[a] /\ hb_conn[b]
    BY <1>2
  <2>2. ~Broadcasting(n)
    BY <1>1, <2>1
  <2>3. admin[n].todo = <<>>
    <3>1. admin[n] \in AdminState
      BY <1>1 DEF TypeOK
    <3> QED
      BY <2>2, <3>1, AdminStateCases DEF Broadcasting
  <2>4. ~Behind(a) /\ ~Behind(b)
    BY <2>3 DEF Behind, Range
  <2>5. ifa[a] = None /\ OnWire(a) = <<>> /\ smr_log[a] = smr_log[b]
    BY <2>1, <2>4 DEF LockInv, Lockstep, InStep
  <2> QED
    BY <1>2, <1>6, <2>1, <2>5
<1> QED
  BY <1>4, <1>5, <1>7, <1>8, <1>9 DEF LockInv, Lockstep

LEMMA ConnectLockstep ==
    ASSUME LockInv, RolesInv', NEW c \in Customer, Connect(c)
    PROVE  LockInv'
<1>1. /\ TypeOK
      /\ UNCHANGED <<hb_conn, ifa, wire, socket, reply, admin, recheck_allow, smr_log,
                     last_index, committed_index, node_health>>
      /\ node_health[master_node_id] => master_node_id' = master_node_id
      /\ master_node_id' \in Node
  BY NextMaster DEF LockInv, RolesInv, BInv, Connect, netVars, threadVars, logVars
<1>2. CASE master_node_id' = master_node_id
  BY <1>1, <1>2, LockstepStays DEF Hand, Behind, Asked, OnWire
<1>3. CASE master_node_id' # master_node_id
  <2>1. ~node_health[master_node_id] /\ ~hb_conn[master_node_id]
    BY <1>1, <1>3, MasterCases DEF LockInv, RolesInv, Lives
  <2>2. /\ \A b \in Node : wire[master_node_id'][b] = <<>> /\ ifa[b] = None
        /\ recheck_allow[master_node_id']
        /\ \A b \in Node : reply[master_node_id'][b] = None
    <3>1. \A p, b \in Node : wire[p][b] = <<>>
      BY <2>1 DEF LockInv, RolesInv, OnePrimary
    <3>2. \A b \in Node : ifa[b] = None
      BY <1>1, <2>1, IfaFields DEF LockInv, RolesInv, OnePrimary
    <3> QED
      BY <1>1, <1>3, <3>1, <3>2 DEF LockInv, RolesInv, OthersIdle
  <2>3. admin[master_node_id'] = AdminWaits
    <3>1. admin[master_node_id'].pc = "wait" /\ admin[master_node_id'] \in AdminState
      BY <1>1, <1>3, OnlyMasterWorks DEF LockInv, TypeOK
    <3> QED
      BY <3>1, AdminStateCases DEF AdminWaits
  <2>4. /\ Hand' = None /\ \A b \in Node : ~Behind(b)' /\ OnWire(b)' = <<>>
    BY <1>1, <2>2, <2>3 DEF Hand, Behind, AdminWaits, Range, OnWire
  <2>5. Connected' /\ InHand' /\ Replies' /\ Lagging'
    BY <1>1, <2>2, <2>3, <2>4 DEF LockInv, Lockstep, Connected, InHand, Replies, Lagging, AdminWaits
  <2>6. LogsTidy'
    BY <1>1, <2>2, <2>4 DEF LockInv, Lockstep, LogsTidy, Tidy
  <2>7. InStep'
    <3>1. \A b \in Node : ~Behind(b)
      BY <2>1, MasterCases DEF LockInv
    <3> QED
      BY <1>1, <2>2, <2>4, <3>1 DEF LockInv, Lockstep, InStep
  <2> QED
    BY <2>5, <2>6, <2>7 DEF LockInv, Lockstep
<1> QED
  BY <1>2, <1>3

\* Insertion at the end of a log.
LEMMA InsertAtEnd ==
    ASSUME NEW log \in Seq(Entry), NEW e \in Entry, NEW i, i = Len(log)
    PROVE  Insert(log, i, e) = Append(log, e)
<1>1. Len(log) \in Nat
  BY LenProperties
<1>2. Insert(log, i, e) = SubSeq(log, 1, Len(log)) \o <<e>> \o SubSeq(log, Len(log) + 1, Len(log))
  BY <1>1 DEF Insert
<1>3. SubSeq(log, 1, Len(log)) = log
  BY SubSeqFull
<1>4. SubSeq(log, Len(log) + 1, Len(log)) = <<>>
  BY <1>1
<1>5. <<e>> \in Seq(Entry) /\ log \o <<e>> \in Seq(Entry)
  BY ConcatProperties
<1>6. (log \o <<e>>) \o <<>> = log \o <<e>>
  BY <1>5, ConcatEmptySeq
<1>7. log \o <<e>> = Append(log, e)
  BY AppendIsConcat
<1> QED
  BY <1>2, <1>3, <1>4, <1>6, <1>7

\* A log is what it was before its last entry, with that entry.
LEMMA FrontAndLast ==
    ASSUME NEW log \in Seq(Entry), NEW k \in Nat, Len(log) = k + 1
    PROVE  /\ SubSeq(log, 1, k) \in Seq(Entry) /\ Len(SubSeq(log, 1, k)) = k
           /\ \A i \in 1 .. k : SubSeq(log, 1, k)[i] = log[i]
           /\ Append(SubSeq(log, 1, k), log[k + 1]) = log
<1> DEFINE front == SubSeq(log, 1, k)
<1>1. /\ front \in Seq(Entry) /\ Len(front) = k
      /\ \A i \in 1 .. k : front[i] = log[i]
  <2>1. \A i \in 1 .. k : log[i] \in Entry
    <3>1. \A i \in 1 .. k : i \in 1 .. Len(log)
      OBVIOUS
    <3> QED
      BY <3>1, ElementOfSeq
  <2> QED
    BY <2>1, SubSeqProperties
<1>2. log[k + 1] \in Entry
  BY ElementOfSeq
<1> HIDE DEF front
<1>3. /\ Append(front, log[k + 1]) \in Seq(Entry)
      /\ Len(Append(front, log[k + 1])) = k + 1
      /\ \A i \in 1 .. k : Append(front, log[k + 1])[i] = front[i]
      /\ Append(front, log[k + 1])[k + 1] = log[k + 1]
  BY <1>1, <1>2, AppendProperties
<1>4. \A i \in 1 .. k + 1 : Append(front, log[k + 1])[i] = log[i]
  BY <1>1, <1>3
<1>5. Append(front, log[k + 1]) = log
  BY <1>3, <1>4, SeqEqual
<1> QED
  BY <1>1, <1>5 DEF front

\* Before it takes a request the master has applied all it has logged, and all
\* others have the same log.
LEMMA NobodyBehind ==
    ASSUME LockInv, Hand = None \/ admin[master_node_id].todo = <<>>, hb_conn[master_node_id]
    PROVE  \A b \in Node : ~Behind(b) /\ (hb_conn[b] =>
               /\ ifa[b] = None /\ OnWire(b) = <<>>
               /\ smr_log[b] = smr_log[master_node_id]
               /\ last_index[b] = last_index[master_node_id])
<1>1. \A b \in Node : ~Behind(b)
  BY BehindCases DEF LockInv, Behind, Range
<1>2. \A b \in Node : hb_conn[b] =>
          /\ ifa[b] = None /\ OnWire(b) = <<>> /\ smr_log[b] = smr_log[master_node_id]
  BY <1>1, MasterCases DEF LockInv, Lockstep, InStep
<1>3. \A b \in Node : last_index[b] \in Int
  BY DEF LockInv, RolesInv, BInv, TypeOK, Index
<1>4. \A b \in Node : hb_conn[b] => Len(smr_log[b]) = last_index[b] + 1
  BY <1>2 DEF LockInv, Lockstep, LogsTidy, Tidy
<1>5. \A b \in Node : hb_conn[b] => last_index[b] = last_index[master_node_id]
  BY <1>2, <1>3, <1>4, MasterCases DEF LockInv
<1> QED
  BY <1>1, <1>2, <1>5

LEMMA RecheckLockstep ==
    ASSUME LockInv, RolesInv', NEW n \in Node, AdminRecheck(n)
    PROVE  LockInv'
<1>1. TypeOK /\ admin_thread_list[n] # <<>> /\ n \in Node
  BY DEF LockInv, RolesInv, BInv, AdminRecheck, AdminAwake
<1>2. n = master_node_id /\ hb_conn[n] /\ up[n] /\ ifa[n] = None
  BY <1>1, OnlyMasterWorks DEF LockInv
<1>3. /\ Len(smr_log[n]) = last_index[n] + 1 /\ smr_log[n] \in Seq(Entry)
      /\ last_index[n] \in Index /\ committed_index[n] \in Index
      /\ committed_index[n] \in {last_index[n] - 1, last_index[n]}
  BY <1>1, <1>2 DEF LockInv, Lockstep, LogsTidy, Tidy, TypeOK
<1>4. ~(LastPending(n) /\ ~InRange(smr_log[n], last_index[n]))
  BY <1>3 DEF LastPending, InRange, Index
<1>5. /\ UNCHANGED <<hb_conn, master_node_id, ifa, wire, reply, smr_log, last_index, recheck_allow>>
      /\ admin' = [admin EXCEPT ![n].pc = "take"]
      /\ RecheckCommit(n) /\ RecheckReplSock(n)
  BY <1>4 DEF AdminRecheck, lbVars
<1>6. admin[n].job = None /\ admin[n].todo = <<>>
  <2>1. admin[n].pc \in {"next", "wait"} /\ admin[n] \in AdminState
    BY <1>1 DEF AdminRecheck, AdminAwake, MtxFree, TypeOK
  <2> QED
    BY <2>1, AdminStateCases
<1>7. /\ admin'[n] = [pc |-> "take", job |-> None, todo |-> <<>>]
  <2>1. admin' = [admin EXCEPT ![n] = [pc |-> "take", job |-> admin[n].job, todo |-> admin[n].todo]]
    BY <1>1, <1>5, AdminMoves
  <2> QED
    BY <1>1, <1>6, <2>1 DEF TypeOK
<1>8. /\ committed_index'[n] = last_index[n]
      /\ \A b \in Node \ {n} : committed_index'[b] = committed_index[b]
  <2>1. CASE LastPending(n)
    BY <1>1, <2>1, <1>5 DEF RecheckCommit, TypeOK
  <2>2. CASE ~LastPending(n)
    <3>1. committed_index' = committed_index
      BY <1>5, <2>2 DEF RecheckCommit
    <3> QED
      BY <1>3, <2>2, <3>1 DEF LastPending, Index
  <2> QED
    BY <2>1, <2>2
<1>9. \A b \in Node : ~Behind(b) /\ ~Behind(b)' /\ reply[n][b] = reply'[n][b]
  BY <1>2, <1>5, <1>6, <1>7, NobodyBehind DEF Hand, Behind, Range
<1>10. Connected'
  <2> SUFFICES ASSUME NEW b \in Node, hb_conn[b]
               PROVE  /\ \A p \in Node : socket'[p][b] # "broken"
                      /\ b # n => socket'[n][b] = "open"
    BY <1>2, <1>5 DEF Connected
  <2>1. \A p \in Node : socket[p][b] # "broken"
    BY DEF LockInv, Lockstep, Connected
  <2>2. up[b]
    BY DEF LockInv, RolesInv, Lives
  <2>3. b # n => b \in Range(Peers[n])
    BY MeshAssumption
  <2>4. socket'[n][b] = IF socket[n][b] = "closed" /\ up[b] /\ b \in Range(Peers[n])
                        THEN "open" ELSE socket[n][b]
    BY <1>1, <1>5 DEF RecheckReplSock, TypeOK
  <2>5. socket[n][b] \in {"closed", "open", "broken"}
    BY <1>1 DEF TypeOK
  <2>6. \A p \in Node \ {n} : socket'[p][b] = socket[p][b]
    BY <1>1, <1>5 DEF RecheckReplSock, TypeOK
  <2> QED
    BY <2>1, <2>2, <2>3, <2>4, <2>5, <2>6
<1>11. InHand'
  BY <1>2, <1>5, <1>7, <1>8 DEF InHand, Hand
<1>12. LogsTidy'
  <2> SUFFICES ASSUME NEW b \in Node, hb_conn[b] PROVE Tidy(b)'
    BY <1>5 DEF LogsTidy
  <2>1. Tidy(b)
    BY DEF LockInv, Lockstep, LogsTidy
  <2>2. committed_index'[b] \in {last_index[b] - 1, last_index[b]}
    BY <1>8, <2>1 DEF Tidy
  <2> QED
    BY <1>5, <2>1, <2>2 DEF Tidy, Fits, OnWire
<1>13. Replies'
  <2>1. \A b \in Node : hb_conn[b] => reply[n][b] = None
    BY <1>1, <1>2 DEF LockInv, Lockstep, Replies, Asked, AdminRecheck, AdminAwake, MtxFree
  <2> QED
    BY <1>2, <1>5, <2>1 DEF Replies
<1>14. Lagging' /\ InStep'
  BY <1>5, <1>9 DEF LockInv, Lockstep, Lagging, InStep, OnWire
<1> QED
  BY <1>10, <1>11, <1>12, <1>13, <1>14 DEF LockInv, Lockstep

\* What AdminTake does to the log and the thread of the master.
LEMMA TakeEffect ==
    ASSUME LockInv, NEW n \in Node, AdminTake(n)
    PROVE  LET op == Head(admin_thread_list[n]).op
           IN  /\ n = master_node_id /\ hb_conn[n] /\ admin_thread_list[n] # <<>>
               /\ Hand = None /\ committed_index[n] = last_index[n]
               /\ Head(admin_thread_list[n]) \in Request /\ op \in Order \cup {CommitOnly}
               /\ admin'[n] = [pc |-> "send", job |-> Head(admin_thread_list[n]), todo |-> Peers[n]]
               /\ last_index'[n] = last_index[n] + Ahead(op)
               /\ op = CommitOnly => smr_log'[n] = smr_log[n] /\ wal'[n] = wal[n]
               /\ op # CommitOnly => /\ op \in Order
                                     /\ smr_log'[n] = Append(smr_log[n], op)
                                     /\ wal'[n] = WriteLog(wal[n], op)
               /\ \A m \in Node \ {n} :
                     /\ admin'[m] = admin[m] /\ last_index'[m] = last_index[m]
                     /\ smr_log'[m] = smr_log[m] /\ wal'[m] = wal[m]
               /\ UNCHANGED <<hb_conn, master_node_id, ifa, wire, socket, reply, committed_index,
                              customer_record>>
<1> DEFINE op == Head(admin_thread_list[n]).op
<1>1. TypeOK /\ admin_thread_list[n] # <<>>
  BY DEF LockInv, RolesInv, BInv, AdminTake
<1>2. n = master_node_id /\ hb_conn[n] /\ ifa[n] = None
  BY <1>1, OnlyMasterWorks DEF LockInv
<1>3. Head(admin_thread_list[n]) \in Request
  BY <1>1, HeadTailProperties DEF TypeOK
<1>4. op \in Order \cup {CommitOnly} /\ CommitOnly \notin Order
  BY <1>3, OpAssumption DEF Request
<1>5. Hand = None
  <2>1. admin[n].pc \in {"take", "next", "wait"} /\ admin[n] \in AdminState
    BY <1>1 DEF AdminTake, AdminAwake, MtxFree, TypeOK
  <2> QED
    BY <1>2, <2>1, AdminStateCases DEF Hand
<1>6. committed_index[n] = last_index[n]
  BY <1>2, <1>5 DEF AdminTake, LockInv, Lockstep, InHand
<1>7. /\ Len(smr_log[n]) = last_index[n] + 1 /\ smr_log[n] \in Seq(Entry)
      /\ last_index[n] \in Int
  BY <1>1, <1>2 DEF LockInv, Lockstep, LogsTidy, Tidy, TypeOK, Index
<1>8. /\ admin' = [admin EXCEPT ![n] =
             [pc |-> "send", job |-> Head(admin_thread_list[n]), todo |-> Peers[n]]]
      /\ UNCHANGED <<hb_conn, master_node_id, ifa, wire, socket, reply, committed_index,
                     customer_record>>
  BY DEF AdminTake, netVars, lbVars
<1>9. CASE op = CommitOnly
  <2>1. UNCHANGED <<smr_log, last_index, wal>>
    BY <1>9 DEF AdminTake, IsAnnouncement
  <2> HIDE DEF op
  <2>2. last_index'[n] = last_index[n] + Ahead(op)
    BY <1>7, <1>9, <2>1 DEF Ahead
  <2> QED
    BY <1>1, <1>2, <1>3, <1>4, <1>5, <1>6, <1>8, <1>9, <2>1, <2>2 DEF TypeOK, op
<1>10. CASE op # CommitOnly
  <2>1. /\ last_index' = [last_index EXCEPT ![n] = last_index[n] + 1]
        /\ wal' = [wal EXCEPT ![n] = WriteLog(wal[n], op)]
        /\ smr_log' = [smr_log EXCEPT ![n] = Insert(smr_log[n], last_index[n] + 1, op)]
    BY <1>10 DEF AdminTake, IsAnnouncement
  <2>2. op \in Order /\ op \in Entry
    BY <1>4, <1>10 DEF Entry
  <2> HIDE DEF op
  <2>3. Insert(smr_log[n], last_index[n] + 1, op) = Append(smr_log[n], op)
    BY <1>7, <2>2, InsertAtEnd
  <2>4. last_index'[n] = last_index[n] + Ahead(op)
    BY <1>1, <1>10, <2>1 DEF Ahead, TypeOK
  <2>5. smr_log'[n] = Append(smr_log[n], op) /\ wal'[n] = WriteLog(wal[n], op)
    BY <1>1, <2>1, <2>3 DEF TypeOK
  <2>6. \A m \in Node \ {n} : last_index'[m] = last_index[m] /\ smr_log'[m] = smr_log[m]
                              /\ wal'[m] = wal[m]
    BY <1>1, <2>1 DEF TypeOK
  <2>7. /\ admin'[n] = [pc |-> "send", job |-> Head(admin_thread_list[n]), todo |-> Peers[n]]
        /\ \A m \in Node \ {n} : admin'[m] = admin[m]
    BY <1>1, <1>8 DEF TypeOK
  <2> QED
    BY <1>1, <1>2, <1>3, <1>4, <1>5, <1>6, <1>8, <1>10, <2>2, <2>4, <2>5, <2>6, <2>7 DEF op
<1> QED
  BY <1>9, <1>10

\* A request is taken: everybody else is behind.
LEMMA TakeLockstep ==
    ASSUME LockInv, RolesInv', NEW n \in Node, AdminTake(n)
    PROVE  LockInv'
<1> DEFINE job == Head(admin_thread_list[n])
<1>1. /\ TypeOK /\ n = master_node_id /\ hb_conn[n]
      /\ Hand = None /\ committed_index[n] = last_index[n]
      /\ admin'[n] = [pc |-> "send", job |-> job, todo |-> Peers[n]]
      /\ job \in Request /\ job.op \in Order \cup {CommitOnly}
      /\ last_index'[n] = last_index[n] + Ahead(job.op)
      /\ job.op = CommitOnly => smr_log'[n] = smr_log[n]
      /\ job.op # CommitOnly => job.op \in Order /\ smr_log'[n] = Append(smr_log[n], job.op)
      /\ \A m \in Node \ {n} :
            last_index'[m] = last_index[m] /\ smr_log'[m] = smr_log[m]
      /\ UNCHANGED <<hb_conn, master_node_id, ifa, wire, socket, reply, committed_index>>
  BY TakeEffect DEF LockInv, RolesInv, BInv
<1> HIDE DEF job
<1>2. Hand' = job /\ job # None
  BY <1>1, NoneIsNoRequest DEF Hand
<1>3. \A b \in Node : hb_conn[b] =>
          /\ ifa[b] = None /\ OnWire(b) = <<>> /\ reply[n][b] = None
          /\ smr_log[b] = smr_log[n] /\ last_index[b] = last_index[n]
          /\ Len(smr_log[b]) = last_index[b] + 1 /\ smr_log[b] \in Seq(Entry)
          /\ last_index[b] \in Index /\ committed_index[b] \in Index
          /\ committed_index[b] \in {last_index[b] - 1, last_index[b]}
  <2>1. admin[n].pc \in {"take", "next", "wait"}
    BY DEF AdminTake, AdminAwake, MtxFree
  <2>2. \A b \in Node : hb_conn[b] => reply[n][b] = None
    BY <1>1, <2>1 DEF LockInv, Lockstep, Replies, Asked
  <2>3. \A b \in Node : hb_conn[b] =>
          /\ ifa[b] = None /\ OnWire(b) = <<>>
          /\ smr_log[b] = smr_log[n] /\ last_index[b] = last_index[n]
    BY <1>1, NobodyBehind
  <2>4. \A b \in Node : hb_conn[b] => Tidy(b)
    BY DEF LockInv, Lockstep, LogsTidy
  <2>5. \A b \in Node : /\ smr_log[b] \in Seq(Entry)
                        /\ last_index[b] \in Index /\ committed_index[b] \in Index
    BY <1>1 DEF TypeOK
  <2> QED
    BY <2>2, <2>3, <2>4, <2>5 DEF Tidy
<1>4. /\ Ahead(job.op) \in {0, 1}
      /\ smr_log'[n] \in Seq(Entry)
      /\ Len(smr_log'[n]) = last_index'[n] + 1
      /\ SubSeq(smr_log'[n], 1, last_index[n] + 1) = smr_log[n]
      /\ job.op # CommitOnly => At(smr_log'[n], last_index'[n]) = job.op
  <2>1. smr_log[n] \in Seq(Entry) /\ Len(smr_log[n]) = last_index[n] + 1 /\ last_index[n] \in Index
    BY <1>1, <1>3
  <2>2. CASE job.op = CommitOnly
    <3>1. SubSeq(smr_log[n], 1, Len(smr_log[n])) = smr_log[n]
      BY <2>1, SubSeqFull
    <3> QED
      BY <1>1, <2>1, <2>2, <3>1 DEF Ahead, Index
  <2>3. CASE job.op # CommitOnly
    <3>1. job.op \in Entry
      BY <1>1, <2>3 DEF Entry
    <3>2. PICK s : s = smr_log'[n]
      OBVIOUS
    <3>3. /\ s \in Seq(Entry) /\ Len(s) = Len(smr_log[n]) + 1
          /\ \A i \in 1 .. Len(smr_log[n]) : s[i] = smr_log[n][i]
          /\ s[Len(smr_log[n]) + 1] = job.op
      <4>1. s = Append(smr_log[n], job.op)
        BY <1>1, <2>3, <3>2
      <4>2. PICK log : log = smr_log[n]
        OBVIOUS
      <4>3. PICK e : e = job.op
        OBVIOUS
      <4>4. log \in Seq(Entry) /\ e \in Entry /\ s = Append(log, e)
        BY <2>1, <3>1, <4>1, <4>2, <4>3
      <4>5. /\ s \in Seq(Entry) /\ Len(s) = Len(log) + 1
            /\ \A i \in 1 .. Len(log) : s[i] = log[i]
            /\ s[Len(log) + 1] = e
        BY <4>4, AppendProperties
      <4> QED
        BY <4>2, <4>3, <4>5
    <3>4. PICK k \in Nat : k = Len(smr_log[n])
      BY <2>1, LenProperties
    <3>5. /\ SubSeq(s, 1, k) \in Seq(Entry) /\ Len(SubSeq(s, 1, k)) = k
          /\ \A i \in 1 .. k : SubSeq(s, 1, k)[i] = s[i]
      BY <3>3, <3>4, FrontAndLast
    <3>6. SubSeq(s, 1, k) = smr_log[n]
      BY <2>1, <3>3, <3>4, <3>5, SeqEqual
    <3> QED
      BY <1>1, <2>1, <2>3, <3>2, <3>3, <3>4, <3>6 DEF Ahead, At, Index
  <2> QED
    BY <1>1, <2>2, <2>3
<1>5. \A b \in Node : hb_conn[b] /\ b # n => Behind(b)'
  <2>1. \A b \in Node : b # n => b \in Range(Peers[n])
    BY MeshAssumption
  <2> QED
    BY <1>1, <1>3, <2>1 DEF Behind
<1>6. Connected'
  <2>1. ~recheck_allow[n] \/ admin[n].pc = "take"
    BY DEF AdminTake
  <2> QED
    BY <1>1, <2>1 DEF Connected, LockInv, Lockstep
<1>7. InHand'
  <2>1. committed_index[n] = last_index'[n] - Ahead(job.op)
    BY <1>1, <1>3, <1>4 DEF Index
  <2> QED
    BY <1>1, <1>2, <1>4, <2>1 DEF InHand
<1>8. LogsTidy'
  <2> SUFFICES ASSUME NEW b \in Node, hb_conn[b] PROVE Tidy(b)'
    BY <1>1 DEF LogsTidy
  <2>1. CASE b = n
    <3>1. committed_index[n] \in {last_index'[n] - 1, last_index'[n]}
      BY <1>1, <1>3, <1>4 DEF Index
    <3> QED
      BY <1>1, <1>3, <1>4, <2>1, <3>1 DEF Tidy, OnWire
  <2>2. CASE b # n
    BY <1>1, <1>3, <2>2 DEF Tidy, OnWire
  <2> QED
    BY <2>1, <2>2
<1>9. Replies'
  BY <1>1, <1>3 DEF Replies
<1>10. Lagging'
  <2> SUFFICES ASSUME NEW b \in Node, Behind(b)'
               PROVE  /\ last_index'[b] = last_index'[n] - Ahead(job.op)
                      /\ ifa'[b] = None /\ OnWire(b)' = <<>>
                      /\ smr_log'[b] = SubSeq(smr_log'[n], 1, last_index'[b] + 1)
    BY <1>1, <1>2 DEF Lagging
  <2>1. b # n /\ hb_conn[b]
    BY <1>1, MeshAssumption DEF Behind
  <2>2. last_index'[b] = last_index[n] /\ smr_log'[b] = smr_log[n]
    BY <1>1, <1>3, <2>1
  <2>3. last_index[n] = last_index'[n] - Ahead(job.op)
    BY <1>1, <1>3, <1>4 DEF Index
  <2> QED
    BY <1>1, <1>3, <1>4, <2>1, <2>2, <2>3 DEF OnWire
<1>11. InStep'
  BY <1>1, <1>5 DEF InStep
<1> QED
  BY <1>6, <1>7, <1>8, <1>9, <1>10, <1>11 DEF LockInv, Lockstep

\* Where the master is in the round, and that it is connected to those who have
\* never died.
LEMMA InRound ==
    ASSUME LockInv, NEW n \in Node, admin[n].pc \in {"send", "ack", "reack"}
    PROVE  /\ n = master_node_id /\ hb_conn[n] /\ Hand \in Request /\ admin[n] \in AdminState
           /\ \A b \in Node : hb_conn[b] /\ b # n => socket[n][b] = "open"
           /\ admin[n].todo # <<>> =>
                 /\ Head(admin[n].todo) \in Node \ {n}
                 /\ Range(admin[n].todo) = {Head(admin[n].todo)} \cup Range(Tail(admin[n].todo))
                 /\ Head(admin[n].todo) \notin Range(Tail(admin[n].todo))
<1>1. TypeOK /\ admin[n] \in AdminState
  BY DEF LockInv, RolesInv, BInv, TypeOK
<1>2. n = master_node_id /\ hb_conn[n]
  BY OnlyMasterWorks DEF LockInv
<1>3. admin[n].job \in Request /\ admin[n].todo \in Seq(Node)
  BY <1>1, AdminStateCases
<1>4. \A b \in Node : hb_conn[b] /\ b # n => socket[n][b] = "open"
  BY <1>2 DEF LockInv, Lockstep, Connected
<1>5. n \notin Range(admin[n].todo) /\ IsInjective(admin[n].todo)
  BY DEF LockInv, RolesInv, TodoDistinct
<1>6. admin[n].todo # <<>> =>
         /\ Head(admin[n].todo) \in Node \ {n}
         /\ Range(admin[n].todo) = {Head(admin[n].todo)} \cup Range(Tail(admin[n].todo))
         /\ Head(admin[n].todo) \notin Range(Tail(admin[n].todo))
  BY <1>3, <1>5, RangeTail
<1> QED
  BY <1>1, <1>2, <1>3, <1>4, <1>6 DEF Hand

\* The master is done with one peer: it was dead, or has answered.
LEMMA PassLockstep ==
    ASSUME LockInv, RolesInv', NEW n \in Node, AdminSkip(n) \/ AdminPeerGone(n)
    PROVE  LockInv'
<1> DEFINE to == Head(admin[n].todo)
<1>1. /\ TypeOK /\ admin[n].pc \in {"send", "ack", "reack"} /\ admin[n].todo # <<>>
      /\ UNCHANGED <<hb_conn, master_node_id, ifa, wire, reply, recheck_allow, smr_log,
                     last_index, committed_index>>
      /\ socket[n][to] # "open"
      /\ NextPeer(n)
  BY DEF LockInv, RolesInv, BInv, AdminSkip, AdminPeerGone, PeerFailed, netVars, lbVars, logVars
<1>2. /\ n = master_node_id /\ to \in Node \ {n} /\ ~hb_conn[to]
      /\ Range(admin[n].todo) = {to} \cup Range(Tail(admin[n].todo))
  BY <1>1, InRound
<1>3. admin'[n] = [pc |-> "send", job |-> admin[n].job, todo |-> Tail(admin[n].todo)]
  <2>1. admin' = [admin EXCEPT ![n] =
                    [pc |-> "send", job |-> admin[n].job, todo |-> Tail(admin[n].todo)]]
    BY <1>1, AdminMoves
  <2> QED
    BY <1>1, <2>1 DEF TypeOK
<1>4. \A p \in Node, b \in Node \ {to} : socket'[p][b] = socket[p][b]
  <2>1. socket' = socket \/ \E s : socket' = [socket EXCEPT ![n][to] = s]
    BY DEF AdminSkip, AdminPeerGone, netVars
  <2>2. ASSUME NEW s, socket' = [socket EXCEPT ![n][to] = s]
        PROVE  \A p \in Node, b \in Node \ {to} : socket'[p][b] = socket[p][b]
    <3> HIDE DEF to
    <3> QED
      BY <1>1, <1>2, <2>2 DEF TypeOK
  <2> QED
    BY <2>1, <2>2
<1> HIDE DEF to
<1>5. Hand' = Hand
  BY <1>1, <1>2, <1>3 DEF Hand
<1>6. \A b \in Node : hb_conn[b] =>
          /\ b # to /\ (Behind(b)' <=> Behind(b)) /\ OnWire(b)' = OnWire(b) /\ ~Asked(b)
  BY <1>1, <1>2, <1>3 DEF Behind, OnWire, Asked, to
<1> QED
  BY <1>1, <1>2, <1>3, <1>4, <1>5, <1>6, LockstepStays

LEMMA AckLockstep ==
    ASSUME LockInv, RolesInv', NEW n \in Node, AdminAck(n)
    PROVE  LockInv'
<1> DEFINE from == Head(admin[n].todo)
<1>1. /\ TypeOK /\ admin[n].pc \in {"ack", "reack"} /\ admin[n] \in AdminState
      /\ UNCHANGED <<hb_conn, master_node_id, ifa, socket, recheck_allow, smr_log,
                     last_index, committed_index>>
      /\ reply[n][from] # None
      /\ reply' = [reply EXCEPT ![n][from] = None]
  BY DEF LockInv, RolesInv, BInv, AdminAck, lbVars, logVars, TypeOK
<1>2. admin[n].todo # <<>>
  BY <1>1, AdminStateCases
<1>3. /\ n = master_node_id /\ from \in Node \ {n}
      /\ Range(admin[n].todo) = {from} \cup Range(Tail(admin[n].todo))
      /\ from \notin Range(Tail(admin[n].todo))
  BY <1>1, <1>2, InRound
<1>4. /\ reply'[n][from] = None
      /\ \A b \in Node \ {from} : reply'[n][b] = reply[n][b]
  <2> HIDE DEF from
  <2> QED
    BY <1>1, <1>3 DEF TypeOK
<1>5. CASE reply[n][from].is_success = 1 /\ NextPeer(n) /\ UNCHANGED wire
  <2>1. admin'[n] = [pc |-> "send", job |-> admin[n].job, todo |-> Tail(admin[n].todo)]
    <3>1. admin' = [admin EXCEPT ![n] =
                      [pc |-> "send", job |-> admin[n].job, todo |-> Tail(admin[n].todo)]]
      BY <1>1, <1>5, AdminMoves
    <3> QED
      BY <1>1, <3>1 DEF TypeOK
  <2> HIDE DEF from
  <2>2. Hand' = Hand
    BY <1>1, <1>3, <2>1 DEF Hand
  <2>3. \A b \in Node : hb_conn[b] =>
            /\ (Behind(b)' <=> Behind(b)) /\ OnWire(b)' = OnWire(b)
            /\ Asked(b) => reply'[n][b] = None /\ ~Behind(b)
    BY <1>1, <1>3, <1>4, <1>5, <2>1 DEF Behind, OnWire, Asked, from
  <2> QED
    BY <1>1, <1>3, <1>4, <2>1, <2>2, <2>3, LockstepStays
<1>6. CASE /\ reply[n][from].is_success = 2
           /\ admin' = [admin EXCEPT ![n].pc = "reack"]
           /\ wire' = wire \/ \E s : wire' = [wire EXCEPT ![n][from] = s]
  <2>1. ~hb_conn[from]
    BY <1>1, <1>3, <1>6 DEF LockInv, Lockstep, Replies
  <2>2. admin'[n] = [pc |-> "reack", job |-> admin[n].job, todo |-> admin[n].todo]
    <3>1. admin' = [admin EXCEPT ![n].pc = "reack"]
      BY <1>6
    <3>2. admin' = [admin EXCEPT ![n] =
                      [pc |-> "reack", job |-> admin[n].job, todo |-> admin[n].todo]]
      BY <1>1, <3>1, AdminMoves
    <3> QED
      BY <1>1, <3>2 DEF TypeOK
  <2>3. \A b \in Node \ {from} : wire'[n][b] = wire[n][b]
    <3>1. \/ wire' = wire
          \/ \E s : wire' = [wire EXCEPT ![n][from] = s]
      BY <1>6
    <3>2. ASSUME NEW s, wire' = [wire EXCEPT ![n][from] = s]
          PROVE  \A b \in Node \ {from} : wire'[n][b] = wire[n][b]
      <4> HIDE DEF from
      <4> QED
        BY <1>1, <1>3, <3>2 DEF TypeOK
    <3> QED
      BY <3>1, <3>2
  <2> HIDE DEF from
  <2>4. Hand' = Hand
    BY <1>1, <1>3, <2>2 DEF Hand
  <2>5. \A b \in Node : hb_conn[b] =>
            /\ b # from /\ (Behind(b)' <=> Behind(b)) /\ OnWire(b)' = OnWire(b) /\ ~Asked(b)
    BY <1>1, <1>3, <1>4, <2>1, <2>2, <2>3 DEF Behind, OnWire, Asked, from
  <2> QED
    BY <1>1, <1>3, <1>4, <2>2, <2>4, <2>5, LockstepStays
<1> QED
  BY <1>5, <1>6 DEF AdminAck

LEMMA SendLockstep ==
    ASSUME LockInv, RolesInv', NEW n \in Node, AdminSend(n)
    PROVE  LockInv'
<1> PICK to : to = Head(admin[n].todo)
  OBVIOUS
<1> DEFINE msg == [kind |-> "req",
                   req  |-> [committed_index |-> committed_index[n],
                             last_index      |-> last_index[n],
                             op              |-> admin[n].job.op]]
<1>1. /\ TypeOK /\ admin[n].pc = "send" /\ admin[n].todo # <<>>
      /\ UNCHANGED <<hb_conn, master_node_id, ifa, reply, socket, recheck_allow, smr_log,
                     last_index, committed_index>>
      /\ wire' = [wire EXCEPT ![n][to] = Append(wire[n][to], msg)]
  BY DEF LockInv, RolesInv, BInv, AdminSend, lbVars, logVars
<1>2. n = master_node_id /\ to \in Node \ {n} /\ hb_conn[n] /\ Hand \in Request
  BY <1>1, InRound
<1>3. admin'[n] = [pc |-> "ack", job |-> admin[n].job, todo |-> admin[n].todo]
  <2>1. admin' = [admin EXCEPT ![n] =
                    [pc |-> "ack", job |-> admin[n].job, todo |-> admin[n].todo]]
    BY AdminMoves, <1>1
  <2> QED
    BY <1>1, <2>1 DEF TypeOK
<1>4. /\ msg.kind = "req" /\ msg.req.committed_index = committed_index[n]
      /\ msg.req.last_index = last_index[n] /\ msg.req.op = Hand.op
  BY <1>2 DEF Hand
<1>5. Hand' = Hand /\ \A b \in Node : ~Asked(b) /\ (Asked(b)' <=> b = to)
  BY <1>1, <1>2, <1>3 DEF Hand, Asked
<1> HIDE DEF msg
<1>6. /\ OnWire(to)' = Append(OnWire(to), msg)
      /\ \A b \in Node \ {to} : OnWire(b)' = OnWire(b)
  <2>1. \A s : [wire EXCEPT ![n][to] = s][n][to] = s
    BY <1>1, <1>2 DEF TypeOK
  <2>2. \A s : \A b \in Node \ {to} : [wire EXCEPT ![n][to] = s][n][b] = wire[n][b]
    BY <1>1, <1>2 DEF TypeOK
  <2>3. wire'[n][to] = Append(wire[n][to], msg) /\ \A b \in Node \ {to} : wire'[n][b] = wire[n][b]
    BY <1>1, <2>1, <2>2
  <2> QED
    BY <1>1, <1>2, <2>3 DEF OnWire
<1>7. \A b \in Node : Behind(b)' <=> Behind(b)
  BY <1>1, <1>2, <1>3 DEF Behind
<1>8. CASE ~hb_conn[to]
  <2>1. \A b \in Node : hb_conn[b] => b # to
    BY <1>8
  <2> QED
    BY <1>1, <1>2, <1>3, <1>5, <1>6, <1>7, <2>1, LockstepStays
<1>9. CASE hb_conn[to]
  <2>1. \A b \in Node : hb_conn[b] => reply[n][b] = None
    BY <1>2, <1>5 DEF LockInv, Lockstep, Replies
  <2>2. Behind(to)
    <3>1. to \in Range(admin[n].todo)
      BY <1>1, InRound
    <3> QED
      BY <1>2, <1>9, <2>1, <3>1 DEF Behind
  <2>3. \A b \in Node : Behind(b) => ifa[b] = None /\ OnWire(b) = <<>>
    BY <1>5 DEF LockInv, Lockstep, Lagging
  <2>4. Len(OnWire(to)') = 1 /\ OnWire(to)'[1] = msg
    <3>1. OnWire(to) = <<>>
      BY <1>2, <2>2, <2>3
    <3>2. PICK w : w = OnWire(to)'
      OBVIOUS
    <3>3. w = Append(<<>>, msg)
      BY <1>6, <3>1, <3>2
    <3>4. Len(w) = 1 /\ w[1] = msg
      BY <3>3
    <3> QED
      BY <3>2, <3>4
  <2>5. Fits(to, msg.req)
    <3>1. /\ last_index[to] = last_index[n] - Ahead(Hand.op)
          /\ committed_index[n] = last_index[n] - Ahead(Hand.op)
      BY <1>2, <2>2, NoneIsNoRequest DEF LockInv, Lockstep, Lagging, InHand
    <3>2. last_index[n] \in Int /\ Ahead(Hand.op) \in Int
      BY <1>1 DEF TypeOK, Index, Ahead
    <3> QED
      BY <1>4, <3>1, <3>2 DEF Fits
  <2>6. Connected' /\ InHand'
    BY <1>1, <1>2, <1>3, <1>5, NoneIsNoRequest DEF LockInv, Lockstep, Connected, InHand, Hand
  <2>7. LogsTidy'
    <3> SUFFICES ASSUME NEW b \in Node, hb_conn[b] PROVE Tidy(b)'
      BY <1>1 DEF LogsTidy
    <3>1. Tidy(b)
      BY DEF LockInv, Lockstep, LogsTidy
    <3>2. CASE b = to
      <4>1. ifa[to] = None /\ Fits(to, msg.req) /\ Tidy(to)
        BY <2>2, <2>3, <2>5, <3>1, <3>2
      <4>2. /\ OnWire(to)'[1].kind = "req"
            /\ OnWire(to)'[1].req.committed_index = last_index[to]
            /\ OnWire(to)'[1].req.last_index = last_index[to] + Ahead(OnWire(to)'[1].req.op)
        BY <1>4, <2>4, <4>1 DEF Fits
      <4> QED
        BY <1>1, <2>4, <3>2, <4>1, <4>2 DEF Tidy, Fits, Ahead
    <3>3. CASE b # to
      BY <1>1, <1>6, <3>1, <3>3 DEF Tidy, Fits
    <3> QED
      BY <3>2, <3>3
  <2>8. Replies'
    BY <1>1, <1>2, <2>1 DEF Replies
  <2>9. Lagging'
    <3> SUFFICES ASSUME NEW b \in Node, Behind(b)
                 PROVE  /\ last_index[b] = last_index[n] - Ahead(Hand.op)
                        /\ ifa[b] = None
                        /\ smr_log[b] = SubSeq(smr_log[n], 1, last_index[b] + 1)
                        /\ OnWire(b)' # <<>> => OnWire(b)'[1].req.op = Hand.op /\ b = to
      BY <1>1, <1>2, <1>5, <1>7 DEF Lagging
    <3>1. OnWire(b)' # <<>> => b = to
      BY <1>6, <2>3
    <3>2. OnWire(b)' # <<>> => OnWire(b)'[1].req.op = Hand.op
      <4>1. OnWire(to)'[1].req.op = Hand.op
        BY <1>4, <2>4
      <4> QED
        BY <3>1, <4>1
    <3>3. ifa[b] = None
      BY <2>3
    <3> QED
      BY <1>2, <3>1, <3>2, <3>3 DEF LockInv, Lockstep, Lagging
  <2>10. InStep'
    BY <1>1, <1>6, <1>7, <2>2 DEF LockInv, Lockstep, InStep
  <2> QED
    BY <2>6, <2>7, <2>8, <2>9, <2>10 DEF LockInv, Lockstep
<1> QED
  BY <1>8, <1>9

\* What AdminCommit does to the indexes and the thread of the master.
LEMMA CommitEffect ==
    ASSUME LockInv, NEW n \in Node, AdminCommit(n)
    PROVE  /\ n = master_node_id /\ hb_conn[n]
           /\ Hand \in Request /\ Hand # None /\ admin[n].todo = <<>>
           /\ admin'[n].job = None /\ admin'[n].todo = <<>> /\ admin'[n].pc \in {"wait", "next"}
           /\ committed_index[n] = last_index[n] - Ahead(Hand.op)
           /\ Hand.op = CommitOnly => customer_record'[n] = customer_record[n]
           /\ Hand.op # CommitOnly =>
                 /\ At(smr_log[n], last_index[n]) = Hand.op
                 /\ customer_record'[n] = Apply(customer_record[n], Hand.op)
           /\ committed_index'[n] = last_index[n]
           /\ \A m \in Node \ {n} : /\ admin'[m] = admin[m]
                                    /\ committed_index'[m] = committed_index[m]
                                    /\ customer_record'[m] = customer_record[m]
           /\ UNCHANGED <<hb_conn, master_node_id, ifa, wire, socket, reply, recheck_allow,
                          smr_log, last_index, wal>>
<1>1. /\ TypeOK /\ admin[n].pc = "send" /\ admin[n].todo = <<>>
      /\ UNCHANGED <<hb_conn, master_node_id, ifa, wire, socket, reply, recheck_allow,
                     smr_log, last_index, wal>>
  BY DEF LockInv, RolesInv, BInv, AdminCommit, netVars, lbVars
<1>2. /\ n = master_node_id /\ hb_conn[n] /\ Hand \in Request /\ Hand # None
  BY <1>1, InRound, NoneIsNoRequest
<1>3. /\ committed_index[n] = last_index[n] - Ahead(Hand.op)
      /\ Hand.op # CommitOnly => At(smr_log[n], last_index[n]) = Hand.op
  BY <1>2 DEF LockInv, Lockstep, InHand
<1>4. /\ admin'[n].job = None /\ admin'[n].todo = <<>> /\ admin'[n].pc \in {"wait", "next"}
      /\ \A m \in Node \ {n} : admin'[m] = admin[m]
  BY <1>1 DEF AdminCommit, AdminWaits, TypeOK
<1>5. last_index[n] \in Int
  BY <1>1 DEF TypeOK, Index
<1>6. CASE Hand.op = CommitOnly
  <2>1. UNCHANGED <<customer_record, committed_index>>
    BY <1>2, <1>6 DEF AdminCommit, IsAnnouncement, Hand
  <2>2. committed_index'[n] = last_index[n]
    BY <1>3, <1>5, <1>6, <2>1 DEF Ahead
  <2> QED
    BY <1>1, <1>2, <1>3, <1>4, <1>6, <2>1, <2>2
<1>7. CASE Hand.op # CommitOnly
  <2>1. CommitLast(n, Hand.op)
    BY <1>2, <1>7 DEF AdminCommit, IsAnnouncement, Hand
  <2>2. /\ committed_index'[n] = last_index[n]
        /\ customer_record'[n] = Apply(customer_record[n], Hand.op)
        /\ \A m \in Node \ {n} : /\ committed_index'[m] = committed_index[m]
                                 /\ customer_record'[m] = customer_record[m]
    BY <1>1, <2>1 DEF CommitLast, TypeOK
  <2> QED
    BY <1>1, <1>2, <1>3, <1>4, <1>7, <2>2
<1> QED
  BY <1>6, <1>7

\* Every peer has answered: they all have the order, and now it is applied.
LEMMA CommitLockstep ==
    ASSUME LockInv, RolesInv', NEW n \in Node, AdminCommit(n)
    PROVE  LockInv'
<1>1. /\ n = master_node_id /\ hb_conn[n] /\ Hand # None /\ admin[n].todo = <<>>
      /\ admin'[n].job = None /\ admin'[n].todo = <<>> /\ admin'[n].pc \in {"wait", "next"}
      /\ committed_index'[n] = last_index[n]
      /\ \A m \in Node \ {n} : committed_index'[m] = committed_index[m]
      /\ UNCHANGED <<hb_conn, master_node_id, ifa, wire, socket, reply, recheck_allow,
                     smr_log, last_index>>
      /\ admin[n].pc = "send"
  BY CommitEffect DEF AdminCommit
<1>2. \A b \in Node : ~Behind(b) /\ ~Behind(b)'
  BY <1>1, NobodyBehind DEF Behind, Range
<1>3. Hand' = None
  BY <1>1 DEF Hand
<1>4. Connected' /\ InHand'
  BY <1>1, <1>3 DEF LockInv, Lockstep, Connected, InHand
<1>5. LogsTidy'
  <2> SUFFICES ASSUME NEW b \in Node, hb_conn[b] PROVE Tidy(b)'
    BY <1>1 DEF LogsTidy
  <2>1. Tidy(b)
    BY DEF LockInv, Lockstep, LogsTidy
  <2>2. committed_index'[b] \in {last_index[b] - 1, last_index[b]}
    BY <1>1, <2>1 DEF Tidy
  <2> QED
    BY <1>1, <2>1, <2>2 DEF Tidy, Fits, OnWire
<1>6. Replies'
  BY <1>1 DEF LockInv, Lockstep, Replies, Asked
<1>7. Lagging' /\ InStep'
  BY <1>1, <1>2 DEF LockInv, Lockstep, Lagging, InStep, OnWire
<1> QED
  BY <1>4, <1>5, <1>6, <1>7 DEF LockInv, Lockstep

\* The ifa thread of b changes nothing but what is its own, unless b dies of it.
LEMMA IfaFrame ==
    ASSUME TypeOK, NEW b \in Node,
           (\E p \in Node : IfaRead(p, b)) \/ RecoverRead(b) \/ RecoverFail(b)
               \/ RecoverWrite(b) \/ IfaApply(b),
           ~ \E w : Die(b, w)
    PROVE  /\ UNCHANGED <<up, hb_conn, node_health, master_node_id, socket, admin, recheck_allow,
                          admin_thread_list, engineer, server, ordered, acked>>
           /\ \A a \in Node \ {b} :
                 /\ last_index'[a] = last_index[a] /\ committed_index'[a] = committed_index[a]
                 /\ smr_log'[a] = smr_log[a] /\ customer_record'[a] = customer_record[a]
                 /\ wal'[a] = wal[a] /\ ifa'[a] = ifa[a]
                 /\ \A p \in Node : wire'[p][a] = wire[p][a] /\ reply'[p][a] = reply[p][a]
<1>1. \A p, ack : Reply(p, b, ack) =>
          \A q \in Node, a \in Node \ {b} : reply'[q][a] = reply[q][a]
  BY DEF Reply, TypeOK
<1>2. \A phase, i : Handled(b, phase, i) => \A a \in Node \ {b} : ifa'[a] = ifa[a]
  BY DEF Handled, TypeOK
<1>3. \A p \in Node : wire' = [wire EXCEPT ![p][b] = Tail(@)] =>
          \A q \in Node, a \in Node \ {b} : wire'[q][a] = wire[q][a]
  BY DEF TypeOK
<1>4. /\ \A e : smr_log' = [smr_log EXCEPT ![b] = e] => \A a \in Node \ {b} : smr_log'[a] = smr_log[a]
      /\ \A e : last_index' = [last_index EXCEPT ![b] = e] =>
                 \A a \in Node \ {b} : last_index'[a] = last_index[a]
      /\ \A e : committed_index' = [committed_index EXCEPT ![b] = e] =>
                 \A a \in Node \ {b} : committed_index'[a] = committed_index[a]
      /\ \A e : customer_record' = [customer_record EXCEPT ![b] = e] =>
                 \A a \in Node \ {b} : customer_record'[a] = customer_record[a]
      /\ \A e : wal' = [wal EXCEPT ![b] = e] => \A a \in Node \ {b} : wal'[a] = wal[a]
      /\ \A e : ifa' = [ifa EXCEPT ![b] = e] => \A a \in Node \ {b} : ifa'[a] = ifa[a]
  BY DEF TypeOK
<1>5. ifa[b] # None => ifa[b].from \in Node
  BY IfaFields
<1>6. ASSUME NEW p \in Node, IfaRead(p, b)
      PROVE  /\ UNCHANGED <<up, hb_conn, node_health, master_node_id, socket, admin, recheck_allow,
                            admin_thread_list, engineer, server, ordered, acked>>
             /\ \A a \in Node \ {b} :
                   /\ last_index'[a] = last_index[a] /\ committed_index'[a] = committed_index[a]
                   /\ smr_log'[a] = smr_log[a] /\ customer_record'[a] = customer_record[a]
                   /\ wal'[a] = wal[a] /\ ifa'[a] = ifa[a]
                   /\ \A q \in Node : wire'[q][a] = wire[q][a] /\ reply'[q][a] = reply[q][a]
  <2>1. \A q \in Node, a \in Node \ {b} : wire'[q][a] = wire[q][a] /\ reply'[q][a] = reply[q][a]
    BY <1>1, <1>3, <1>6 DEF IfaRead
  <2>2. /\ smr_log' = smr_log \/ \E e : smr_log' = [smr_log EXCEPT ![b] = e]
        /\ wal' = wal \/ \E e : wal' = [wal EXCEPT ![b] = e]
        /\ \E e : ifa' = [ifa EXCEPT ![b] = e]
    BY <1>6 DEF IfaRead
  <2>3. UNCHANGED <<up, hb_conn, node_health, master_node_id, socket, admin, recheck_allow,
                    admin_thread_list, engineer, server, ordered, acked,
                    last_index, committed_index, customer_record>>
    BY <1>6 DEF IfaRead, clientVars, lbVars
  <2>4. \A a \in Node \ {b} : smr_log'[a] = smr_log[a] /\ wal'[a] = wal[a] /\ ifa'[a] = ifa[a]
    BY <1>4, <2>2
  <2> QED
    BY <2>1, <2>3, <2>4
<1>7. CASE RecoverRead(b)
  <2>1. \A q \in Node, a \in Node \ {b} : wire'[q][a] = wire[q][a]
    BY <1>3, <1>5, <1>7 DEF RecoverRead
  <2>2. \A a \in Node \ {b} : ifa'[a] = ifa[a]
    BY <1>2, <1>7 DEF RecoverRead
  <2>3. \E e : smr_log' = [smr_log EXCEPT ![b] = e]
    BY <1>7 DEF RecoverRead
  <2> QED
    BY <1>4, <1>7, <2>1, <2>2, <2>3 DEF RecoverRead, clientVars, lbVars
<1>8. CASE RecoverFail(b)
  <2>1. \A a \in Node \ {b} : ifa'[a] = ifa[a]
    BY <1>8 DEF RecoverFail, TypeOK
  <2> QED
    BY <1>8, <2>1 DEF RecoverFail, clientVars, lbVars, logVars, netVars
<1>9. CASE RecoverWrite(b)
  <2>1. \A a \in Node \ {b} : ifa'[a] = ifa[a]
    BY <1>2, <1>9 DEF RecoverWrite
  <2>2. /\ \E e : wal' = [wal EXCEPT ![b] = e]
        /\ customer_record' = customer_record
           \/ \E e : customer_record' = [customer_record EXCEPT ![b] = e]
        /\ committed_index' = committed_index
           \/ \E e : committed_index' = [committed_index EXCEPT ![b] = e]
    BY <1>9 DEF RecoverWrite
  <2> QED
    BY <1>4, <1>9, <2>1, <2>2 DEF RecoverWrite, clientVars, lbVars, netVars
<1>10. CASE IfaApply(b)
  <2>1. /\ \E e : last_index' = [last_index EXCEPT ![b] = e]
        /\ \E e : ifa' = [ifa EXCEPT ![b] = e]
        /\ customer_record' = customer_record
           \/ \E e : customer_record' = [customer_record EXCEPT ![b] = e]
        /\ committed_index' = committed_index
           \/ \E e : committed_index' = [committed_index EXCEPT ![b] = e]
    BY <1>10 DEF IfaApply, TakeOverIndex
  <2>2. \A q \in Node, a \in Node \ {b} : reply'[q][a] = reply[q][a]
    BY <1>1, <1>10 DEF IfaApply
  <2> QED
    BY <1>4, <1>10, <2>1, <2>2 DEF IfaApply, clientVars, lbVars
<1> QED
  BY <1>6, <1>7, <1>8, <1>9, <1>10

\* A backup that has died before.
LEMMA OutsiderLockstep ==
    ASSUME LockInv, RolesInv', NEW b \in Node, ~hb_conn[b],
           (\E p \in Node : IfaRead(p, b)) \/ RecoverRead(b) \/ RecoverFail(b)
               \/ RecoverWrite(b) \/ IfaApply(b),
           ~ \E w : Die(b, w)
    PROVE  LockInv'
<1>1. /\ UNCHANGED <<hb_conn, master_node_id, socket, admin, recheck_allow>>
      /\ \A a \in Node \ {b} :
            /\ last_index'[a] = last_index[a] /\ committed_index'[a] = committed_index[a]
            /\ smr_log'[a] = smr_log[a] /\ ifa'[a] = ifa[a]
            /\ \A p \in Node : wire'[p][a] = wire[p][a] /\ reply'[p][a] = reply[p][a]
  BY IfaFrame DEF LockInv, RolesInv, BInv
<1>2. Hand' = Hand
  BY <1>1 DEF Hand
<1>3. \A a \in Node : hb_conn[a] =>
          /\ a # b /\ (Behind(a)' <=> Behind(a)) /\ OnWire(a)' = OnWire(a)
          /\ (Asked(a)' <=> Asked(a)) /\ reply'[master_node_id][a] = reply[master_node_id][a]
  BY <1>1, MasterCases DEF Behind, OnWire, Asked, LockInv
<1> QED
  BY <1>1, <1>2, <1>3, LockstepStays

\* A backup that goes on with what its dead primary had sent is the last one.
LEMMA LastOne ==
    ASSUME LockInv, NEW b \in Node, hb_conn[b], ~Behind(b), ifa[b] # None \/ OnWire(b) # <<>>
    PROVE  ~hb_conn[master_node_id] /\ \A a \in Node \ {b} : ~hb_conn[a]
<1>1. master_node_id \in Node /\ b # master_node_id /\ ~Behind(master_node_id)
  BY MasterCases DEF LockInv
<1>2. ~hb_conn[master_node_id]
  BY <1>1 DEF LockInv, Lockstep, InStep
<1>3. \A a \in Node : ~Behind(a)
  BY <1>2, MasterCases DEF LockInv
<1> QED
  BY <1>2, <1>3 DEF LockInv, Lockstep, InStep

\* What reading a request does to a backup that has never died.
LEMMA ReadEffect ==
    ASSUME LockInv, NEW p \in Node, NEW b \in Node, IfaRead(p, b), hb_conn[b],
           NEW req, req = OnWire(b)[1].req
    PROVE  /\ p = master_node_id /\ p # b /\ OnWire(b) # <<>> /\ ifa[b] = None
           /\ Fits(b, req) /\ req.op \in Order \cup {CommitOnly}
           /\ Len(smr_log[b]) = last_index[b] + 1
           /\ ifa'[b] # None /\ ifa'[b].phase = "apply" /\ ifa'[b].req = req
           /\ wire'[p][b] = <<>> /\ reply' = reply
           /\ req.op = CommitOnly => smr_log'[b] = smr_log[b] /\ wal'[b] = wal[b]
           /\ req.op # CommitOnly => /\ req.op \in Order
                                     /\ smr_log'[b] = Append(smr_log[b], req.op)
                                     /\ wal'[b] = Flushed(WriteLog(wal[b], req.op))
           /\ UNCHANGED <<last_index, committed_index, customer_record, admin>>
<1>1. TypeOK /\ wire[p][b] # <<>> /\ MtxFree(b)
  BY DEF LockInv, RolesInv, BInv, IfaRead
<1>2. p = master_node_id /\ p # b /\ ifa[b] = None /\ OnWire(b) = wire[p][b]
  BY <1>1 DEF LockInv, RolesInv, OnePrimary, MtxFree, OnWire
<1>3. Len(OnWire(b)) = 1 /\ OnWire(b)[1].kind = "req" /\ Fits(b, req)
      /\ Len(smr_log[b]) = last_index[b] + 1
  BY <1>1, <1>2 DEF LockInv, Lockstep, LogsTidy, Tidy
<1>4. OnWire(b) \in Seq(Message) /\ Head(OnWire(b)) = OnWire(b)[1] /\ OnWire(b)[1] \in Message
  BY <1>1, <1>2, HeadTailProperties DEF TypeOK
<1>5. req \in ReplReq
  BY <1>3, <1>4 DEF Message
<1>6. /\ req.op \in Order \cup {CommitOnly} /\ CommitOnly \notin Order
      /\ last_index[b] \in Index /\ smr_log[b] \in Seq(Entry)
  BY <1>1, <1>5, OpAssumption DEF ReplReq, TypeOK
<1>7. Tail(wire[p][b]) = <<>>
  <2>1. PICK w \in Seq(Message) : w = wire[p][b]
    BY <1>2, <1>4
  <2>2. Tail(w) \in Seq(Message) /\ Len(Tail(w)) = 0
    BY <1>1, <1>2, <1>3, <2>1, HeadTailProperties
  <2> QED
    BY <2>1, <2>2, EmptySeq
<1>8. ~(req.last_index - last_index[b] > 1)
  BY <1>3, <1>6 DEF Fits, Ahead, Index
<1>9. Head(wire[p][b]).req = req
  BY <1>2, <1>4
<1>10. /\ wire'[p][b] = <<>> /\ reply' = reply
       /\ UNCHANGED <<last_index, committed_index, customer_record, admin>>
  BY <1>1, <1>7, <1>8, <1>9 DEF IfaRead, TypeOK
<1>11. ifa'[b] # None /\ ifa'[b].phase = "apply" /\ ifa'[b].req = req
  <2>1. ifa' = [ifa EXCEPT ![b] =
                   [from |-> p, req |-> req, i |-> last_index[b] + 1, phase |-> "apply"]]
    BY <1>8, <1>9 DEF IfaRead
  <2>2. ifa'[b] = [from |-> p, req |-> req, i |-> last_index[b] + 1, phase |-> "apply"]
    BY <1>1, <2>1 DEF TypeOK
  <2>3. ifa'[b] \in IfaState
    BY <1>5, <1>6, <2>2 DEF IfaState, Index
  <2> QED
    BY <2>2, <2>3, NoneIsNothingElse
<1>12. CASE req.op = CommitOnly
  <2>1. UNCHANGED <<wal, smr_log>>
    BY <1>9, <1>12 DEF IfaRead, IsAnnouncement
  <2> QED
    BY <1>1, <1>2, <1>3, <1>6, <1>10, <1>11, <1>12, <2>1
<1>13. CASE req.op # CommitOnly
  <2>1. /\ wal' = [wal EXCEPT ![b] = Flushed(WriteLog(wal[b], req.op))]
        /\ smr_log' = [smr_log EXCEPT ![b] = Insert(smr_log[b], req.last_index, req.op)]
    BY <1>8, <1>9, <1>13 DEF IfaRead, IsAnnouncement
  <2>2. req.last_index = Len(smr_log[b]) /\ req.op \in Entry
    BY <1>3, <1>6, <1>13 DEF Fits, Ahead, Entry
  <2>3. Insert(smr_log[b], req.last_index, req.op) = Append(smr_log[b], req.op)
    BY <1>6, <2>2, InsertAtEnd
  <2>4. /\ smr_log'[b] = Append(smr_log[b], req.op)
        /\ wal'[b] = Flushed(WriteLog(wal[b], req.op))
    BY <1>1, <2>1, <2>3 DEF TypeOK
  <2> QED
    BY <1>1, <1>2, <1>3, <1>6, <1>10, <1>11, <1>13, <2>4
<1> QED
  BY <1>12, <1>13

\* A backup that has never died reads a request and logs its order.
LEMMA ReadLockstep ==
    ASSUME LockInv, RolesInv', NEW p \in Node, NEW b \in Node, IfaRead(p, b), hb_conn[b],
           ~ \E w : Die(b, w)
    PROVE  LockInv'
<1> PICK req : req = OnWire(b)[1].req
  OBVIOUS
<1>1. /\ p = master_node_id /\ p # b /\ OnWire(b) # <<>> /\ ifa[b] = None
      /\ Fits(b, req) /\ req.op \in Order \cup {CommitOnly}
      /\ Len(smr_log[b]) = last_index[b] + 1
      /\ ifa'[b] # None /\ ifa'[b].phase = "apply" /\ ifa'[b].req = req
      /\ wire'[p][b] = <<>> /\ reply' = reply
      /\ req.op = CommitOnly => smr_log'[b] = smr_log[b]
      /\ req.op # CommitOnly => /\ req.op \in Order
                                /\ smr_log'[b] = Append(smr_log[b], req.op)
      /\ UNCHANGED <<last_index, committed_index, admin>>
  BY ReadEffect
<1>2. /\ UNCHANGED <<hb_conn, master_node_id, socket, recheck_allow>>
      /\ \A a \in Node \ {b} :
            smr_log'[a] = smr_log[a] /\ ifa'[a] = ifa[a] /\ wire'[p][a] = wire[p][a]
  BY IfaFrame DEF LockInv, RolesInv, BInv
<1>3. TypeOK
  BY DEF LockInv, RolesInv, BInv
<1>4. Hand' = Hand /\ \A a \in Node : /\ Behind(a)' <=> Behind(a)
                                      /\ Asked(a)' <=> Asked(a)
                                      /\ a # b => OnWire(a)' = OnWire(a)
  BY <1>1, <1>2 DEF Hand, Behind, Asked, OnWire
<1>5. OnWire(b)' = <<>>
  BY <1>1, <1>2 DEF OnWire
<1>6. Connected' /\ InHand' /\ Replies'
  <2>1. smr_log'[master_node_id] = smr_log[master_node_id]
    BY <1>1, <1>2
  <2> QED
    BY <1>1, <1>2, <1>4, <2>1 DEF LockInv, Lockstep, Connected, InHand, Replies, At
<1>7. LogsTidy'
  <2> SUFFICES ASSUME NEW a \in Node, hb_conn[a] PROVE Tidy(a)'
    BY <1>2 DEF LogsTidy
  <2>1. Tidy(a)
    BY DEF LockInv, Lockstep, LogsTidy
  <2>2. CASE a = b
    <3>1. Len(smr_log'[b]) = req.last_index + 1
      <4>1. last_index[b] \in Index /\ smr_log[b] \in Seq(Entry)
        BY <1>3 DEF TypeOK
      <4>2. CASE req.op = CommitOnly
        BY <1>1, <4>1, <4>2 DEF Fits, Ahead, Index
      <4>3. CASE req.op # CommitOnly
        <5>1. Len(Append(smr_log[b], req.op)) = Len(smr_log[b]) + 1
          BY <1>1, <4>1, <4>3, AppendProperties DEF Entry
        <5> QED
          BY <1>1, <4>1, <4>3, <5>1 DEF Fits, Ahead, Index
      <4> QED
        BY <4>2, <4>3
    <3> QED
      BY <1>1, <1>5, <2>1, <2>2, <3>1 DEF Tidy, Fits
  <2>3. CASE a # b
    BY <1>1, <1>2, <1>4, <2>1, <2>3 DEF Tidy, Fits
  <2> QED
    BY <2>2, <2>3
<1>8. CASE Behind(b)
  <2>1. /\ hb_conn[p] /\ Hand # None
        /\ req.op = Hand.op /\ Asked(b)
        /\ last_index[b] = last_index[p] - Ahead(Hand.op)
        /\ smr_log[b] = SubSeq(smr_log[p], 1, last_index[b] + 1)
    BY <1>1, <1>8, BehindCases DEF LockInv, Lockstep, Lagging
  <2>2. smr_log'[b] = smr_log[p]
    <3>1. /\ smr_log[p] \in Seq(Entry) /\ last_index[p] \in Index /\ last_index[b] \in Index
      BY <1>3 DEF TypeOK
    <3>2. Len(smr_log[p]) = last_index[p] + 1
      BY <1>1, <2>1, MasterCases DEF LockInv, Lockstep, LogsTidy, Tidy
    <3>3. CASE req.op = CommitOnly
      <4>1. last_index[b] + 1 = Len(smr_log[p])
        BY <2>1, <3>1, <3>2, <3>3 DEF Ahead, Index
      <4>2. smr_log[b] = SubSeq(smr_log[p], 1, Len(smr_log[p]))
        BY <2>1, <4>1
      <4>3. SubSeq(smr_log[p], 1, Len(smr_log[p])) = smr_log[p]
        BY <3>1, SubSeqFull
      <4> QED
        BY <1>1, <3>3, <4>2, <4>3
    <3>4. CASE req.op # CommitOnly
      <4>1. PICK k \in Nat : k = last_index[b] + 1
        BY <3>1 DEF Index
      <4>2. k + 1 = Len(smr_log[p]) /\ k = last_index[p]
        BY <2>1, <3>1, <3>2, <3>4, <4>1 DEF Ahead, Index
      <4>3. Append(SubSeq(smr_log[p], 1, k), smr_log[p][k + 1]) = smr_log[p]
        BY <3>1, <4>2, FrontAndLast
      <4>4. smr_log[p][k + 1] = req.op
        BY <1>1, <2>1, <3>4, <4>2 DEF LockInv, Lockstep, InHand, At
      <4> QED
        BY <1>1, <2>1, <3>4, <4>1, <4>3, <4>4
    <3> QED
      BY <3>3, <3>4
  <2>3. Lagging'
    <3> SUFFICES ASSUME NEW a \in Node, Behind(a)
                 PROVE  /\ last_index[a] = last_index[p] - Ahead(Hand.op)
                        /\ ifa'[a] = None =>
                              smr_log'[a] = SubSeq(smr_log'[p], 1, last_index[a] + 1)
                        /\ ifa'[a] # None =>
                              smr_log'[a] = smr_log'[p] /\ ifa'[a].req.op = Hand.op
                        /\ OnWire(a)' # <<>> => OnWire(a)'[1].req.op = Hand.op
                        /\ ifa'[a] # None \/ OnWire(a)' # <<>> => Asked(a)
      BY <1>1, <1>2, <1>4 DEF Lagging
    <3>1. smr_log'[p] = smr_log[p]
      BY <1>1, <1>2
    <3>2. CASE a = b
      BY <1>1, <1>5, <2>1, <2>2, <3>1, <3>2
    <3>3. CASE a # b
      BY <1>1, <1>2, <1>4, <3>1, <3>3 DEF LockInv, Lockstep, Lagging
    <3> QED
      BY <3>2, <3>3
  <2>4. InStep'
    BY <1>2, <1>4, <1>8 DEF LockInv, Lockstep, InStep
  <2> QED
    BY <1>6, <1>7, <2>3, <2>4 DEF LockInv, Lockstep
<1>9. CASE ~Behind(b)
  <2>1. \A a \in Node \ {b} : ~hb_conn[a]
    BY <1>1, <1>9, LastOne
  <2>2. \A a \in Node : ~Behind(a)
    BY <1>9, <2>1 DEF Behind
  <2>3. Lagging'
    BY <1>4, <2>2 DEF Lagging
  <2>4. InStep'
    BY <1>2, <2>1 DEF InStep
  <2> QED
    BY <1>6, <1>7, <2>3, <2>4 DEF LockInv, Lockstep
<1> QED
  BY <1>8, <1>9

\* What the end of a request does to a backup that has never died.
LEMMA ApplyEffect ==
    ASSUME LockInv, NEW b \in Node, IfaApply(b), hb_conn[b]
    PROVE  /\ b # master_node_id
           /\ OnWire(b) = <<>> /\ ifa'[b] = None
           /\ Fits(b, ifa[b].req) /\ ifa[b].req.op \in Order \cup {CommitOnly}
           /\ Len(smr_log[b]) = ifa[b].req.last_index + 1
           /\ last_index'[b] = ifa[b].req.last_index /\ committed_index'[b] = last_index[b]
           /\ last_index[b] = -1 =>
                 committed_index[b] = -1 /\ customer_record'[b] = customer_record[b]
           /\ last_index[b] # -1 => customer_record'[b] =
                 Apply(customer_record[b], At(smr_log[b], last_index[b]))
           /\ Reply(master_node_id, b, [is_success |-> 1, committed_index |-> -1])
           /\ UNCHANGED <<up, hb_conn, smr_log, wal, wire, admin>>
<1>1. TypeOK /\ ifa[b] # None
  BY DEF LockInv, RolesInv, BInv, IfaApply
<1>2. ifa[b].req \in ReplReq /\ ifa[b].from \in Node
  BY <1>1, IfaFields
<1>3. ifa[b].from = master_node_id /\ b # master_node_id
  BY <1>1, <1>2 DEF LockInv, RolesInv, OnePrimary
<1>4. /\ Fits(b, ifa[b].req) /\ OnWire(b) = <<>>
      /\ Len(smr_log[b]) = ifa[b].req.last_index + 1
      /\ committed_index[b] \in {last_index[b] - 1, last_index[b]}
  BY <1>1 DEF LockInv, Lockstep, LogsTidy, Tidy
<1>5. /\ last_index[b] \in Index /\ committed_index[b] \in Index /\ smr_log[b] \in Seq(Entry)
      /\ ifa[b].req.op \in Order \cup {CommitOnly}
  BY <1>1, <1>2 DEF TypeOK, ReplReq
<1>6. /\ ifa[b].req.committed_index = last_index[b]
      /\ ifa[b].req.committed_index = -1 \/ InRange(smr_log[b], ifa[b].req.committed_index)
  BY <1>4, <1>5 DEF Fits, InRange, Index, Ahead
<1>7. /\ TakeOverIndex(b, ifa[b].req)
      /\ committed_index' = IF last_index[b] = -1 THEN committed_index
                            ELSE [committed_index EXCEPT ![b] = last_index[b]]
      /\ customer_record' = IF last_index[b] = -1 THEN customer_record
                            ELSE [customer_record EXCEPT ![b] =
                                     Apply(customer_record[b], At(smr_log[b], last_index[b]))]
      /\ ifa' = [ifa EXCEPT ![b] = None]
      /\ Reply(master_node_id, b, [is_success |-> 1, committed_index |-> -1])
      /\ UNCHANGED <<up, hb_conn, smr_log, wal, wire, admin>>
  BY <1>3, <1>6 DEF IfaApply, lbVars
<1>8. last_index[b] = -1 => committed_index[b] = -1
  BY <1>4, <1>5 DEF Index
<1>9. committed_index'[b] = last_index[b]
  BY <1>1, <1>7, <1>8 DEF TypeOK
<1>10. /\ last_index[b] = -1 => customer_record'[b] = customer_record[b]
       /\ last_index[b] # -1 => customer_record'[b] =
             Apply(customer_record[b], At(smr_log[b], last_index[b]))
  BY <1>1, <1>7 DEF TypeOK
<1>11. last_index'[b] = ifa[b].req.last_index /\ ifa'[b] = None
  BY <1>1, <1>7 DEF TakeOverIndex, TypeOK
<1> QED
  BY <1>3, <1>4, <1>5, <1>7, <1>8, <1>9, <1>10, <1>11

\* A backup that has never died finishes a request and answers.
LEMMA ApplyLockstep ==
    ASSUME LockInv, RolesInv', NEW b \in Node, IfaApply(b), hb_conn[b],
           ~ \E w : Die(b, w)
    PROVE  LockInv'
<1> DEFINE ack == [is_success |-> 1, committed_index |-> -1]
<1> PICK req : req = ifa[b].req
  OBVIOUS
<1>1. /\ b # master_node_id
      /\ OnWire(b) = <<>> /\ ifa[b] # None /\ ifa'[b] = None
      /\ Fits(b, req) /\ req.op \in Order \cup {CommitOnly}
      /\ Len(smr_log[b]) = req.last_index + 1
      /\ last_index'[b] = req.last_index /\ committed_index'[b] = last_index[b]
      /\ Reply(master_node_id, b, ack)
      /\ UNCHANGED <<smr_log, wire, admin>>
  BY ApplyEffect DEF IfaApply
<1>2. /\ UNCHANGED <<hb_conn, master_node_id, socket, recheck_allow>>
      /\ \A a \in Node \ {b} :
            /\ last_index'[a] = last_index[a] /\ committed_index'[a] = committed_index[a]
            /\ ifa'[a] = ifa[a] /\ \A p \in Node : reply'[p][a] = reply[p][a]
  BY IfaFrame DEF LockInv, RolesInv, BInv
<1>3. TypeOK /\ master_node_id \in Node
  BY DEF LockInv, RolesInv, BInv, TypeOK
<1>4. Hand' = Hand /\ \A a \in Node : /\ OnWire(a)' = OnWire(a) /\ (Asked(a)' <=> Asked(a))
                                      /\ a # b => (Behind(a)' <=> Behind(a))
  BY <1>1, <1>2, <1>3 DEF Hand, Behind, Asked, OnWire
<1>5. Connected' /\ InHand'
  <2>1. /\ committed_index'[master_node_id] = committed_index[master_node_id]
        /\ last_index'[master_node_id] = last_index[master_node_id]
    BY <1>1, <1>2, <1>3
  <2> QED
    BY <1>1, <1>2, <1>4, <2>1 DEF LockInv, Lockstep, Connected, InHand, At
<1>6. LogsTidy'
  <2> SUFFICES ASSUME NEW a \in Node, hb_conn[a] PROVE Tidy(a)'
    BY <1>2 DEF LogsTidy
  <2>1. Tidy(a)
    BY DEF LockInv, Lockstep, LogsTidy
  <2>2. CASE a = b
    <3>1. last_index[b] \in {req.last_index, req.last_index - 1}
      <4>1. last_index[b] \in Index
        BY <1>3 DEF TypeOK
      <4> QED
        BY <1>1, <4>1 DEF Fits, Ahead, Index
    <3> QED
      BY <1>1, <1>4, <2>2, <3>1 DEF Tidy
  <2>3. CASE a # b
    BY <1>1, <1>2, <1>4, <2>1, <2>3 DEF Tidy, Fits
  <2> QED
    BY <2>2, <2>3
<1>7. CASE Behind(b)
  <2>1. /\ hb_conn[master_node_id] /\ Hand # None /\ ~Behind(master_node_id)
        /\ admin[master_node_id].pc \in {"send", "ack", "reack"}
        /\ Asked(b) /\ smr_log[b] = smr_log[master_node_id]
    BY <1>1, <1>7, BehindCases, MasterCases DEF LockInv, Lockstep, Lagging
  <2>2. reply'[master_node_id][b] = ack
    <3>1. socket[master_node_id][b] = "open"
      BY <1>1, <2>1 DEF LockInv, Lockstep, Connected
    <3> HIDE DEF ack
    <3> QED
      BY <1>1, <1>3, <3>1 DEF Reply, TypeOK
  <2>3. ack # None
    <3>1. ack \in Ack
      BY DEF Ack, Index
    <3> QED
      BY <3>1, NoneIsNothingElse
  <2>4. ~Behind(b)'
    BY <1>2, <2>2, <2>3 DEF Behind
  <2>5. Replies'
    <3> SUFFICES ASSUME NEW a \in Node, hb_conn[a], reply'[master_node_id][a] # None
                 PROVE  reply'[master_node_id][a].is_success = 1 /\ Asked(a)
      BY <1>2, <1>4 DEF Replies
    <3>1. CASE a = b
      BY <2>1, <2>2, <3>1
    <3>2. CASE a # b
      BY <1>2, <1>3, <3>2 DEF LockInv, Lockstep, Replies
    <3> QED
      BY <3>1, <3>2
  <2>6. Lagging'
    <3> SUFFICES ASSUME NEW a \in Node, Behind(a), a # b
                 PROVE  /\ last_index'[a] = last_index'[master_node_id] - Ahead(Hand.op)
                        /\ ifa'[a] = None =>
                              smr_log[a] = SubSeq(smr_log[master_node_id], 1, last_index'[a] + 1)
                        /\ ifa'[a] # None => smr_log[a] = smr_log[master_node_id]
                                             /\ ifa'[a].req.op = Hand.op
                        /\ OnWire(a) # <<>> => OnWire(a)[1].req.op = Hand.op
                        /\ ifa'[a] # None \/ OnWire(a) # <<>> => Asked(a)
      BY <1>1, <1>2, <1>4, <2>4 DEF Lagging
    <3>1. last_index'[master_node_id] = last_index[master_node_id]
      BY <1>1, <1>2, <1>3
    <3> QED
      BY <1>2, <3>1 DEF LockInv, Lockstep, Lagging
  <2>7. InStep'
    <3>1. \A a \in Node : hb_conn[a] /\ ~Behind(a) /\ a # b =>
              ifa[a] = None /\ OnWire(a) = <<>> /\ smr_log[a] = smr_log[b]
      BY <1>3, <2>1, MasterCases DEF LockInv, Lockstep, InStep
    <3>2. \A a \in Node : hb_conn[a] /\ ~Behind(a)' =>
              ifa'[a] = None /\ OnWire(a)' = <<>> /\ smr_log'[a] = smr_log[b]
      BY <1>1, <1>2, <1>4, <3>1
    <3> QED
      BY <1>2, <3>2 DEF InStep
  <2> QED
    BY <1>5, <1>6, <2>5, <2>6, <2>7 DEF LockInv, Lockstep
<1>8. CASE ~Behind(b)
  <2>1. ~hb_conn[master_node_id] /\ \A a \in Node \ {b} : ~hb_conn[a]
    BY <1>1, <1>8, LastOne
  <2>2. reply'[master_node_id][b] = None /\ reply[master_node_id][b] = None
    <3>1. socket[master_node_id][b] = "closed" /\ reply[master_node_id][b] = None
      BY <1>3, <2>1 DEF LockInv, RolesInv, OthersIdle
    <3> QED
      BY <1>1, <3>1 DEF Reply
  <2>3. \A a \in Node : ~Behind(a)'
    BY <1>1, <1>2, <1>8, <2>1, <2>2 DEF Behind
  <2>4. Replies' /\ Lagging' /\ InStep'
    BY <1>2, <2>1, <2>2, <2>3 DEF Replies, Lagging, InStep
  <2> QED
    BY <1>5, <1>6, <2>4 DEF LockInv, Lockstep
<1> QED
  BY <1>7, <1>8

\* A backup that has never died never recovers, and is never sent an entry.
LEMMA NoRecovery ==
    ASSUME LockInv, NEW b \in Node, hb_conn[b]
    PROVE  /\ ~RecoverRead(b) /\ ~RecoverFail(b) /\ ~RecoverWrite(b)
           /\ ~ \E p \in Node : IfaStray(p, b)
           /\ IfaApply(b) => ~ \E w : Die(b, w)
<1>1. TypeOK
  BY DEF LockInv, RolesInv, BInv
<1>2. ifa[b] # None => ifa[b].phase = "apply"
  BY DEF LockInv, Lockstep, LogsTidy, Tidy
<1>3. ~RecoverRead(b) /\ ~RecoverFail(b) /\ ~RecoverWrite(b)
  BY <1>2 DEF RecoverRead, RecoverFail, RecoverWrite
<1>4. ASSUME NEW p \in Node, IfaStray(p, b) PROVE FALSE
  <2>1. wire[p][b] # <<>> /\ Head(wire[p][b]).kind = "op"
    BY <1>4 DEF IfaStray
  <2>2. OnWire(b) = wire[p][b] /\ OnWire(b)[1].kind = "req"
    BY <2>1 DEF LockInv, RolesInv, OnePrimary, OnWire, Lockstep, LogsTidy, Tidy
  <2> QED
    BY <2>1, <2>2
<1>5. IfaApply(b) => up' = up
  BY ApplyEffect
<1>6. \A w : Die(b, w) => up'[b] = FALSE
  BY <1>1 DEF Die, TypeOK
<1>7. up[b] = TRUE
  BY DEF LockInv, RolesInv, Lives
<1> QED
  BY <1>3, <1>4, <1>5, <1>6, <1>7

LEMMA IfaLockstep ==
    ASSUME LockInv, RolesInv', NEW b \in Node, IfaThread(b)
    PROVE  LockInv'
<1>1. CASE ~ \E w : Die(b, w)
  <2>1. ~ \E p \in Node : IfaStray(p, b)
    BY <1>1 DEF IfaStray
  <2>2. CASE hb_conn[b]
    BY <1>1, <2>1, <2>2, NoRecovery, ReadLockstep, ApplyLockstep DEF IfaThread
  <2>3. CASE ~hb_conn[b]
    BY <1>1, <2>1, <2>3, OutsiderLockstep DEF IfaThread
  <2> QED
    BY <2>2, <2>3
<1>2. CASE \E w : Die(b, w)
  <2>1. TypeOK
    BY DEF LockInv, RolesInv, BInv
  <2>2. \A w : Die(b, w) => up' = [up EXCEPT ![b] = FALSE] /\ smr_log' = [smr_log EXCEPT ![b] = <<>>]
    BY DEF Die
  <2>3. ~hb_conn[b]
    <3>1. SUFFICES ASSUME hb_conn[b] PROVE FALSE
      OBVIOUS
    <3>2. ~RecoverRead(b) /\ ~RecoverFail(b) /\ ~RecoverWrite(b) /\ ~IfaApply(b)
          /\ ~ \E p \in Node : IfaStray(p, b)
      BY <1>2, <3>1, NoRecovery
    <3>3. up'[b] = FALSE /\ up[b] = TRUE
      BY <1>2, <2>1, <2>2, <3>1 DEF TypeOK, LockInv, RolesInv, Lives
    <3> QED
      BY <3>2, <3>3 DEF IfaThread, IfaRead
  <2>4. up[b] \/ b # master_node_id
    <3>1. ifa[b] # None => b # master_node_id
      BY MasterCases DEF LockInv
    <3> QED
      BY <3>1 DEF IfaThread, IfaRead, IfaStray, RecoverRead, RecoverFail, RecoverWrite, IfaApply
  <2> QED
    BY <1>2, <2>3, <2>4, DieLockstep
<1> QED
  BY <1>1, <1>2

LEMMA InitLockstep == Init => LockInv
<1> SUFFICES ASSUME Init PROVE LockInv
  OBVIOUS
<1>1. RolesInv
  BY InitRoles
<1>2. /\ \A b \in Node : OnWire(b) = <<>> /\ ifa[b] = None
      /\ Hand = None /\ admin[master_node_id] = AdminWaits
  <2>1. master_node_id \in Node
    BY <1>1, MasterCases
  <2> QED
    BY <2>1 DEF Init, OnWire, Hand, AdminWaits
<1>3. \A b \in Node : ~Behind(b)
  BY <1>2 DEF Behind, AdminWaits, Range
<1>4. \A b \in Node : /\ smr_log[b] = <<>> /\ last_index[b] = -1 /\ committed_index[b] = -1
                      /\ \A p \in Node : socket[p][b] = "closed" /\ reply[p][b] = None
                      /\ recheck_allow[b]
  BY DEF Init
<1>5. Connected /\ InHand /\ Replies
  BY <1>2, <1>4, MasterCases, <1>1 DEF Connected, InHand, Replies, AdminWaits
<1>6. LogsTidy
  <2>1. Len(<<>>) = -1 + 1
    OBVIOUS
  <2> QED
    BY <1>2, <1>4, <2>1 DEF LogsTidy, Tidy
<1>7. Lagging /\ InStep
  BY <1>2, <1>3, <1>4 DEF Lagging, InStep
<1> QED
  BY <1>1, <1>5, <1>6, <1>7 DEF LockInv, Lockstep

\* What is assumed of crashes and restarts.  A server is started again only after
\* its death was noticed; by then its peers have read what it sent, or a backup would
\* mix the requests of two primaries; and a primary that is cut off in the middle of
\* sending a request leaves no two backups of which only one has it
\* (RecoveryMisaligned shows what happens otherwise).
Graceful ==
    /\ ~PromptRestart
    /\ ~SlowReaders
    /\ MidBroadcast => \A a, b, c \in Node : a = b \/ b = c \/ a = c

LEMMA NextLock ==
    ASSUME LockInv, [Next]_vars, Graceful
    PROVE  LockInv'
<1>1. RolesInv'
  BY NextRoles DEF LockInv, Graceful
<1>2. ASSUME NEW c \in Customer,
             Connect(c) \/ PlaceOrder(c) \/ Ship(c) \/ Hangup(c) \/ Finish(c)
      PROVE  LockInv'
  BY <1>1, <1>2, ConnectLockstep, QuietLockstep
<1>3. ASSUME NEW n \in Node, CloseReader(n) \/ Restart(n) \/ HeartBeat(n)
      PROVE  LockInv'
  BY <1>1, <1>3, QuietLockstep
<1>4. ASSUME NEW n \in Node, Crash(n) PROVE LockInv'
  <2>1. Die(n, wal[n]) /\ up[n] /\ (MidBroadcast \/ ~Broadcasting(n))
    BY <1>4 DEF Crash
  <2>2. CASE n = master_node_id /\ hb_conn[n]
    BY <1>1, <2>1, <2>2, MasterDiesLockstep DEF Graceful
  <2>3. CASE ~(n = master_node_id /\ hb_conn[n])
    BY <1>1, <2>1, <2>3, DieLockstep
  <2> QED
    BY <2>2, <2>3
<1>5. ASSUME NEW n \in Node, AdminThread(n) PROVE LockInv'
  BY <1>1, <1>5, RecheckLockstep, TakeLockstep, PassLockstep, SendLockstep, AckLockstep,
     CommitLockstep DEF AdminThread
<1>6. ASSUME NEW n \in Node, IfaThread(n) PROVE LockInv'
  BY <1>1, <1>6, IfaLockstep
<1>7. CASE UNCHANGED vars
  <2>1. /\ Hand' = Hand
        /\ \A b \in Node : /\ OnWire(b)' = OnWire(b) /\ (Behind(b)' <=> Behind(b))
                           /\ (Asked(b)' <=> Asked(b))
    BY <1>7 DEF vars, logVars, threadVars, netVars, lbVars, Hand, OnWire, Behind, Asked
  <2> QED
    BY <1>1, <1>7, <2>1, LockstepStays DEF vars, logVars, threadVars, netVars, lbVars
<1> QED
  BY <1>2, <1>3, <1>4, <1>5, <1>6, <1>7 DEF Next

=============================================================================
