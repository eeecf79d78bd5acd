------------------------- MODULE LoadBalancerProofs -------------------------
(***************************************************************************)
(* What holds of the load balancer for any number of servers, sessions and *)
(* restarts: type correctness, one master at a time, no way back for a     *)
(* server that was replaced, and no session turned away without need.      *)
(***************************************************************************)
EXTENDS LoadBalancer, WellFoundedInduction, TLAPS

\* A connection that reaches a server.
Reaches(conn) == conn # Null /\ conn.link = "open"

\* The heartbeat: unhealthy servers are those whose connection is given up, and
\* a healthy server whose connection is not open has really died.
HealthInv ==
    /\ heartbeat = Null => \A n \in Node : node_health[n]
    /\ \A n \in Node : ~node_health[n] => hb_worker_node_array[n] = "dead"
    /\ heartbeat # Null =>
          \A n \in Node : node_health[n] /\ hb_worker_node_array[n] # "open" => ~up[n]

\* The master: every server before it was found dead, and a session that is
\* about to connect to it finds it healthy or dead.
MasterInv ==
    /\ \A n \in Node : n < master_node_id => ~node_health[n]
    /\ \A s \in Session : pc[s] = "connect" =>
          node_health[master_node_id] \/ ~up[master_node_id]

\* A session's connection for orders reaches nothing but the current master,
\* while that is healthy and up.
ConnInv ==
    \A s \in Session : Reaches(master_node[s]) =>
        /\ master_node[s].node = master_node_id
        /\ node_health[master_node_id]
        /\ up[master_node_id]

\* Who has no master, or was told so, had no server to choose.
NegativeInv ==
    \A s \in Session :
        /\ answer[s] = "negative" => Healthy = {}
        /\ pc[s] \in {"worker", "serve"} /\ master_node[s] = Null => Healthy = {}

\* A session that serves its customer has a worker node.
WorkerInv == \A s \in Session : pc[s] = "serve" => cs[s] # Null

IInv == TypeOK /\ HealthInv /\ MasterInv /\ ConnInv /\ NegativeInv /\ WorkerInv

-----------------------------------------------------------------------------
(***************************************************************************)
(* Helpers.                                                                *)
(***************************************************************************)

LEMMA NodeIsNat == Node \subseteq Nat /\ 0 \in Node
BY SizeAssumption DEF Node

\* The first of some servers.
LEMMA FirstIsLeast ==
    ASSUME NEW S \in SUBSET Node, S # {}
    PROVE  First(S) \in S /\ \A m \in S : First(S) <= m
<1>1. S \in SUBSET Nat
  BY NodeIsNat
<1>2. PICK n \in S : \A m \in S : ~ (<<m, n>> \in OpToRel(<, Nat))
  BY <1>1, NatLessThanWellFounded, WFMin
<1>3. \A m \in S : ~ (m < n)
  BY <1>1, <1>2 DEF OpToRel
<1>4. \E k \in S : \A m \in S : k <= m
  BY <1>1, <1>3
<1> QED
  BY <1>4 DEF First

\* The server get_master_node chooses: healthy, and with no healthy one before it.
LEMMA FirstHealthy ==
    ASSUME Healthy # {}
    PROVE  /\ First(Healthy) \in Node
           /\ node_health[First(Healthy)]
           /\ \A n \in Node : n < First(Healthy) => ~node_health[n]
<1>1. Healthy \in SUBSET Node
  BY DEF Healthy
<1>2. First(Healthy) \in Healthy /\ \A m \in Healthy : First(Healthy) <= m
  BY <1>1, FirstIsLeast
<1>3. ASSUME NEW n \in Node, n < First(Healthy), node_health[n]
      PROVE  FALSE
  <2>1. n \in Healthy
    BY <1>3 DEF Healthy
  <2>2. First(Healthy) \in Nat /\ n \in Nat
    BY <1>1, <1>2, NodeIsNat
  <2>3. First(Healthy) <= n
    BY <1>2, <2>1
  <2> QED
    BY <1>3, <2>2, <2>3
<1> QED
  BY <1>2, <1>3 DEF Healthy

LEMMA ConnectedType ==
    ASSUME NEW n \in Node
    PROVE  /\ Connected(n) \in Conn /\ Connected(n) # Null
           /\ Connected(n).node = n
           /\ Connected(n).link = "open" <=> up[n]
<1>1. Connected(n) \in Conn
  BY DEF Connected, Conn, Link
<1> QED
  BY <1>1, NullAssumption DEF Connected

LEMMA AfterUseType ==
    ASSUME NEW conn \in Conn
    PROVE  /\ AfterUse(conn) \in Conn /\ AfterUse(conn) # Null
           /\ AfterUse(conn).node = conn.node
           /\ AfterUse(conn).link = "open" <=> conn.link = "open"
<1>1. AfterUse(conn) \in Conn
  BY DEF AfterUse, Conn, Link
<1> QED
  BY <1>1, NullAssumption DEF AfterUse, Conn, Link

LEMMA CutType ==
    ASSUME NEW conn \in Conn \cup {Null}, NEW n \in Node
    PROVE  /\ Cut(conn, n) \in Conn \cup {Null}
           /\ Cut(conn, n) = Null <=> conn = Null
           /\ Reaches(Cut(conn, n)) => Reaches(conn) /\ conn.node # n /\ Cut(conn, n) = conn
<1>1. CASE conn # Null /\ conn.node = n /\ conn.link = "open"
  <2>1. Cut(conn, n) = [conn EXCEPT !.link = "cut"] /\ conn \in Conn
    BY <1>1 DEF Cut
  <2>2. Cut(conn, n) \in Conn /\ Cut(conn, n).link = "cut"
    BY <2>1 DEF Conn, Link
  <2> QED
    BY <1>1, <2>2, NullAssumption DEF Reaches
<1>2. CASE ~ (conn # Null /\ conn.node = n /\ conn.link = "open")
  BY <1>2 DEF Cut, Reaches
<1> QED
  BY <1>1, <1>2

-----------------------------------------------------------------------------
(***************************************************************************)
(* The inductive invariant: one lemma per action.                          *)
(***************************************************************************)

LEMMA InitIInv == Init => IInv
<1> SUFFICES ASSUME Init PROVE IInv
  OBVIOUS
<1>1. TypeOK
  BY NodeIsNat, MaxRestartAssumption DEF Init, TypeOK, Link
<1>2. HealthInv /\ MasterInv
  BY NodeIsNat DEF Init, HealthInv, MasterInv
<1>3. ConnInv /\ NegativeInv /\ WorkerInv
  BY DEF Init, ConnInv, NegativeInv, WorkerInv, Reaches
<1> QED
  BY <1>1, <1>2, <1>3 DEF IInv

LEMMA GetMasterKeeps ==
    ASSUME IInv, NEW s \in Session, GetMaster(s)
    PROVE  IInv'
<1>1. /\ pc[s] = "new"
      /\ UNCHANGED <<up, restarts, heartbeat, hb_worker_node_array, node_health,
                     current_worker_node, cs, answer, balancer>>
  BY DEF GetMaster, nodeVars, hbVars
<1>2. HealthInv' /\ Healthy' = Healthy
  BY <1>1 DEF IInv, HealthInv, Healthy
<1>3. CASE node_health[master_node_id]
  <2>1. pc' = [pc EXCEPT ![s] = "connect"] /\ UNCHANGED <<master_node_id, master_node>>
    BY <1>3 DEF GetMaster
  <2>2. TypeOK' /\ WorkerInv'
    BY <1>1, <2>1 DEF IInv, TypeOK, WorkerInv
  <2>3. MasterInv' /\ ConnInv'
    BY <1>1, <1>3, <2>1 DEF IInv, TypeOK, MasterInv, ConnInv, Reaches
  <2>4. NegativeInv'
    BY <1>1, <1>2, <2>1 DEF IInv, TypeOK, NegativeInv
  <2> QED
    BY <1>2, <2>2, <2>3, <2>4 DEF IInv
<1>4. CASE ~node_health[master_node_id] /\ Healthy = {}
  <2>1. pc' = [pc EXCEPT ![s] = "worker"] /\ UNCHANGED <<master_node_id, master_node>>
    BY <1>4 DEF GetMaster
  <2>2. TypeOK' /\ WorkerInv'
    BY <1>1, <2>1 DEF IInv, TypeOK, WorkerInv
  <2>3. MasterInv' /\ ConnInv'
    BY <1>1, <2>1 DEF IInv, TypeOK, MasterInv, ConnInv, Reaches
  <2>4. NegativeInv'
    BY <1>1, <1>2, <1>4, <2>1 DEF IInv, TypeOK, NegativeInv
  <2> QED
    BY <1>2, <2>2, <2>3, <2>4 DEF IInv
<1>5. CASE ~node_health[master_node_id] /\ Healthy # {}
  <2> DEFINE n == First(Healthy)
             conn == Connected(n)
  <2>1. /\ n \in Node /\ node_health[n]
        /\ \A m \in Node : m < n => ~node_health[m]
    BY <1>5, FirstHealthy
  <2>2. /\ conn \in Conn /\ conn # Null /\ conn.node = n
        /\ conn.link = "open" <=> up[n]
    BY <2>1, ConnectedType
  <2> HIDE DEF n, conn
  <2>3. /\ pc' = [pc EXCEPT ![s] = "worker"]
        /\ master_node_id' = n
        /\ master_node' = [master_node EXCEPT ![s] = conn]
    BY <1>5 DEF GetMaster, n, conn
  <2>4. TypeOK' /\ WorkerInv'
    BY <1>1, <2>1, <2>2, <2>3 DEF IInv, TypeOK, WorkerInv
  <2>5. MasterInv'
    BY <1>1, <2>1, <2>3 DEF IInv, TypeOK, MasterInv
  <2>6. \A t \in Session : ~Reaches(master_node[t])
    BY <1>5 DEF IInv, ConnInv
  <2>7. ConnInv'
    BY <1>1, <2>1, <2>2, <2>3, <2>6 DEF IInv, TypeOK, ConnInv, Reaches
  <2>8. NegativeInv'
    BY <1>1, <1>2, <2>2, <2>3 DEF IInv, TypeOK, NegativeInv
  <2> QED
    BY <1>2, <2>4, <2>5, <2>7, <2>8 DEF IInv
<1> QED
  BY <1>3, <1>4, <1>5

\* The second read of master_node_id finds the current master all the same.
LEMMA ConnectMasterKeeps ==
    ASSUME IInv, NEW s \in Session, ConnectMaster(s)
    PROVE  IInv'
<1> DEFINE conn == Connected(master_node_id)
<1>1. /\ conn \in Conn /\ conn # Null /\ conn.node = master_node_id
      /\ conn.link = "open" <=> up[master_node_id]
  BY ConnectedType DEF IInv, TypeOK
<1> HIDE DEF conn
<1>2. /\ pc[s] = "connect"
      /\ pc' = [pc EXCEPT ![s] = "worker"]
      /\ master_node' = [master_node EXCEPT ![s] = conn]
      /\ UNCHANGED <<up, restarts, heartbeat, hb_worker_node_array, node_health,
                     master_node_id, current_worker_node, cs, answer, balancer>>
  BY DEF ConnectMaster, nodeVars, hbVars, choiceVars, conn
<1>3. TypeOK' /\ WorkerInv'
  BY <1>1, <1>2 DEF IInv, TypeOK, WorkerInv
<1>4. HealthInv' /\ MasterInv' /\ Healthy' = Healthy
  BY <1>2 DEF IInv, TypeOK, HealthInv, MasterInv, Healthy
<1>5. ConnInv'
  BY <1>1, <1>2 DEF IInv, TypeOK, MasterInv, ConnInv, Reaches
<1>6. NegativeInv'
  BY <1>1, <1>2, <1>4 DEF IInv, TypeOK, NegativeInv
<1> QED
  BY <1>3, <1>4, <1>5, <1>6 DEF IInv

LEMMA PickWorkerKeeps ==
    ASSUME IInv, NEW s \in Session, PickWorker(s)
    PROVE  IInv'
<1>1. /\ pc[s] = "worker"
      /\ UNCHANGED <<up, restarts, heartbeat, hb_worker_node_array, node_health,
                     master_node_id, master_node>>
  BY DEF PickWorker, nodeVars, hbVars
<1>2. /\ NextWorker(current_worker_node) \in Node
      /\ Connected(current_worker_node) \in Conn /\ Connected(current_worker_node) # Null
      /\ Connected(0) \in Conn /\ Connected(0) # Null
  BY NodeIsNat, SizeAssumption, ConnectedType DEF IInv, TypeOK, NextWorker, Node
<1>3. /\ current_worker_node' \in Node
      /\ cs' \in [Session -> Conn \cup {Null}]
      /\ balancer' \in BOOLEAN
      /\ cs' = cs \/ (cs'[s] # Null /\ cs' = [cs EXCEPT ![s] = cs'[s]])
      /\ \/ pc' = [pc EXCEPT ![s] = "serve"] /\ answer' = answer /\ cs'[s] # Null
         \/ pc' = pc /\ answer' = answer
         \/ /\ pc' = [pc EXCEPT ![s] = "refused"] /\ Healthy = {}
            /\ answer' = [answer EXCEPT ![s] = "negative"]
  <2>1. cs \in [Session -> Conn \cup {Null}]
    BY DEF IInv, TypeOK
  <2>2. current_worker_node' \in Node /\ balancer' \in BOOLEAN
    BY <1>2 DEF PickWorker, IInv, TypeOK
  <2>3. cs' = cs \/ \E conn \in Conn : conn # Null /\ cs' = [cs EXCEPT ![s] = conn]
    BY <1>2 DEF PickWorker
  <2>4. /\ cs' \in [Session -> Conn \cup {Null}]
        /\ cs' = cs \/ (cs'[s] # Null /\ cs' = [cs EXCEPT ![s] = cs'[s]])
    BY <2>1, <2>3
  <2>5. \/ pc' = [pc EXCEPT ![s] = "serve"] /\ answer' = answer /\ cs'[s] # Null
        \/ pc' = pc /\ answer' = answer
        \/ /\ pc' = [pc EXCEPT ![s] = "refused"] /\ Healthy = {}
           /\ answer' = [answer EXCEPT ![s] = "negative"]
    BY <1>2, <2>1 DEF PickWorker
  <2> QED
    BY <2>2, <2>4, <2>5
<1>4. TypeOK' /\ WorkerInv'
  BY <1>1, <1>3 DEF IInv, TypeOK, WorkerInv
<1>5. HealthInv' /\ Healthy' = Healthy
  BY <1>1 DEF IInv, HealthInv, Healthy
<1>6. MasterInv' /\ ConnInv'
  BY <1>1, <1>3 DEF IInv, TypeOK, MasterInv, ConnInv, Reaches
<1>7. NegativeInv'
  BY <1>1, <1>3, <1>5 DEF IInv, TypeOK, NegativeInv
<1> QED
  BY <1>4, <1>5, <1>6, <1>7 DEF IInv

LEMMA OrderKeeps ==
    ASSUME IInv, NEW s \in Session, Order(s)
    PROVE  IInv'
<1>1. /\ pc[s] = "serve"
      /\ UNCHANGED <<up, restarts, heartbeat, hb_worker_node_array, node_health,
                     master_node_id, current_worker_node, pc, cs, balancer>>
  BY DEF Order, nodeVars, hbVars, choiceVars
<1>2. HealthInv' /\ MasterInv' /\ WorkerInv' /\ Healthy' = Healthy
  BY <1>1 DEF IInv, HealthInv, MasterInv, WorkerInv, Healthy
<1>3. CASE master_node[s] = Null
  <2>1. answer' = [answer EXCEPT ![s] = "negative"] /\ master_node' = master_node
    BY <1>3 DEF Order
  <2>2. TypeOK'
    BY <1>1, <2>1 DEF IInv, TypeOK
  <2>3. ConnInv'
    BY <1>1, <2>1 DEF IInv, ConnInv, Reaches
  <2>4. NegativeInv'
    BY <1>1, <1>2, <1>3, <2>1 DEF IInv, TypeOK, NegativeInv
  <2> QED
    BY <1>2, <2>2, <2>3, <2>4 DEF IInv
<1>4. CASE master_node[s] # Null
  <2> DEFINE conn == AfterUse(master_node[s])
             got == AnswerOn(master_node[s])
  <2>1. /\ conn \in Conn /\ conn # Null /\ conn.node = master_node[s].node
        /\ conn.link = "open" <=> master_node[s].link = "open"
    BY <1>4, AfterUseType DEF IInv, TypeOK
  <2>2. got \in {"fine", "garbage"}
    BY DEF AnswerOn
  <2>3. answer' = [answer EXCEPT ![s] = got] /\ master_node' = [master_node EXCEPT ![s] = conn]
    BY <1>4 DEF Order, IInv, TypeOK
  <2> HIDE DEF conn, got
  <2>4. TypeOK'
    BY <1>1, <2>1, <2>2, <2>3 DEF IInv, TypeOK
  <2>5. ConnInv'
    BY <1>1, <1>4, <2>1, <2>3 DEF IInv, TypeOK, ConnInv, Reaches
  <2>6. NegativeInv'
    BY <1>1, <1>2, <2>1, <2>2, <2>3 DEF IInv, TypeOK, NegativeInv
  <2> QED
    BY <1>2, <2>4, <2>5, <2>6 DEF IInv
<1> QED
  BY <1>3, <1>4

LEMMA ReadKeeps ==
    ASSUME IInv, NEW s \in Session, Read(s)
    PROVE  IInv'
<1> DEFINE got == AnswerOn(cs[s])
<1>1. got \in {"fine", "garbage"}
  BY DEF AnswerOn
<1>2. /\ pc[s] = "serve"
      /\ answer' = [answer EXCEPT ![s] = got]
      /\ cs' = [cs EXCEPT ![s] = AfterUse(cs[s])]
      /\ UNCHANGED <<up, restarts, heartbeat, hb_worker_node_array, node_health,
                     master_node_id, current_worker_node, pc, master_node, balancer>>
  BY DEF Read, nodeVars, hbVars, choiceVars
<1> HIDE DEF got
<1>3. AfterUse(cs[s]) \in Conn /\ AfterUse(cs[s]) # Null
  BY <1>2, AfterUseType DEF IInv, TypeOK, WorkerInv
<1>4. TypeOK' /\ WorkerInv'
  BY <1>1, <1>2, <1>3 DEF IInv, TypeOK, WorkerInv
<1>5. HealthInv' /\ MasterInv' /\ ConnInv' /\ Healthy' = Healthy
  BY <1>2 DEF IInv, HealthInv, MasterInv, ConnInv, Reaches, Healthy
<1>6. NegativeInv'
  BY <1>1, <1>2, <1>5 DEF IInv, TypeOK, NegativeInv
<1> QED
  BY <1>4, <1>5, <1>6 DEF IInv

LEMMA LeaveKeeps ==
    ASSUME IInv, NEW s \in Session, Leave(s)
    PROVE  IInv'
<1>1. /\ pc' = [pc EXCEPT ![s] = "new"]
      /\ master_node' = [master_node EXCEPT ![s] = Null]
      /\ cs' = [cs EXCEPT ![s] = Null]
      /\ balancer' = (master_node[s] # Null)
      /\ answer' = [answer EXCEPT ![s] = "fine"]
      /\ UNCHANGED <<up, restarts, heartbeat, hb_worker_node_array, node_health,
                     master_node_id, current_worker_node>>
  BY DEF Leave, nodeVars, hbVars, choiceVars
<1>2. balancer' \in BOOLEAN
  BY <1>1
<1>3. TypeOK' /\ WorkerInv'
  BY <1>1, <1>2 DEF IInv, TypeOK, WorkerInv
<1>4. HealthInv' /\ MasterInv' /\ Healthy' = Healthy
  BY <1>1 DEF IInv, TypeOK, HealthInv, MasterInv, Healthy
<1>5. ConnInv' /\ NegativeInv'
  BY <1>1, <1>4 DEF IInv, TypeOK, ConnInv, NegativeInv, Reaches
<1> QED
  BY <1>3, <1>4, <1>5 DEF IInv

LEMMA HeartBeatInitKeeps ==
    ASSUME IInv, HeartBeatInit
    PROVE  IInv'
<1>1. /\ heartbeat = Null /\ heartbeat' = 0
      /\ hb_worker_node_array' = [n \in Node |-> IF up[n] THEN "open" ELSE "dead"]
      /\ node_health' = [n \in Node |-> TRUE]
      /\ UNCHANGED <<up, restarts, master_node_id, current_worker_node, pc, master_node,
                     cs, answer, balancer>>
  BY DEF HeartBeatInit, nodeVars, choiceVars, sessionVars
<1>2. \A n \in Node : node_health[n]
  BY <1>1 DEF IInv, HealthInv
<1>3. Healthy' = Healthy
  BY <1>1, <1>2 DEF Healthy
<1>4. TypeOK'
  BY <1>1, NodeIsNat DEF IInv, TypeOK, Link
<1>5. HealthInv'
  BY <1>1, NodeIsNat, NullAssumption DEF HealthInv
<1>6. MasterInv' /\ ConnInv'
  BY <1>1, <1>2 DEF IInv, TypeOK, MasterInv, ConnInv, Reaches
<1>7. NegativeInv' /\ WorkerInv'
  BY <1>1, <1>3 DEF IInv, NegativeInv, WorkerInv
<1> QED
  BY <1>4, <1>5, <1>6, <1>7 DEF IInv

\* An unhealthy server stays so: its connection is dead.
LEMMA HeartBeatKeeps ==
    ASSUME IInv, HeartBeat
    PROVE  /\ IInv'
           /\ \A n \in Node : ~node_health[n] => ~node_health'[n]
<1>1. /\ heartbeat \in Node /\ heartbeat # Null
      /\ UNCHANGED <<up, restarts, master_node_id, current_worker_node, pc, master_node,
                     cs, answer, balancer>>
  BY DEF IInv, TypeOK, HeartBeat, nodeVars, choiceVars, sessionVars
<1>2. PICK healthy \in Health(heartbeat) :
          node_health' = [node_health EXCEPT ![heartbeat] = healthy]
  BY DEF HeartBeat
<1>3. hb_worker_node_array' = [hb_worker_node_array EXCEPT ![heartbeat] =
          IF hb_worker_node_array[heartbeat] = "cut" THEN "dead"
          ELSE hb_worker_node_array[heartbeat]]
  BY DEF HeartBeat
<1>4. heartbeat' \in Node
  BY <1>1, SizeAssumption DEF HeartBeat, Node
<1>5. /\ healthy \in BOOLEAN
      /\ hb_worker_node_array[heartbeat] = "open" => healthy
      /\ hb_worker_node_array[heartbeat] = "dead" => ~healthy
  BY <1>1, <1>2 DEF Health, IInv, TypeOK, Link
<1>6. \A n \in Node : ~node_health[n] => ~node_health'[n]
  BY <1>1, <1>2, <1>5 DEF IInv, TypeOK, HealthInv
<1>7. Healthy = {} => Healthy' = {}
  BY <1>6 DEF Healthy
<1>8. TypeOK'
  BY <1>1, <1>2, <1>3, <1>4, <1>5 DEF IInv, TypeOK, Link
<1>9. HealthInv'
  <2>1. heartbeat' # Null
    BY <1>4, NullAssumption
  <2>2. ASSUME NEW n \in Node
        PROVE  /\ ~node_health'[n] => hb_worker_node_array'[n] = "dead"
               /\ node_health'[n] /\ hb_worker_node_array'[n] # "open" => ~up'[n]
    BY <1>1, <1>2, <1>3, <1>5 DEF IInv, TypeOK, HealthInv, Link
  <2> QED
    BY <2>1, <2>2 DEF HealthInv
<1>10. \A n \in Node : node_health[n] /\ ~node_health'[n] => ~up[n]
  BY <1>1, <1>2, <1>5 DEF IInv, TypeOK, HealthInv
<1>11. MasterInv'
  BY <1>1, <1>6, <1>10 DEF IInv, TypeOK, MasterInv
<1>12. ConnInv'
  BY <1>1, <1>2, <1>5, <1>10 DEF IInv, TypeOK, ConnInv, Reaches
<1>13. NegativeInv' /\ WorkerInv'
  BY <1>1, <1>7 DEF IInv, NegativeInv, WorkerInv
<1> QED
  BY <1>6, <1>8, <1>9, <1>11, <1>12, <1>13 DEF IInv

LEMMA NodeDiesKeeps ==
    ASSUME IInv, NEW n \in Node, NodeDies(n)
    PROVE  IInv'
<1>1. /\ up' = [up EXCEPT ![n] = FALSE]
      /\ hb_worker_node_array' = [hb_worker_node_array EXCEPT ![n] =
             IF hb_worker_node_array[n] = "open" THEN "cut" ELSE hb_worker_node_array[n]]
      /\ master_node' = [s \in Session |-> Cut(master_node[s], n)]
      /\ cs' = [s \in Session |-> Cut(cs[s], n)]
      /\ UNCHANGED <<restarts, heartbeat, node_health, master_node_id,
                     current_worker_node, pc, answer, balancer>>
  BY DEF NodeDies, choiceVars
<1>2. ASSUME NEW s \in Session
      PROVE  /\ master_node'[s] \in Conn \cup {Null}
             /\ cs'[s] \in Conn \cup {Null}
             /\ master_node'[s] = Null <=> master_node[s] = Null
             /\ cs'[s] = Null <=> cs[s] = Null
             /\ Reaches(master_node'[s]) =>
                    /\ Reaches(master_node[s])
                    /\ master_node[s].node # n
                    /\ master_node'[s] = master_node[s]
  BY <1>1, CutType DEF IInv, TypeOK
<1>3. TypeOK'
  BY <1>1, <1>2 DEF IInv, TypeOK, Link
<1>4. HealthInv' /\ Healthy' = Healthy
  BY <1>1 DEF IInv, TypeOK, HealthInv, Link, Healthy
<1>5. MasterInv'
  BY <1>1 DEF IInv, TypeOK, MasterInv
<1>6. ConnInv'
  BY <1>1, <1>2 DEF IInv, TypeOK, ConnInv
<1>7. NegativeInv' /\ WorkerInv'
  BY <1>1, <1>2, <1>4 DEF IInv, NegativeInv, WorkerInv
<1> QED
  BY <1>3, <1>4, <1>5, <1>6, <1>7 DEF IInv

LEMMA NodeRestartsKeeps ==
    ASSUME IInv, NEW n \in Node, NodeRestarts(n)
    PROVE  IInv'
<1>1. /\ ~up[n] /\ ~node_health[n]
      /\ \A s \in Session : pc[s] # "connect"
      /\ restarts < MaxRestart /\ restarts' = restarts + 1
      /\ up' = [up EXCEPT ![n] = TRUE]
      /\ UNCHANGED <<heartbeat, hb_worker_node_array, node_health, master_node_id,
                     current_worker_node, pc, master_node, cs, answer, balancer>>
  BY DEF NodeRestarts, hbVars, choiceVars, sessionVars
<1>2. restarts' \in 0 .. MaxRestart
  BY <1>1, MaxRestartAssumption DEF IInv, TypeOK
<1>3. TypeOK'
  BY <1>1, <1>2 DEF IInv, TypeOK
<1>4. HealthInv' /\ Healthy' = Healthy
  BY <1>1 DEF IInv, TypeOK, HealthInv, Healthy
<1>5. MasterInv' /\ ConnInv'
  BY <1>1 DEF IInv, TypeOK, MasterInv, ConnInv, Reaches
<1>6. NegativeInv' /\ WorkerInv'
  BY <1>1, <1>4 DEF IInv, NegativeInv, WorkerInv
<1> QED
  BY <1>3, <1>4, <1>5, <1>6 DEF IInv

LEMMA NextIInv == IInv /\ [Next]_vars => IInv'
<1> SUFFICES ASSUME IInv, [Next]_vars PROVE IInv'
  OBVIOUS
<1>1. CASE \E s \in Session : GetMaster(s)
  BY <1>1, GetMasterKeeps
<1>2. CASE \E s \in Session : ConnectMaster(s)
  BY <1>2, ConnectMasterKeeps
<1>3. CASE \E s \in Session : PickWorker(s)
  BY <1>3, PickWorkerKeeps
<1>4. CASE \E s \in Session : Order(s)
  BY <1>4, OrderKeeps
<1>5. CASE \E s \in Session : Read(s)
  BY <1>5, ReadKeeps
<1>6. CASE \E s \in Session : Leave(s)
  BY <1>6, LeaveKeeps
<1>7. CASE HeartBeatInit
  BY <1>7, HeartBeatInitKeeps
<1>8. CASE HeartBeat
  BY <1>8, HeartBeatKeeps
<1>9. CASE \E n \in Node : NodeDies(n)
  BY <1>9, NodeDiesKeeps
<1>10. CASE \E n \in Node : NodeRestarts(n)
  BY <1>10, NodeRestartsKeeps
<1>11. CASE UNCHANGED vars
  BY <1>11 DEF vars, nodeVars, hbVars, choiceVars, sessionVars, IInv, TypeOK, HealthInv,
               MasterInv, ConnInv, NegativeInv, WorkerInv, Reaches, Healthy
<1> QED
  BY <1>1, <1>2, <1>3, <1>4, <1>5, <1>6, <1>7, <1>8, <1>9, <1>10, <1>11 DEF Next

\* The invariant holds in every reachable state.
THEOREM Invariance == Spec => []IInv
<1> QED
  BY InitIInv, NextIInv, PTL DEF Spec

-----------------------------------------------------------------------------
(***************************************************************************)
(* What the invariant says.                                                *)
(***************************************************************************)

\* Every variable keeps its type, for any number of servers and sessions.
THEOREM TypesHold == Spec => []TypeOK
<1>1. IInv => TypeOK
  BY DEF IInv
<1> QED
  BY <1>1, Invariance, PTL

\* Two sessions whose orders reach a server reach the same one, for any number
\* of servers, sessions and deaths, and of restarts after the death was noticed
\* (ServerThread.cpp:33-57).
THEOREM OneMasterAtATime == Spec => []OneMaster
<1>1. IInv => OneMaster
  BY DEF IInv, ConnInv, OneMaster, Ordering, Reaches
<1> QED
  BY <1>1, Invariance, PTL

\* A customer is refused only when every server was found dead
\* (ServerThread.cpp:88-94, 121-127).
THEOREM RefusalsAreHonest == Spec => []NegativeIsHonest
<1>1. IInv => NegativeIsHonest
  BY DEF IInv, NegativeInv, NegativeIsHonest, Healthy
<1> QED
  BY <1>1, Invariance, PTL

\* The master only moves on: a session that replaces it finds every server up
\* to the old one unhealthy.
LEMMA MasterMovesOn == IInv /\ [Next]_vars => master_node_id <= master_node_id'
<1> SUFFICES ASSUME IInv, [Next]_vars PROVE master_node_id <= master_node_id'
  OBVIOUS
<1>1. master_node_id \in Node /\ master_node_id \in Nat
  BY NodeIsNat DEF IInv, TypeOK
<1>2. ASSUME NEW s \in Session, GetMaster(s)
      PROVE  master_node_id <= master_node_id'
  <2>1. CASE master_node_id' = master_node_id
    BY <1>1, <2>1
  <2>2. CASE master_node_id' # master_node_id
    <3>1. /\ ~node_health[master_node_id] /\ Healthy # {}
          /\ master_node_id' = First(Healthy)
      BY <1>2, <2>2 DEF GetMaster
    <3>2. master_node_id' \in Node /\ node_health[master_node_id'] /\ master_node_id' \in Nat
      BY <3>1, FirstHealthy, NodeIsNat
    <3>3. ~ (master_node_id' < master_node_id)
      BY <3>2 DEF IInv, MasterInv
    <3> QED
      BY <1>1, <3>2, <3>3
  <2> QED
    BY <2>1, <2>2
<1>3. ASSUME ~ (\E s \in Session : GetMaster(s))
      PROVE  master_node_id' = master_node_id
  BY <1>3 DEF Next, ConnectMaster, PickWorker, Order, Read, Leave, HeartBeatInit, HeartBeat,
              NodeDies, NodeRestarts, choiceVars, vars
<1> QED
  BY <1>1, <1>2, <1>3

\* A server that was replaced never becomes master again (ServerThread.cpp:36-46).
THEOREM NoWayBack == Spec => MasterNeverReturns
<1>1. IInv /\ [Next]_vars => [master_node_id <= master_node_id']_vars
  BY MasterMovesOn
<1> QED
  BY <1>1, Invariance, PTL DEF Spec, MasterNeverReturns

=============================================================================
