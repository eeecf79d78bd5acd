---------------------------- MODULE ClientProofs ----------------------------
(***************************************************************************)
(* What holds of the client program and the load balancer together for any *)
(* number of servers, customers and orders: the load balancer behaves as   *)
(* LoadBalancer says, so that all that is proved there holds here; answers *)
(* stay in step with requests; a connection that has failed is of no use   *)
(* any more; and what is printed at the end is what was measured.          *)
(***************************************************************************)
EXTENDS Client, LoadBalancerProofs, SequenceTheorems, FiniteSetTheorems

\* What may come to a customer, with the number of an order.
Told == [what : {"fine", "garbage", "negative", "nothing", "error"}, number : Nat]

Types ==
    /\ main \in [pc : {"spawn", "join", "merge", "done"}, i : Nat]
    /\ thread \in [Session -> {"none", "connect", "send", "recv", "done"}]
    /\ request \in [Session -> Seq(Nat)]
    /\ reply \in [Session -> Seq(Told)]
    /\ results \in [Session -> Seq(Told)]

\* The connection to a server that the requests of c use.
InUse(c) == IF request_type = 1 THEN master_node[c] ELSE cs[c]

\* No robot and no record will come to c any more.
Broken(c) ==
    \/ ~balancer
    \/ pc[c] = "refused"
    \/ thread[c] = "done"
    \/ pc[c] = "serve" /\ ~Reaches(InUse(c))

\* Where the one request of c is, or its answer: a thread that waits for an
\* answer has one on its way, unless the load balancer has died.
InStep(c) ==
    /\ pc[c] # "refused" =>
          /\ \/ reply[c] = <<>>
             \/ thread[c] = "recv" /\ request[c] = <<>> /\ Len(reply[c]) = 1
          /\ \/ request[c] = <<>>
             \/ /\ Len(request[c]) = 1
                /\ balancer => thread[c] = "recv" /\ request[c][1] = Len(results[c]) + 1
    /\ pc[c] \in {"new", "connect", "worker"} => reply[c] = <<>>
    /\ \A k \in 1 .. Len(reply[c]) : reply[c][k].what = "fine" =>
          pc[c] # "refused" /\ reply[c][k].number = Len(results[c]) + 1
    /\ \A i \in 1 .. Len(results[c]) : results[c][i].what = "fine" => results[c][i].number = i

\* What a failure says about what comes after it.
Final(c) ==
    /\ \A k \in 1 .. Len(reply[c]) : reply[c][k].what # "fine" => Broken(c)
    /\ \A i \in 1 .. Len(results[c]) : results[c][i].what # "fine" =>
          /\ Broken(c)
          /\ \A k \in 1 .. Len(reply[c]) : reply[c][k].what # "fine"
    /\ \A i, j \in 1 .. Len(results[c]) :
          i < j /\ results[c][j].what = "fine" => results[c][i].what = "fine"

\* A thread that was not started has done nothing.
Fresh(c) == thread[c] = "none" => request[c] = <<>> /\ reply[c] = <<>> /\ results[c] = <<>>

Talk(c) == InStep(c) /\ Final(c) /\ Fresh(c)

\* The main thread starts each thread once.
MainInv == main.pc = "spawn" => \A c \in Session : main.i <= c => thread[c] = "none"

CInv == IInv /\ Types /\ MainInv /\ \A c \in Session : Talk(c)

-----------------------------------------------------------------------------
(***************************************************************************)
(* The load balancer of the composition is the one of LoadBalancer.        *)
(***************************************************************************)

LEMMA SessionThreadStep ==
    ASSUME NEW c \in Session, SessionThread(c)
    PROVE  Next
BY DEF SessionThread, Choose, Serve, HangUp, Next

LEMMA ClientNextStep == [ClientNext]_allVars => [Next]_vars
<1> SUFFICES ASSUME [ClientNext]_allVars PROVE [Next]_vars
  OBVIOUS
<1>1. CASE Main
  BY <1>1 DEF Main, Spawn, Join, MergeTimers, balancerVars
<1>2. CASE \E c \in Session : CustomerThread(c)
  BY <1>2 DEF CustomerThread, ConnectToBalancer, Send, Receive, balancerVars
<1>3. CASE \E c \in Session : SessionThread(c)
  BY <1>3, SessionThreadStep
<1>4. CASE Watch
  BY <1>4 DEF Watch, Next
<1>5. CASE \E n \in Node : NodeDies(n) /\ UNCHANGED clientVars
  BY <1>5 DEF Next
<1>6. CASE \E n \in Node : NodeRestarts(n) /\ UNCHANGED clientVars
  BY <1>6 DEF Next
<1>7. CASE UNCHANGED allVars
  BY <1>7 DEF allVars
<1> QED
  BY <1>1, <1>2, <1>3, <1>4, <1>5, <1>6, <1>7 DEF ClientNext

\* Whatever the customers do, the load balancer behaves as LoadBalancer says:
\* its theorems hold with the client program, too.
THEOREM ClientsImplementSessions == ClientSpec => Spec
<1>1. ClientInit => Init
  BY DEF ClientInit
<1> QED
  BY <1>1, ClientNextStep, PTL DEF ClientSpec, Spec

-----------------------------------------------------------------------------
(***************************************************************************)
(* Helpers.                                                                *)
(***************************************************************************)

\* One more element at the end.
LEMMA OneMore ==
    ASSUME NEW S, NEW s \in Seq(S), NEW e \in S
    PROVE  /\ Append(s, e) \in Seq(S)
           /\ Len(s) \in Nat
           /\ Len(Append(s, e)) = Len(s) + 1
           /\ \A i \in 1 .. Len(s) : Append(s, e)[i] = s[i]
           /\ Append(s, e)[Len(s) + 1] = e
BY AppendProperties, LenProperties

LEMMA OneLess ==
    ASSUME NEW S, NEW s \in Seq(S), s # <<>>
    PROVE  /\ Head(s) \in S /\ Head(s) = s[1]
           /\ Tail(s) \in Seq(S)
           /\ Len(s) \in Nat \ {0}
           /\ Len(Tail(s)) = Len(s) - 1
           /\ \A i \in 1 .. Len(s) - 1 : Tail(s)[i] = s[i + 1]
BY HeadTailProperties, LenProperties, EmptySeq

LEMMA NoneLeft ==
    ASSUME NEW S, NEW s \in Seq(S)
    PROVE  s = <<>> <=> Len(s) = 0
BY EmptySeq

\* A step that leaves c, its session and its messages alone.
LEMMA Undisturbed ==
    ASSUME NEW c \in Session, Talk(c),
           thread'[c] = thread[c], request'[c] = request[c], reply'[c] = reply[c],
           results'[c] = results[c], pc'[c] = pc[c], balancer' => balancer,
           pc[c] = "serve" /\ ~Reaches(InUse(c)) => ~Reaches(InUse(c)')
    PROVE  Talk(c)'
<1>1. Broken(c) => Broken(c)'
  BY DEF Broken
<1>2. InStep(c)'
  BY DEF Talk, InStep
<1>3. Final(c)'
  BY <1>1 DEF Talk, Final
<1>4. Fresh(c)'
  BY DEF Talk, Fresh
<1> QED
  BY <1>2, <1>3, <1>4 DEF Talk

-----------------------------------------------------------------------------
(***************************************************************************)
(* The customers' threads.                                                 *)
(***************************************************************************)

LEMMA EndOfRequestAdds ==
    ASSUME Types, NEW c \in Session, NEW result \in Told, EndOfRequest(c, result)
    PROVE  /\ results' \in [Session -> Seq(Told)]
           /\ thread' \in [Session -> {"none", "connect", "send", "recv", "done"}]
           /\ Len(results[c]) \in Nat
           /\ Len(results'[c]) = Len(results[c]) + 1
           /\ \A i \in 1 .. Len(results[c]) : results'[c][i] = results[c][i]
           /\ results'[c][Len(results[c]) + 1] = result
           /\ thread'[c] \in {"send", "done"}
           /\ \A d \in Session \ {c} : thread'[d] = thread[d] /\ results'[d] = results[d]
<1>1. results[c] \in Seq(Told) /\ results' = [results EXCEPT ![c] = Append(results[c], result)]
  BY DEF Types, EndOfRequest
<1>2. results'[c] = Append(results[c], result)
  BY <1>1 DEF Types
<1>3. \E t \in {"send", "done"} : thread' = [thread EXCEPT ![c] = t]
  BY DEF EndOfRequest
<1> QED
  BY <1>1, <1>2, <1>3, OneMore DEF Types

\* A request that fails although nothing is left to receive, or after which
\* nothing but failures are left: the load balancer has died.
LEMMA FailureKeeps ==
    ASSUME Types, NEW c \in Session, Talk(c), NEW result \in {Failed, NothingCame},
           EndOfRequest(c, result), ~balancer, ~balancer', pc'[c] = pc[c],
           request'[c] = request[c], reply'[c] = reply[c],
           pc[c] # "refused" => reply[c] = <<>>, thread[c] # "none"
    PROVE  Talk(c)'
<1>1. result \in Told /\ result.what # "fine"
  BY DEF Failed, NothingCame, Told
<1>2. /\ Len(results[c]) \in Nat
      /\ Len(results'[c]) = Len(results[c]) + 1
      /\ \A i \in 1 .. Len(results[c]) : results'[c][i] = results[c][i]
      /\ results'[c][Len(results[c]) + 1] = result
      /\ thread'[c] \in {"send", "done"}
  BY <1>1, EndOfRequestAdds
<1>3. \A i \in 1 .. Len(results'[c]) : i \in 1 .. Len(results[c]) \/ i = Len(results[c]) + 1
  BY <1>2
<1>4. \A k \in 1 .. Len(reply[c]) : reply[c][k].what # "fine"
  <2>1. reply[c] = <<>> => Len(reply[c]) = 0
    BY DEF Types
  <2> QED
    BY <2>1 DEF Talk, InStep
<1>5. InStep(c)'
  BY <1>1, <1>2, <1>3, <1>4 DEF Talk, InStep
<1>6. Final(c)'
  <2>1. Broken(c)'
    BY DEF Broken
  <2>2. \A k \in 1 .. Len(reply'[c]) : reply'[c][k].what # "fine"
    BY <1>4
  <2>3. ASSUME NEW i \in 1 .. Len(results'[c]), NEW j \in 1 .. Len(results'[c]),
               i < j, results'[c][j].what = "fine"
        PROVE  results'[c][i].what = "fine"
    <3>1. j \in 1 .. Len(results[c])
      BY <1>1, <1>2, <1>3, <2>3
    <3>2. i \in 1 .. Len(results[c])
      BY <1>2, <2>3, <3>1
    <3> QED
      BY <1>2, <2>3, <3>1, <3>2 DEF Talk, Final
  <2> QED
    BY <2>1, <2>2, <2>3 DEF Final
<1>7. Fresh(c)'
  BY <1>2 DEF Fresh
<1> QED
  BY <1>5, <1>6, <1>7 DEF Talk

\* What was sent to c first is received.
LEMMA AnswerKeeps ==
    ASSUME Types, NEW c \in Session, Talk(c), reply[c] # <<>>, thread[c] = "recv",
           EndOfRequest(c, Head(reply[c])),
           reply'[c] = Tail(reply[c]), request'[c] = request[c],
           pc'[c] = pc[c], balancer' = balancer, InUse(c)' = InUse(c)
    PROVE  Talk(c)'
<1> DEFINE a == Head(reply[c])
<1>1. /\ a \in Told /\ a = reply[c][1] /\ 1 \in 1 .. Len(reply[c])
      /\ Len(reply'[c]) = Len(reply[c]) - 1 /\ Len(reply[c]) \in Nat
      /\ \A k \in 1 .. Len(reply'[c]) :
            k + 1 \in 1 .. Len(reply[c]) /\ reply'[c][k] = reply[c][k + 1]
      /\ reply'[c] \in Seq(Told)
  BY OneLess DEF Types
<1> HIDE DEF a
<1>2. /\ Len(results[c]) \in Nat
      /\ Len(results'[c]) = Len(results[c]) + 1
      /\ \A i \in 1 .. Len(results[c]) : results'[c][i] = results[c][i]
      /\ results'[c][Len(results[c]) + 1] = a
      /\ thread'[c] \in {"send", "done"}
  BY <1>1, EndOfRequestAdds DEF a
<1>3. \A i \in 1 .. Len(results'[c]) : i \in 1 .. Len(results[c]) \/ i = Len(results[c]) + 1
  BY <1>2
<1>4. /\ a.what = "fine" => pc[c] # "refused" /\ a.number = Len(results[c]) + 1
      /\ a.what # "fine" => Broken(c)
  BY <1>1 DEF Talk, InStep, Final
<1>5. pc[c] # "refused" => reply'[c] = <<>> /\ Len(reply'[c]) = 0 /\ request[c] = <<>>
  <2>1. pc[c] # "refused" => Len(reply[c]) = 1 /\ request[c] = <<>>
    BY DEF Talk, InStep
  <2>2. reply'[c] = <<>> <=> Len(reply'[c]) = 0
    BY <1>1, NoneLeft
  <2> QED
    BY <1>1, <2>1, <2>2
<1>6. pc[c] \notin {"new", "connect", "worker"}
  BY DEF Talk, InStep
<1>7. \A k \in 1 .. Len(reply'[c]) : reply'[c][k].what # "fine"
  <2>1. CASE pc[c] = "refused"
    BY <1>1, <2>1 DEF Talk, InStep
  <2>2. CASE pc[c] # "refused"
    <3>1. Len(reply'[c]) = 0
      BY <1>5, <2>2
    <3> QED
      BY <3>1
  <2> QED
    BY <2>1, <2>2
<1>8. InStep(c)'
  BY <1>2, <1>3, <1>4, <1>5, <1>6, <1>7 DEF Talk, InStep
<1>9. Broken(c) => Broken(c)'
  BY DEF Broken
<1>10. Final(c)'
  <2>1. ASSUME NEW k \in 1 .. Len(reply'[c])
        PROVE  Broken(c)'
    <3>1. CASE pc[c] = "refused"
      BY <3>1 DEF Broken
    <3>2. CASE pc[c] # "refused"
      <4>1. Len(reply'[c]) = 0
        BY <1>5, <3>2
      <4>2. k \in 1 .. 0
        BY <4>1
      <4>3. FALSE
        BY <4>2, SMT
      <4> QED
        BY <4>3
    <3> QED
      BY <3>1, <3>2
  <2>2. ASSUME NEW i \in 1 .. Len(results'[c]), results'[c][i].what # "fine"
        PROVE  Broken(c)'
    BY <1>2, <1>3, <1>4, <1>9, <2>2 DEF Talk, Final
  <2>3. ASSUME NEW i \in 1 .. Len(results'[c]), NEW j \in 1 .. Len(results'[c]),
               i < j, results'[c][j].what = "fine"
        PROVE  results'[c][i].what = "fine"
    <3>1. i \in 1 .. Len(results[c]) /\ results'[c][i] = results[c][i]
      BY <1>2, <1>3, <2>3
    <3>2. CASE j \in 1 .. Len(results[c])
      BY <1>2, <2>3, <3>1, <3>2 DEF Talk, Final
    <3>3. CASE j = Len(results[c]) + 1
      BY <1>1, <1>2, <2>3, <3>1, <3>3 DEF Talk, Final
    <3> QED
      BY <1>3, <3>2, <3>3
  <2> QED
    BY <1>7, <2>1, <2>2, <2>3 DEF Final
<1>11. Fresh(c)'
  BY <1>2 DEF Fresh
<1> QED
  BY <1>8, <1>10, <1>11 DEF Talk

\* A request is sent.
LEMMA RequestKeeps ==
    ASSUME Types, NEW c \in Session, Talk(c), thread[c] = "send", thread'[c] = "recv",
           request'[c] = IF balancer THEN Append(request[c], Len(results[c]) + 1)
                         ELSE request[c],
           reply'[c] = reply[c], results'[c] = results[c],
           pc'[c] = pc[c], balancer' = balancer, InUse(c)' = InUse(c)
    PROVE  Talk(c)'
<1>1. pc[c] # "refused" /\ balancer => request[c] = <<>>
  BY DEF Talk, InStep
<1>2. pc[c] # "refused" => reply[c] = <<>>
  BY DEF Talk, InStep
<1>3. pc[c] # "refused" /\ balancer =>
          Len(request'[c]) = 1 /\ request'[c][1] = Len(results[c]) + 1
  <2>1. request[c] \in Seq(Nat) /\ Len(results[c]) + 1 \in Nat
    BY LenProperties DEF Types
  <2> QED
    BY <1>1, <2>1, OneMore, NoneLeft
<1>4. InStep(c)'
  BY <1>2, <1>3 DEF Talk, InStep
<1>5. Broken(c) => Broken(c)'
  BY DEF Broken
<1>6. Final(c)'
  BY <1>5 DEF Talk, Final
<1> QED
  BY <1>4, <1>6 DEF Talk, Fresh

-----------------------------------------------------------------------------
(***************************************************************************)
(* The sessions' threads.                                                  *)
(***************************************************************************)

\* Servers are chosen for the session of c.
LEMMA ChoiceKeeps ==
    ASSUME IInv, IInv', Types, NEW c \in Session, Talk(c), Choose(c)
    PROVE  Talk(c)'
<1>1. /\ pc[c] \in {"new", "connect", "worker"} /\ balancer
      /\ pc'[c] \in {"new", "connect", "worker", "serve", "refused"}
      /\ thread[c] \in {"send", "recv"}
  BY DEF Choose, GetMaster, ConnectMaster, PickWorker, Connection, IInv, TypeOK
<1>2. UNCHANGED <<request, request_type, thread, results>>
  BY DEF Choose, unsent
<1>3. reply[c] = <<>> /\ Len(reply[c]) = 0
  <2>1. reply[c] = <<>> /\ reply[c] \in Seq(Told)
    BY <1>1 DEF Talk, InStep, Types
  <2> QED
    BY <2>1, NoneLeft
<1>4. ~Broken(c)
  BY <1>1 DEF Broken
<1>5. \A i \in 1 .. Len(results[c]) : results[c][i].what = "fine"
  BY <1>4 DEF Talk, Final
<1>6. CASE pc'[c] # "refused"
  <2>1. reply' = reply
    BY <1>6 DEF Choose
  <2>2. InStep(c)'
    BY <1>1, <1>2, <1>3, <1>6, <2>1 DEF Talk, InStep
  <2>3. Final(c)'
    BY <1>2, <1>3, <1>5, <2>1 DEF Talk, Final
  <2> QED
    BY <1>1, <1>2, <2>2, <2>3 DEF Talk, Fresh
<1>7. CASE pc'[c] = "refused"
  <2> DEFINE a == [what |-> answer'[c], number |-> 0]
  <2>1. a \in Told /\ a.what = "negative"
    <3>1. answer'[c] = "negative"
      BY <1>1, <1>7 DEF Choose, GetMaster, ConnectMaster, PickWorker, IInv, TypeOK
    <3> QED
      BY <3>1 DEF Told
  <2>2. reply' = [reply EXCEPT ![c] = Append(@, a)]
    BY <1>7 DEF Choose
  <2> HIDE DEF a
  <2>3. reply'[c] = Append(reply[c], a) /\ reply[c] \in Seq(Told)
    BY <2>2 DEF Types
  <2>4. Len(reply'[c]) = 1 /\ reply'[c][1] = a
    BY <1>3, <2>1, <2>3, OneMore
  <2>5. \A k \in 1 .. Len(reply'[c]) : reply'[c][k].what # "fine"
    BY <2>1, <2>4
  <2>6. InStep(c)'
    BY <1>2, <1>7, <2>5 DEF Talk, InStep
  <2>7. Final(c)'
    BY <1>2, <1>5, <1>7, <2>5 DEF Talk, Final, Broken
  <2> QED
    BY <1>1, <1>2, <2>6, <2>7 DEF Talk, Fresh
<1> QED
  BY <1>6, <1>7

\* A request of c is answered.
LEMMA ServiceKeeps ==
    ASSUME IInv, IInv', Types, NEW c \in Session, Talk(c), Serve(c)
    PROVE  /\ Talk(c)'
           /\ AnswerTo(c) \in Told
           /\ pc' = pc /\ balancer' = balancer
           /\ \A d \in Session \ {c} : InUse(d)' = InUse(d)
<1>1. /\ pc[c] = "serve" /\ pc' = pc /\ balancer /\ balancer' = balancer
      /\ request[c] # <<>>
  BY DEF Serve, Order, Read
<1>2. UNCHANGED <<request_type, thread, results>>
  BY DEF Serve, unsent
<1>3. request[c] \in Seq(Nat) /\ reply[c] \in Seq(Told)
  BY DEF Types
<1>4. /\ Len(request[c]) = 1 /\ request[c][1] = Len(results[c]) + 1 /\ thread[c] = "recv"
      /\ reply[c] = <<>>
  BY <1>1 DEF Talk, InStep
<1>5. /\ request'[c] = Tail(request[c])
      /\ reply'[c] = reply[c] \o <<AnswerTo(c)>>
  BY DEF Serve, Types, Answers
<1>6. Head(request[c]) = Len(results[c]) + 1 /\ Head(request[c]) \in Nat /\ request'[c] = <<>>
  <2>1. /\ Head(request[c]) \in Nat /\ Head(request[c]) = request[c][1]
        /\ Tail(request[c]) \in Seq(Nat) /\ Len(Tail(request[c])) = 0
    BY <1>1, <1>3, <1>4, OneLess
  <2> QED
    BY <1>4, <1>5, <2>1, NoneLeft
<1>7. answer'[c] \in {"fine", "garbage", "negative"}
  BY DEF IInv, TypeOK
<1>8. /\ AnswerTo(c) \in Told /\ AnswerTo(c).what = answer'[c]
      /\ answer'[c] = "fine" => AnswerTo(c).number = Len(results[c]) + 1
  BY <1>6, <1>7 DEF AnswerTo, Told
<1>9. Len(reply'[c]) = 1 /\ reply'[c][1] = AnswerTo(c)
  BY <1>4, <1>5, <1>8
<1>10. IF answer'[c] = "fine" THEN Reaches(InUse(c)) ELSE ~Reaches(InUse(c)')
  <2>1. CASE request_type = 1
    <3>1. Order(c)
      BY <2>1 DEF Serve
    <3>2. master_node[c] \in Conn \cup {Null} /\ Null \notin Conn
      BY NullAssumption DEF IInv, TypeOK
    <3>3. CASE master_node[c] = Null
      BY <1>2, <2>1, <3>1, <3>3 DEF Order, InUse, Reaches, IInv, TypeOK
    <3>4. CASE master_node[c] # Null
      <4>1. /\ answer'[c] = AnswerOn(master_node[c])
            /\ master_node'[c] = AfterUse(master_node[c])
        BY <3>1, <3>4 DEF Order, IInv, TypeOK
      <4>2. AfterUse(master_node[c]).link = "open" => master_node[c].link = "open"
        BY <3>2, <3>4 DEF AfterUse, Conn, Link
      <4> QED
        BY <1>2, <2>1, <3>4, <4>1, <4>2 DEF InUse, Reaches, AnswerOn
    <3> QED
      BY <3>3, <3>4
  <2>2. CASE request_type # 1
    <3>1. Read(c)
      BY <2>2 DEF Serve
    <3>2. cs[c] \in Conn
      BY <1>1 DEF IInv, TypeOK, WorkerInv
    <3>3. /\ answer'[c] = AnswerOn(cs[c])
          /\ cs'[c] = AfterUse(cs[c])
      BY <3>1 DEF Read, IInv, TypeOK
    <3>4. AfterUse(cs[c]).link = "open" => cs[c].link = "open"
      BY <3>2 DEF AfterUse, Conn, Link
    <3> QED
      BY <1>2, <2>2, <3>2, <3>3, <3>4, NullAssumption DEF InUse, Reaches, AnswerOn
  <2> QED
    BY <2>1, <2>2
<1>11. answer'[c] # "fine" => Broken(c)'
  BY <1>1, <1>10 DEF Broken
<1>12. answer'[c] = "fine" => ~Broken(c)
  BY <1>1, <1>4, <1>10 DEF Broken
<1>13. InStep(c)'
  BY <1>1, <1>2, <1>4, <1>6, <1>8, <1>9 DEF Talk, InStep
<1>14. Final(c)'
  <2>1. Broken(c) => Broken(c)' /\ answer'[c] # "fine"
    BY <1>11, <1>12
  <2>2. \A k \in 1 .. Len(reply'[c]) : reply'[c][k].what = answer'[c]
    BY <1>8, <1>9
  <2>3. \A i \in 1 .. Len(results[c]) : results[c][i].what # "fine" => Broken(c)
    BY DEF Talk, Final
  <2> QED
    BY <1>2, <1>11, <2>1, <2>2, <2>3 DEF Talk, Final
<1>15. \A d \in Session \ {c} : InUse(d)' = InUse(d)
  BY <1>2 DEF Serve, Order, Read, InUse, IInv, TypeOK
<1> QED
  BY <1>1, <1>2, <1>4, <1>8, <1>13, <1>14, <1>15 DEF Talk, Fresh

-----------------------------------------------------------------------------
(***************************************************************************)
(* All steps.                                                              *)
(***************************************************************************)

LEMMA InitCInv == ClientInit => CInv
<1> SUFFICES ASSUME ClientInit PROVE CInv
  OBVIOUS
<1>1. IInv
  BY InitIInv DEF ClientInit
<1>2. Types
  BY EmptySeq DEF ClientInit, Types
<1>3. MainInv
  BY DEF ClientInit, MainInv
<1>4. ASSUME NEW c \in Session
      PROVE  Talk(c)
  <2>1. /\ thread[c] = "none" /\ request[c] = <<>> /\ reply[c] = <<>> /\ results[c] = <<>>
        /\ pc[c] = "new"
    BY DEF ClientInit, Init
  <2>2. Len(reply[c]) = 0 /\ Len(results[c]) = 0
    BY <1>2, <2>1, NoneLeft DEF Types
  <2> QED
    BY <2>1, <2>2 DEF Talk, InStep, Final, Fresh
<1> QED
  BY <1>1, <1>2, <1>3, <1>4 DEF CInv

LEMMA MainKeeps ==
    ASSUME CInv, IInv', Main
    PROVE  CInv'
<1>1. UNCHANGED <<vars, request_type, request, reply, results>>
  BY DEF Main, Spawn, Join, MergeTimers, balancerVars
<1>2. UNCHANGED <<pc, balancer, master_node, cs>>
  BY <1>1 DEF vars, sessionVars
<1>3. Types /\ \A c \in Session : c \in Int
  BY CustomersAssumption DEF CInv
<1>4. CASE Spawn
  <2>1. /\ main.pc = "spawn" /\ main.i \in Nat
        /\ thread' = [thread EXCEPT ![main.i] = "connect"]
    BY <1>3, <1>4 DEF Spawn, Types
  <2>2. /\ main' \in [pc : {"spawn", "join", "merge", "done"}, i : Nat]
        /\ main'.pc = "spawn" => main'.i = main.i + 1
    <3>1. main \in [pc : {"spawn", "join", "merge", "done"}, i : Nat]
      BY <1>3 DEF Types
    <3>2. CASE main' = [main EXCEPT !.i = @ + 1]
      BY <3>1, <3>2
    <3>3. CASE main' = [pc |-> "join", i |-> 0]
      BY <3>3
    <3> QED
      BY <1>4, <3>2, <3>3 DEF Spawn, NextCustomer
  <2>3. Types'
    BY <1>1, <1>3, <2>1, <2>2 DEF Types
  <2>4. ASSUME main'.pc = "spawn", NEW c \in Session, main'.i <= c
        PROVE  thread'[c] = "none"
    <3>1. c \in Int /\ main.i <= c /\ c # main.i
      BY <1>3, <2>1, <2>2, <2>4
    <3>2. thread[c] = "none"
      BY <2>1, <3>1 DEF MainInv, CInv
    <3> QED
      BY <1>3, <2>1, <3>1, <3>2 DEF Types
  <2>5. ASSUME NEW c \in Session
        PROVE  Talk(c)'
    <3>1. CASE c = main.i
      <4>1. thread[c] = "none" /\ thread'[c] = "connect"
        BY <1>3, <2>1, <3>1 DEF MainInv, CInv, Types
      <4>2. request[c] = <<>> /\ reply[c] = <<>> /\ results[c] = <<>>
        BY <4>1 DEF CInv, Talk, Fresh
      <4>3. Len(reply[c]) = 0 /\ Len(results[c]) = 0
        BY <1>3, <4>2, NoneLeft DEF Types
      <4> QED
        BY <1>1, <1>2, <4>1, <4>2, <4>3 DEF Talk, InStep, Final, Fresh
    <3>2. CASE c # main.i
      <4>1. thread'[c] = thread[c] /\ Talk(c) /\ InUse(c)' = InUse(c)
        BY <1>1, <1>2, <1>3, <2>1, <3>2 DEF Types, CInv, InUse
      <4> QED
        BY <1>1, <1>2, <4>1, Undisturbed
    <3> QED
      BY <3>1, <3>2
  <2> QED
    BY <2>3, <2>4, <2>5 DEF CInv, MainInv
<1>5. CASE Join \/ MergeTimers
  <2>1. UNCHANGED thread /\ main.pc # "spawn"
    BY <1>5 DEF Join, MergeTimers
  <2>2. main' \in [pc : {"spawn", "join", "merge", "done"}, i : Nat] /\ main'.pc # "spawn"
    BY <1>3, <1>5 DEF Join, MergeTimers, NextCustomer, Types
  <2>3. Types' /\ MainInv'
    BY <1>1, <1>3, <2>1, <2>2 DEF Types, MainInv
  <2>4. ASSUME NEW c \in Session
        PROVE  Talk(c)'
    <3>1. Talk(c) /\ InUse(c)' = InUse(c)
      BY <1>1, <1>2 DEF CInv, InUse
    <3> QED
      BY <1>1, <1>2, <2>1, <3>1, Undisturbed
  <2> QED
    BY <2>3, <2>4 DEF CInv
<1> QED
  BY <1>4, <1>5 DEF Main

\* A step of one customer's thread, or of one session's, as the others see it.
LEMMA OneCustomerSteps ==
    ASSUME CInv, IInv', NEW c \in Session, Types', Talk(c)',
           UNCHANGED <<request_type, main>>, balancer' => balancer,
           thread[c] # "none", thread'[c] # "none",
           \A d \in Session \ {c} :
              /\ thread'[d] = thread[d] /\ request'[d] = request[d]
              /\ reply'[d] = reply[d] /\ results'[d] = results[d]
              /\ pc'[d] = pc[d] /\ InUse(d)' = InUse(d)
    PROVE  CInv'
<1>1. MainInv'
  BY DEF CInv, MainInv
<1>2. ASSUME NEW d \in Session \ {c}
      PROVE  Talk(d)'
  <2>1. Talk(d)
    BY DEF CInv
  <2> QED
    BY <2>1, Undisturbed
<1> QED
  BY <1>1, <1>2 DEF CInv

LEMMA CustomerThreadKeeps ==
    ASSUME CInv, IInv', NEW c \in Session, CustomerThread(c)
    PROVE  CInv'
<1>1. Types /\ Talk(c) /\ thread[c] \in {"connect", "send", "recv"}
  BY DEF CInv, CustomerThread, ConnectToBalancer, Send, Receive
<1>2. UNCHANGED <<vars, request_type, main>>
  BY DEF CustomerThread, ConnectToBalancer, Send, Receive, balancerVars
<1>3. UNCHANGED <<pc, balancer, master_node, cs>>
  BY <1>2 DEF vars, sessionVars
<1>4. \A d \in Session : InUse(d)' = InUse(d)
  BY <1>2, <1>3 DEF InUse
<1>5. CASE ConnectToBalancer(c)
  <2>1. /\ UNCHANGED <<request, reply, results>>
        /\ thread[c] = "connect" /\ thread'[c] \in {"send", "done"}
        /\ \A d \in Session \ {c} : thread'[d] = thread[d]
        /\ Types'
    BY <1>1, <1>2, <1>5 DEF ConnectToBalancer, Types
  <2>2. ~balancer => thread'[c] = "done"
    BY <1>1, <1>5 DEF ConnectToBalancer, Types
  <2>3. InStep(c)'
    BY <1>1, <1>3, <2>1 DEF Talk, InStep
  <2>4. Broken(c) => Broken(c)'
    BY <1>3, <1>4, <2>1 DEF Broken
  <2>5. Final(c)'
    BY <1>1, <2>1, <2>4 DEF Talk, Final
  <2>6. Talk(c)'
    BY <2>1, <2>3, <2>5 DEF Talk, Fresh
  <2> QED
    BY <1>1, <1>2, <1>3, <1>4, <2>1, <2>6, OneCustomerSteps
<1>6. ASSUME thread[c] = "send", thread' = [thread EXCEPT ![c] = "recv"],
             request' = IF balancer THEN [request EXCEPT ![c] = Append(@, Len(results[c]) + 1)]
                        ELSE request,
             UNCHANGED <<reply, results>>
      PROVE  CInv'
  <2>1. Len(results[c]) + 1 \in Nat
    BY <1>1, LenProperties DEF Types
  <2>2. Append(request[c], Len(results[c]) + 1) \in Seq(Nat)
    BY <1>1, <2>1, OneMore DEF Types
  <2>3. Types' /\ thread'[c] = "recv"
    BY <1>1, <1>2, <1>6, <2>2 DEF Types
  <2>4. /\ request'[c] = IF balancer THEN Append(request[c], Len(results[c]) + 1)
                         ELSE request[c]
        /\ \A d \in Session \ {c} : thread'[d] = thread[d] /\ request'[d] = request[d]
    BY <1>1, <1>6 DEF Types
  <2>5. Talk(c)'
    BY <1>1, <1>3, <1>4, <1>6, <2>3, <2>4, RequestKeeps
  <2> QED
    BY <1>1, <1>2, <1>3, <1>4, <1>6, <2>3, <2>4, <2>5, OneCustomerSteps
<1>7. ASSUME NEW result \in {Failed, NothingCame}, EndOfRequest(c, result), ~balancer,
             thread[c] = "send" \/ reply[c] = <<>>, UNCHANGED <<request, reply>>
      PROVE  CInv'
  <2>1. result \in Told
    BY DEF Failed, NothingCame, Told
  <2>2. /\ results' \in [Session -> Seq(Told)]
        /\ thread' \in [Session -> {"none", "connect", "send", "recv", "done"}]
        /\ thread'[c] \in {"send", "done"}
        /\ \A d \in Session \ {c} : thread'[d] = thread[d] /\ results'[d] = results[d]
    BY <1>1, <1>7, <2>1, EndOfRequestAdds
  <2>3. Types'
    BY <1>1, <1>2, <1>7, <2>2 DEF Types
  <2>4. pc[c] # "refused" => reply[c] = <<>>
    BY <1>1, <1>7 DEF Talk, InStep
  <2>5. Talk(c)'
    BY <1>1, <1>3, <1>7, <2>4, FailureKeeps
  <2> QED
    BY <1>1, <1>2, <1>3, <1>4, <1>7, <2>2, <2>3, <2>5, OneCustomerSteps
<1>8. ASSUME reply[c] # <<>>, thread[c] = "recv", reply' = [reply EXCEPT ![c] = Tail(@)],
             EndOfRequest(c, Head(reply[c])), UNCHANGED request
      PROVE  CInv'
  <2>1. Head(reply[c]) \in Told /\ Tail(reply[c]) \in Seq(Told)
    BY <1>1, <1>8, OneLess DEF Types
  <2>2. /\ results' \in [Session -> Seq(Told)]
        /\ thread' \in [Session -> {"none", "connect", "send", "recv", "done"}]
        /\ thread'[c] \in {"send", "done"}
        /\ \A d \in Session \ {c} : thread'[d] = thread[d] /\ results'[d] = results[d]
    BY <1>1, <1>8, <2>1, EndOfRequestAdds
  <2>3. /\ reply' \in [Session -> Seq(Told)] /\ reply'[c] = Tail(reply[c])
        /\ \A d \in Session \ {c} : reply'[d] = reply[d]
    BY <1>1, <1>8, <2>1 DEF Types
  <2>4. Types'
    BY <1>1, <1>2, <1>8, <2>2, <2>3 DEF Types
  <2>5. Talk(c)'
    BY <1>1, <1>3, <1>4, <1>8, <2>3, AnswerKeeps
  <2> QED
    BY <1>1, <1>2, <1>3, <1>4, <1>8, <2>2, <2>3, <2>4, <2>5, OneCustomerSteps
<1>9. CASE Send(c)
  BY <1>6, <1>7, <1>9 DEF Send
<1>10. CASE Receive(c)
  BY <1>7, <1>8, <1>10 DEF Receive, HungUp
<1> QED
  BY <1>5, <1>9, <1>10 DEF CustomerThread

\* The other sessions' connections are as before.
LEMMA OthersChoose ==
    ASSUME IInv, NEW c \in Session, Choose(c)
    PROVE  /\ \A d \in Session \ {c} : pc'[d] = pc[d] /\ InUse(d)' = InUse(d)
           /\ balancer' => balancer
<1>1. request_type' = request_type
  BY DEF Choose, unsent
<1>2. \A d \in Session \ {c} : pc'[d] = pc[d] /\ master_node'[d] = master_node[d] /\ cs'[d] = cs[d]
  <2>1. CASE GetMaster(c)
    BY <2>1 DEF GetMaster, IInv, TypeOK
  <2>2. CASE ConnectMaster(c)
    BY <2>2 DEF ConnectMaster, IInv, TypeOK
  <2>3. CASE PickWorker(c)
    BY <2>3 DEF PickWorker, IInv, TypeOK
  <2> QED
    BY <2>1, <2>2, <2>3 DEF Choose
<1>3. balancer
  BY DEF Choose, GetMaster, ConnectMaster, PickWorker
<1> QED
  BY <1>1, <1>2, <1>3 DEF InUse

LEMMA SessionThreadKeeps ==
    ASSUME CInv, IInv', NEW c \in Session, SessionThread(c)
    PROVE  CInv'
<1>1. IInv /\ Types /\ Talk(c)
  BY DEF CInv
<1>2. UNCHANGED <<request_type, main, thread, results>>
  BY DEF SessionThread, Choose, Serve, HangUp, unsent, clientVars
<1>3. CASE Choose(c)
  <2>1. Talk(c)'
    BY <1>1, <1>3, ChoiceKeeps
  <2>2. thread[c] # "none" /\ UNCHANGED request
    BY <1>3 DEF Choose, Connection
  <2>3. \A d \in Session \ {c} : reply'[d] = reply[d]
    BY <1>1, <1>3 DEF Choose, Types
  <2>4. Types'
    <3> DEFINE a == [what |-> answer'[c], number |-> 0]
    <3>1. a \in Told
      BY DEF IInv, TypeOK, Told
    <3>2. reply' = reply \/ reply' = [reply EXCEPT ![c] = Append(@, a)]
      BY <1>3 DEF Choose
    <3> HIDE DEF a
    <3>3. reply[c] \in Seq(Told) /\ Append(reply[c], a) \in Seq(Told)
      BY <1>1, <3>1, OneMore DEF Types
    <3>4. reply' \in [Session -> Seq(Told)]
      BY <1>1, <3>2, <3>3 DEF Types
    <3> QED
      BY <1>1, <1>2, <2>2, <3>4 DEF Types
  <2> QED
    BY <1>1, <1>2, <1>3, <2>1, <2>2, <2>3, <2>4, OthersChoose, OneCustomerSteps
<1>4. CASE Serve(c)
  <2>1. /\ Talk(c)'
        /\ AnswerTo(c) \in Told
        /\ pc' = pc /\ balancer' = balancer
        /\ \A d \in Session \ {c} : InUse(d)' = InUse(d)
    BY <1>1, <1>4, ServiceKeeps
  <2>2. /\ request' = [request EXCEPT ![c] = Tail(request[c])]
        /\ reply' = [reply EXCEPT ![c] = reply[c] \o <<AnswerTo(c)>>]
        /\ request[c] # <<>>
    BY <1>4 DEF Serve, Answers
  <2>3. /\ \A d \in Session \ {c} : request'[d] = request[d] /\ reply'[d] = reply[d]
        /\ thread[c] # "none"
    BY <1>1, <2>2 DEF Types, Talk, Fresh
  <2>4. Types'
    <3>1. Tail(request[c]) \in Seq(Nat)
      BY <1>1, <2>2, OneLess DEF Types
    <3>2. reply[c] \o <<AnswerTo(c)>> \in Seq(Told)
      BY <1>1, <2>1, ConcatProperties DEF Types
    <3> QED
      BY <1>1, <1>2, <2>2, <3>1, <3>2 DEF Types
  <2> QED
    BY <1>1, <1>2, <2>1, <2>3, <2>4, OneCustomerSteps
<1>5. CASE HangUp(c)
  <2>1. /\ UNCHANGED <<request, reply>> /\ thread[c] = "done" /\ pc[c] = "serve" /\ balancer
        /\ pc'[c] = "new" /\ request[c] = <<>>
        /\ \A d \in Session \ {c} :
              pc'[d] = pc[d] /\ master_node'[d] = master_node[d] /\ cs'[d] = cs[d]
    BY <1>5 DEF HangUp, Leave, clientVars, CInv, IInv, TypeOK
  <2>2. Types'
    BY <1>1, <1>2, <2>1 DEF Types
  <2>3. reply[c] = <<>>
    BY <1>1, <2>1 DEF Talk, InStep
  <2>4. InStep(c)'
    BY <1>1, <1>2, <2>1, <2>3 DEF Talk, InStep
  <2>5. Final(c)'
    BY <1>1, <1>2, <2>1 DEF Talk, Final, Broken
  <2>6. Talk(c)'
    BY <1>2, <2>1, <2>4, <2>5 DEF Talk, Fresh
  <2>7. \A d \in Session \ {c} : InUse(d)' = InUse(d)
    BY <1>2, <2>1 DEF InUse
  <2> QED
    BY <1>1, <1>2, <2>1, <2>2, <2>6, <2>7, OneCustomerSteps
<1> QED
  BY <1>3, <1>4, <1>5 DEF SessionThread

\* The heartbeat, and the deaths and starts of servers.
LEMMA ServersKeep ==
    ASSUME CInv, IInv', UNCHANGED clientVars,
           \/ HeartBeatInit \/ HeartBeat \/ UNCHANGED vars
           \/ \E n \in Node : NodeDies(n) \/ NodeRestarts(n)
    PROVE  CInv'
<1>1. UNCHANGED <<request_type, main, thread, request, reply, results>>
  BY DEF clientVars
<1>2. UNCHANGED <<pc, balancer>>
  BY DEF HeartBeatInit, HeartBeat, NodeDies, NodeRestarts, vars, sessionVars
<1>3. \A c \in Session : ~Reaches(InUse(c)) => ~Reaches(InUse(c)')
  <2>1. CASE UNCHANGED <<master_node, cs>>
    BY <1>1, <2>1 DEF InUse
  <2>2. ASSUME NEW n \in Node, NodeDies(n)
        PROVE  \A c \in Session : ~Reaches(InUse(c)) => ~Reaches(InUse(c)')
    <3>1. \A conn \in Conn \cup {Null} : ~Reaches(conn) => ~Reaches(Cut(conn, n))
      BY NullAssumption DEF Reaches, Cut, Conn, Link
    <3>2. ASSUME NEW c \in Session
          PROVE  InUse(c) \in Conn \cup {Null} /\ InUse(c)' = Cut(InUse(c), n)
      <4>1. /\ master_node[c] \in Conn \cup {Null} /\ cs[c] \in Conn \cup {Null}
            /\ master_node'[c] = Cut(master_node[c], n) /\ cs'[c] = Cut(cs[c], n)
        BY <2>2 DEF NodeDies, CInv, IInv, TypeOK
      <4> QED
        BY <1>1, <4>1 DEF InUse
    <3> QED
      BY <3>1, <3>2
  <2> QED
    BY <2>1, <2>2 DEF HeartBeatInit, HeartBeat, NodeRestarts, vars, sessionVars
<1>4. ASSUME NEW c \in Session
      PROVE  Talk(c)'
  <2>1. Talk(c)
    BY DEF CInv
  <2> QED
    BY <1>1, <1>2, <1>3, <2>1, Undisturbed
<1>5. Types' /\ MainInv'
  BY <1>1 DEF CInv, Types, MainInv
<1> QED
  BY <1>4, <1>5 DEF CInv

LEMMA NextCInv == CInv /\ [ClientNext]_allVars => CInv'
<1> SUFFICES ASSUME CInv, [ClientNext]_allVars PROVE CInv'
  OBVIOUS
<1>1. IInv'
  BY ClientNextStep, NextIInv DEF CInv
<1>2. CASE Main
  BY <1>1, <1>2, MainKeeps
<1>3. CASE \E c \in Session : CustomerThread(c)
  BY <1>1, <1>3, CustomerThreadKeeps
<1>4. CASE \E c \in Session : SessionThread(c)
  BY <1>1, <1>4, SessionThreadKeeps
<1>5. CASE Watch
  BY <1>1, <1>5, ServersKeep DEF Watch
<1>6. CASE \E n \in Node : NodeDies(n) /\ UNCHANGED clientVars
  BY <1>1, <1>6, ServersKeep
<1>7. CASE \E n \in Node : NodeRestarts(n) /\ UNCHANGED clientVars
  BY <1>1, <1>7, ServersKeep
<1>8. CASE UNCHANGED allVars
  BY <1>1, <1>8, ServersKeep DEF allVars
<1> QED
  BY <1>2, <1>3, <1>4, <1>5, <1>6, <1>7, <1>8 DEF ClientNext

\* The invariant of the client program holds in every reachable state.
THEOREM ClientInvariance == ClientSpec => []CInv
<1> QED
  BY InitCInv, NextCInv, PTL DEF ClientSpec

-----------------------------------------------------------------------------
(***************************************************************************)
(* What the invariant says.                                                *)
(***************************************************************************)

\* For any number of customers and orders, the answer a customer takes for that
\* to its i-th order is that, and no answer is left over (ClientThread.cpp:35-42).
THEOREM AnswersStayInStep == ClientSpec => []AnswersInStep
<1>1. ASSUME CInv, NEW c \in Session, pc[c] # "refused"
      PROVE  Len(request[c]) + Len(reply[c]) <= 1
  <2>1. /\ request[c] \in Seq(Nat) /\ reply[c] \in Seq(Told)
        /\ Len(request[c]) \in Nat /\ Len(reply[c]) \in Nat
    BY <1>1, LenProperties DEF CInv, Types
  <2>2. /\ request[c] = <<>> <=> Len(request[c]) = 0
        /\ reply[c] = <<>> <=> Len(reply[c]) = 0
    BY <2>1, NoneLeft
  <2>3. /\ reply[c] = <<>> \/ (request[c] = <<>> /\ Len(reply[c]) = 1)
        /\ request[c] = <<>> \/ Len(request[c]) = 1
    BY <1>1 DEF CInv, Talk, InStep
  <2> DEFINE p == Len(request[c])
             q == Len(reply[c])
  <2>4. p \in Nat /\ q \in Nat
    BY <2>1
  <2>5. q = 0 \/ q = 1
    BY <2>2, <2>3
  <2>6. p = 0 \/ p = 1
    BY <2>2, <2>3
  <2>7. q = 0 \/ p = 0
    BY <2>2, <2>3
  <2> HIDE DEF p, q
  <2>8. p + q <= 1
    BY <2>4, <2>5, <2>6, <2>7
  <2> QED
    BY <2>8 DEF p, q
<1>2. CInv => AnswersInStep
  BY <1>1 DEF CInv, Talk, InStep, AnswersInStep
<1> QED
  BY <1>2, ClientInvariance, PTL

\* For any number of customers, orders and restarts: after a request for which
\* nothing came from a server, nothing ever comes (ServerThread.cpp:108-137).
THEOREM FailuresAreFinal == ClientSpec => []FailedForGood
<1>1. CInv => FailedForGood
  BY DEF CInv, Talk, Final, FailedForGood
<1> QED
  BY <1>1, ClientInvariance, PTL

-----------------------------------------------------------------------------
(***************************************************************************)
(* Sums over finite sets, by induction.  That a finite set has no infinite *)
(* chain of ever smaller subsets is stated in the library without an       *)
(* operator as a parameter, so a set of what holds serves in its place.    *)
(***************************************************************************)

\* What holds of a subset if it holds of all smaller ones, holds of all.
LEMMA SubsetInduction ==
    ASSUME NEW S, IsFiniteSet(S), NEW Good,
           \A s \in SUBSET S : (\A t \in SUBSET s : t # s => t \in Good) => s \in Good
    PROVE  SUBSET S \subseteq Good
<1> DEFINE T == {s \in SUBSET S : s \notin Good}
<1> SUFFICES ASSUME T # {} PROVE FALSE
  OBVIOUS
<1>1. T \subseteq FiniteSubsetsOf(S)
  BY FS_FiniteSubsetsOfFinite
<1>2. IsWellFoundedOn(StrictSubsetOrdering(S), FiniteSubsetsOf(S))
  BY FS_StrictSubsetOrderingWellFounded
<1>3. T # {}
  OBVIOUS
<1> HIDE DEF T
<1>4. \E s \in T : \A t \in T : ~ (<<t, s>> \in StrictSubsetOrdering(S))
  BY <1>1, <1>2, <1>3, WFMin
<1> USE DEF T
<1>5. PICK s \in T : \A t \in T : ~ (<<t, s>> \in StrictSubsetOrdering(S))
  BY <1>4
<1>6. \A t \in T : ~(t \subseteq s /\ t # s)
  BY <1>5 DEF StrictSubsetOrdering
<1> QED
  BY <1>6

AnyOf(s) == CHOOSE x \in s : TRUE

\* h is the function that TimeOf(S) takes its value from.
AddsUp(h, S) ==
    h = [s \in SUBSET S |-> IF s = {} THEN 0 ELSE Took(AnyOf(s)) + h[s \ {AnyOf(s)}]]

Adder(S) == CHOOSE h : AddsUp(h, S)

LEMMA TimeIsAdded == \A S : TimeOf(S) = Adder(S)[S]
BY DEF TimeOf, MapThenSumSet, MapThenFoldSet, Adder, AddsUp, AnyOf

LEMMA AnyIsIn == \A s : s # {} => AnyOf(s) \in s
BY DEF AnyOf

LEMMA AddersAgree ==
    ASSUME NEW S, NEW T, IsFiniteSet(S), NEW g, NEW h, AddsUp(g, S), AddsUp(h, T)
    PROVE  \A s \in SUBSET (S \cap T) : g[s] = h[s]
<1> DEFINE Good == {s \in SUBSET S : s \subseteq T => g[s] = h[s]}
<1>1. ASSUME NEW s \in SUBSET S, \A t \in SUBSET s : t # s => t \in Good
      PROVE  s \in Good
  <2> SUFFICES ASSUME s \subseteq T PROVE g[s] = h[s]
    OBVIOUS
  <2>1. CASE s = {}
    BY <2>1 DEF AddsUp
  <2>2. CASE s # {}
    <3> DEFINE r == s \ {AnyOf(s)}
    <3>1. r \in SUBSET s /\ r # s
      BY <2>2, AnyIsIn
    <3>2. g[r] = h[r]
      BY <3>1, <1>1
    <3>3. g[s] = Took(AnyOf(s)) + g[r] /\ h[s] = Took(AnyOf(s)) + h[r]
      BY <2>2 DEF AddsUp
    <3> QED
      BY <3>2, <3>3
  <2> QED
    BY <2>1, <2>2
<1> HIDE DEF Good
<1>2. SUBSET S \subseteq Good
  BY <1>1, SubsetInduction
<1> QED
  BY <1>2 DEF Good

LEMMA AdderExists ==
    ASSUME NEW S, IsFiniteSet(S)
    PROVE  AddsUp(Adder(S), S)
<1> DEFINE Good == {s \in SUBSET S : AddsUp(Adder(s), s)}
<1>1. ASSUME NEW s \in SUBSET S, \A t \in SUBSET s : t # s => t \in Good
      PROVE  s \in Good
  <2> DEFINE h == [t \in SUBSET s |->
                      IF t = {} THEN 0
                      ELSE Took(AnyOf(t)) + Adder(t \ {AnyOf(t)})[t \ {AnyOf(t)}]]
  <2>1. ASSUME NEW t \in SUBSET s, t # s
        PROVE  h[t] = Adder(t)[t]
    <3>1. AddsUp(Adder(t), t)
      BY <1>1, <2>1
    <3>2. CASE t = {}
      BY <3>1, <3>2 DEF AddsUp
    <3>3. CASE t # {}
      <4> DEFINE r == t \ {AnyOf(t)}
      <4>1. r \in SUBSET s /\ r # s /\ r \subseteq t
        BY <3>3, AnyIsIn
      <4>2. AddsUp(Adder(r), r) /\ IsFiniteSet(r)
        BY <4>1, <1>1, FS_Subset
      <4>3. Adder(r)[r] = Adder(t)[r]
        BY <4>2, <3>1, AddersAgree
      <4>4. Adder(t)[t] = Took(AnyOf(t)) + Adder(t)[r]
        BY <3>1, <3>3 DEF AddsUp
      <4> QED
        BY <3>3, <4>3, <4>4
    <3> QED
      BY <3>2, <3>3
  <2>2. \A t \in SUBSET s : t # {} => t \ {AnyOf(t)} \in SUBSET s /\ t \ {AnyOf(t)} # s
    BY AnyIsIn
  <2>3. AddsUp(h, s)
    <3> HIDE DEF h
    <3>1. \A t \in SUBSET s : t # {} => h[t \ {AnyOf(t)}] = Adder(t \ {AnyOf(t)})[t \ {AnyOf(t)}]
      BY <2>1, <2>2
    <3>2. h = [t \in SUBSET s |->
                  IF t = {} THEN 0 ELSE Took(AnyOf(t)) + h[t \ {AnyOf(t)}]]
      BY <3>1 DEF h
    <3> QED
      BY <3>2 DEF AddsUp
  <2> HIDE DEF h
  <2>4. AddsUp(Adder(s), s)
    BY <2>3 DEF Adder
  <2> QED
    BY <2>4
<1> HIDE DEF Good
<1>2. SUBSET S \subseteq Good
  BY <1>1, SubsetInduction
<1> QED
  BY <1>2 DEF Good

\* The total time of no requests, and of some.
LEMMA TimeUnfolds ==
    ASSUME NEW S, IsFiniteSet(S)
    PROVE  TimeOf(S) = IF S = {} THEN 0 ELSE Took(AnyOf(S)) + TimeOf(S \ {AnyOf(S)})
<1> DEFINE r == S \ {AnyOf(S)}
<1>1. AddsUp(Adder(S), S)
  BY AdderExists
<1>2. CASE S = {}
  BY <1>1, <1>2, TimeIsAdded DEF AddsUp
<1>3. CASE S # {}
  <2>1. IsFiniteSet(r)
    BY FS_Subset
  <2>2. AddsUp(Adder(r), r)
    BY <2>1, AdderExists
  <2>3. Adder(r)[r] = Adder(S)[r]
    BY <2>1, <2>2, <1>1, AddersAgree
  <2>4. Adder(S)[S] = Took(AnyOf(S)) + Adder(S)[r]
    BY <1>1, <1>3 DEF AddsUp
  <2> QED
    BY <1>3, <2>3, <2>4, TimeIsAdded
<1> QED
  BY <1>2, <1>3

LEMMA TimeType ==
    ASSUME NEW S, IsFiniteSet(S), \A x \in S : Took(x) \in Nat
    PROVE  TimeOf(S) \in Nat
<1> DEFINE Good == {s \in SUBSET S : TimeOf(s) \in Nat}
<1>1. ASSUME NEW s \in SUBSET S, \A t \in SUBSET s : t # s => t \in Good
      PROVE  s \in Good
  <2>1. TimeOf(s) = IF s = {} THEN 0 ELSE Took(AnyOf(s)) + TimeOf(s \ {AnyOf(s)})
    BY TimeUnfolds, FS_Subset
  <2>2. s # {} => Took(AnyOf(s)) \in Nat /\ s \ {AnyOf(s)} \in Good
    BY <1>1, AnyIsIn
  <2> QED
    BY <2>1, <2>2
<1> HIDE DEF Good
<1>2. SUBSET S \subseteq Good
  BY <1>1, SubsetInduction
<1> QED
  BY <1>2 DEF Good

\* The order in which requests are added does not matter.
LEMMA TimeWithout ==
    ASSUME NEW S, IsFiniteSet(S), \A x \in S : Took(x) \in Nat
    PROVE  \A x \in S : TimeOf(S) = Took(x) + TimeOf(S \ {x})
<1> DEFINE Good == {s \in SUBSET S : \A x \in s : TimeOf(s) = Took(x) + TimeOf(s \ {x})}
<1>1. ASSUME NEW s \in SUBSET S, \A t \in SUBSET s : t # s => t \in Good
      PROVE  s \in Good
  <2> SUFFICES ASSUME NEW x \in s PROVE TimeOf(s) = Took(x) + TimeOf(s \ {x})
    OBVIOUS
  <2> DEFINE y == AnyOf(s)
  <2>1. y \in s /\ TimeOf(s) = Took(y) + TimeOf(s \ {y})
    BY TimeUnfolds, FS_Subset, AnyIsIn
  <2> HIDE DEF y
  <2>2. CASE x = y
    BY <2>1, <2>2
  <2>3. CASE x # y
    <3>1. s \ {x} \in Good /\ s \ {y} \in Good
      BY <1>1, <2>1
    <3>2. /\ TimeOf(s \ {y}) = Took(x) + TimeOf((s \ {y}) \ {x})
          /\ TimeOf(s \ {x}) = Took(y) + TimeOf((s \ {x}) \ {y})
      BY <3>1, <2>1, <2>3
    <3>3. (s \ {y}) \ {x} = (s \ {x}) \ {y} /\ IsFiniteSet((s \ {x}) \ {y})
      BY FS_Subset
    <3>4. Took(x) \in Nat /\ Took(y) \in Nat /\ TimeOf((s \ {x}) \ {y}) \in Nat
      BY <2>1, <3>3, TimeType
    <3> QED
      BY <2>1, <3>2, <3>3, <3>4
  <2> QED
    BY <2>2, <2>3
<1> HIDE DEF Good
<1>2. SUBSET S \subseteq Good
  BY <1>1, SubsetInduction
<1> QED
  BY <1>2 DEF Good

\* The total time of requests that are counted in two parts.
LEMMA TimeOfBoth ==
    ASSUME NEW S, NEW T, IsFiniteSet(S), IsFiniteSet(T), S \cap T = {},
           \A x \in S \cup T : Took(x) \in Nat
    PROVE  TimeOf(S \cup T) = TimeOf(S) + TimeOf(T)
<1> DEFINE Good == {s \in SUBSET S : TimeOf(s \cup T) = TimeOf(s) + TimeOf(T)}
<1>1. ASSUME NEW s \in SUBSET S, \A t \in SUBSET s : t # s => t \in Good
      PROVE  s \in Good
  <2>1. TimeOf(T) \in Nat
    BY TimeType
  <2>2. CASE s = {}
    <3>1. TimeOf(s) = 0 /\ s \cup T = T
      BY <2>2, TimeUnfolds, FS_EmptySet
    <3> QED
      BY <2>1, <3>1
  <2>3. CASE s # {}
    <3>1. PICK x \in s : TRUE
      BY <2>3
    <3>2. /\ IsFiniteSet(s) /\ IsFiniteSet(s \cup T) /\ IsFiniteSet(s \ {x})
          /\ (s \cup T) \ {x} = (s \ {x}) \cup T
      BY <3>1, FS_Subset, FS_Union
    <3>3. TimeOf(s \cup T) = Took(x) + TimeOf((s \ {x}) \cup T)
      BY <3>1, <3>2, TimeWithout
    <3>4. TimeOf(s) = Took(x) + TimeOf(s \ {x})
      BY <3>1, <3>2, TimeWithout
    <3>5. s \ {x} \in Good
      BY <1>1, <3>1
    <3>6. Took(x) \in Nat /\ TimeOf(s \ {x}) \in Nat
      BY <3>1, <3>2, TimeType
    <3> QED
      BY <2>1, <3>3, <3>4, <3>5, <3>6
  <2> QED
    BY <2>2, <2>3
<1> HIDE DEF Good
<1>2. SUBSET S \subseteq Good
  BY <1>1, SubsetInduction
<1> QED
  BY <1>2 DEF Good

-----------------------------------------------------------------------------
(***************************************************************************)
(* Types of the client program.                                            *)
(***************************************************************************)

\* What ClientTypeOK says of the client's variables, and how many results a
\* thread has: a request that is begun is one of the Orders.
ClientTypes ==
    /\ request_type \in 1 .. 3
    /\ main \in [pc : {"spawn", "join", "merge", "done"}, i : 0 .. Customers - 1]
    /\ thread \in [Session -> {"none", "connect", "send", "recv", "done"}]
    /\ request \in [Session -> Seq(1 .. Orders)]
    /\ reply \in [Session -> Seq(Answer)]
    /\ results \in [Session -> Seq(Result)]
    /\ timer \in [Session -> Timer]
    /\ total \in Timer
    /\ \A c \in Session :
          /\ Len(results[c]) <= Orders
          /\ thread[c] \in {"none", "connect"} => results[c] = <<>>
          /\ thread[c] \in {"send", "recv"} => Len(results[c]) < Orders

LEMMA FarAwayType == FarAway \in Nat \ {0}
BY SMT DEF FarAway

LEMMA TimerTypes ==
    /\ NewTimer \in Timer
    /\ \A t, u \in Timer : Merge(t, u) \in Timer
    /\ \A t \in Timer, elapsed \in 0 .. FarAway : EndAndMerge(t, elapsed) \in Timer
<1>1. \A a, b \in 0 .. FarAway : Smaller(a, b) \in 0 .. FarAway /\ Larger(a, b) \in 0 .. FarAway
  BY FarAwayType DEF Smaller, Larger
<1>2. FarAway \in Nat \ {0}
  BY FarAwayType
<1>3. NewTimer \in Timer
  BY <1>2 DEF NewTimer, Timer
<1>4. \A t \in Timer : /\ t.sum \in Nat /\ t.op_count \in Nat
                       /\ t.min \in 0 .. FarAway /\ t.max \in 0 .. FarAway
  BY DEF Timer
<1>5. ASSUME NEW n \in Nat, NEW k \in Nat, NEW a \in 0 .. FarAway, NEW b \in 0 .. FarAway
      PROVE  [sum |-> n, op_count |-> k, min |-> a, max |-> b] \in Timer
  BY DEF Timer
<1>6. ASSUME NEW t \in Timer, NEW u \in Timer
      PROVE  Merge(t, u) \in Timer
  <2>1. u.sum + t.sum \in Nat /\ u.op_count + t.op_count \in Nat
    BY <1>4
  <2>2. Smaller(u.min, t.min) \in 0 .. FarAway /\ Larger(u.max, t.max) \in 0 .. FarAway
    BY <1>1, <1>4
  <2> QED
    BY <1>5, <2>1, <2>2 DEF Merge
<1>7. ASSUME NEW t \in Timer, NEW elapsed \in 0 .. FarAway
      PROVE  EndAndMerge(t, elapsed) \in Timer
  <2>1. t.sum + elapsed \in Nat /\ t.op_count + 1 \in Nat
    BY <1>2, <1>4
  <2>2. Smaller(t.min, elapsed) \in 0 .. FarAway /\ Larger(t.max, elapsed) \in 0 .. FarAway
    BY <1>1, <1>4
  <2> QED
    BY <1>5, <2>1, <2>2 DEF EndAndMerge
<1> QED
  BY <1>3, <1>6, <1>7

\* Every request takes less than the initial value of min.
LEMMA TookTypes ==
    \A x \in Session \X (1 .. Orders) :
        Took(x) \in 0 .. FarAway - 1 /\ Took(x) \in 0 .. FarAway /\ Took(x) \in Nat
<1>1. ASSUME NEW x \in Session \X (1 .. Orders)
      PROVE  Took(x) \in 0 .. FarAway - 1
  BY ElapsedAssumption DEF Took
<1>2. \A n \in 0 .. FarAway - 1 : n \in 0 .. FarAway /\ n \in Nat
  BY FarAwayType
<1> QED
  BY <1>1, <1>2

\* A thread whose request is over.
LEMMA EndOfRequestTypes ==
    ASSUME ClientTypes, NEW c \in Session, thread[c] \in {"send", "recv"},
           NEW result \in Result, EndOfRequest(c, result)
    PROVE  /\ Len(results[c]) + 1 \in 1 .. Orders
           /\ results[c] \in Seq(Result)
           /\ results' = [results EXCEPT ![c] = Append(results[c], result)]
           /\ results'[c] = Append(results[c], result)
           /\ results' \in [Session -> Seq(Result)]
           /\ thread' \in [Session -> {"none", "connect", "send", "recv", "done"}]
           /\ \A d \in Session \ {c} : thread'[d] = thread[d] /\ results'[d] = results[d]
           /\ thread'[c] \in {"send", "done"}
           /\ thread'[c] = "send" => Len(results'[c]) < Orders
           /\ Len(results'[c]) <= Orders
           /\ timer' \in [Session -> Timer]
<1>1. results[c] \in Seq(Result) /\ Len(results[c]) < Orders /\ Len(results[c]) \in Nat
  BY LenProperties DEF ClientTypes
<1>2. results' = [results EXCEPT ![c] = Append(results[c], result)]
  BY DEF EndOfRequest
<1>3. Append(results[c], result) \in Seq(Result) /\ Len(Append(results[c], result)) = Len(results[c]) + 1
  BY <1>1, OneMore
<1>4. /\ results'[c] = Append(results[c], result)
      /\ results' \in [Session -> Seq(Result)]
      /\ \A d \in Session \ {c} : results'[d] = results[d]
  BY <1>2, <1>3 DEF ClientTypes
<1>5. /\ thread' \in [Session -> {"none", "connect", "send", "recv", "done"}]
      /\ \A d \in Session \ {c} : thread'[d] = thread[d]
      /\ thread'[c] \in {"send", "done"}
      /\ thread'[c] = "send" => Len(results[c]) + 1 # Orders
  BY DEF EndOfRequest, ClientTypes
<1>6. timer' \in [Session -> Timer]
  <2> DEFINE elapsed == Elapsed[c][Len(results[c]) + 1]
  <2>1. elapsed \in 0 .. FarAway
    BY <1>1, OrdersAssumption, ElapsedAssumption, FarAwayType
  <2> HIDE DEF elapsed
  <2>2. timer[c] \in Timer /\ EndAndMerge(timer[c], elapsed) \in Timer
    BY <2>1, TimerTypes DEF ClientTypes
  <2>3. timer' = timer \/ timer' = [timer EXCEPT ![c] = EndAndMerge(timer[c], elapsed)]
    BY DEF EndOfRequest, Counts, elapsed
  <2> QED
    BY <2>2, <2>3 DEF ClientTypes
<1> QED
  BY <1>1, <1>2, <1>3, <1>4, <1>5, <1>6, OrdersAssumption

LEMMA SpecialResults == Failed \in Result /\ NothingCame \in Result
BY DEF Failed, NothingCame, Result

LEMMA InitClientTypes == ClientInit => ClientTypes
<1> SUFFICES ASSUME ClientInit PROVE ClientTypes
  OBVIOUS
<1>1. /\ \A S : <<>> \in Seq(S)
      /\ Len(<<>>) = 0
  BY EmptySeq
<1>2. main \in [pc : {"spawn", "join", "merge", "done"}, i : 0 .. Customers - 1]
  BY CustomersAssumption DEF ClientInit
<1> QED
  BY <1>1, <1>2, TimerTypes, OrdersAssumption DEF ClientInit, ClientTypes

LEMMA MainTypes ==
    ASSUME CInv, ClientTypes, Main
    PROVE  ClientTypes'
<1>1. UNCHANGED <<request_type, request, reply, results, timer>>
  BY DEF Main, Spawn, Join, MergeTimers
<1>2. \A after \in {"join", "merge", "done"} : NextCustomer(after) =>
          main' \in [pc : {"spawn", "join", "merge", "done"}, i : 0 .. Customers - 1]
  <2> SUFFICES ASSUME NEW after \in {"join", "merge", "done"}, NextCustomer(after)
               PROVE  main' \in [pc : {"spawn", "join", "merge", "done"}, i : 0 .. Customers - 1]
    OBVIOUS
  <2>1. main \in [pc : {"spawn", "join", "merge", "done"}, i : 0 .. Customers - 1]
    BY DEF ClientTypes
  <2>2. Customers \in Nat \ {0} /\ Workers \in Nat /\ Workers <= Customers
    BY CustomersAssumption DEF Workers
  <2>3. CASE main.i + 1 < Workers /\ main' = [main EXCEPT !.i = @ + 1]
    <3>1. main.i + 1 \in 0 .. Customers - 1
      BY <2>1, <2>2, <2>3
    <3> QED
      BY <2>1, <2>3, <3>1
  <2>4. CASE main' = [pc |-> after, i |-> 0]
    BY <2>2, <2>4
  <2> QED
    BY <2>3, <2>4 DEF NextCustomer
<1>3. CASE Spawn
  <2>1. main.i \in Session /\ thread[main.i] = "none"
    BY <1>3, CustomersAssumption DEF Spawn, ClientTypes, CInv, MainInv
  <2>2. thread' = [thread EXCEPT ![main.i] = "connect"] /\ total' = total
    BY <1>3 DEF Spawn
  <2> QED
    BY <1>1, <1>2, <1>3, <2>1, <2>2 DEF Spawn, ClientTypes
<1>4. CASE Join
  <2>1. NextCustomer("done") \/ NextCustomer("merge")
    BY <1>4 DEF Join
  <2> QED
    BY <1>1, <1>2, <1>4, <2>1 DEF Join, ClientTypes
<1>5. CASE MergeTimers
  <2>1. main.i \in Session
    BY CustomersAssumption DEF ClientTypes
  <2>2. total' \in Timer
    BY <1>5, <2>1, TimerTypes DEF MergeTimers, ClientTypes
  <2> QED
    BY <1>1, <1>2, <1>5, <2>2 DEF MergeTimers, ClientTypes
<1> QED
  BY <1>3, <1>4, <1>5 DEF Main

LEMMA CustomerThreadTypes ==
    ASSUME ClientTypes, NEW c \in Session, CustomerThread(c)
    PROVE  ClientTypes'
<1>1. UNCHANGED <<request_type, main, total>>
  BY DEF CustomerThread, ConnectToBalancer, Send, Receive
<1>2. CASE ConnectToBalancer(c)
  <2>1. UNCHANGED <<request, reply, results, timer>>
    BY <1>2 DEF ConnectToBalancer
  <2>2. /\ thread' \in [Session -> {"none", "connect", "send", "recv", "done"}]
        /\ \A d \in Session \ {c} : thread'[d] = thread[d]
        /\ thread'[c] \in {"send", "done"} /\ results[c] = <<>>
    BY <1>2 DEF ConnectToBalancer, ClientTypes
  <2>3. Len(results[c]) < Orders
    BY <2>2, OrdersAssumption
  <2> QED
    BY <1>1, <2>1, <2>2, <2>3 DEF ClientTypes
<1>3. ASSUME thread[c] \in {"send", "recv"}, NEW result \in Result, EndOfRequest(c, result),
             UNCHANGED request, reply' \in [Session -> Seq(Answer)]
      PROVE  ClientTypes'
  BY <1>1, <1>3, EndOfRequestTypes DEF ClientTypes
<1>4. CASE Send(c)
  <2>1. CASE /\ thread' = [thread EXCEPT ![c] = "recv"]
             /\ request' = IF balancer
                           THEN [request EXCEPT ![c] = Append(@, Len(results[c]) + 1)]
                           ELSE request
             /\ UNCHANGED <<results, timer>>
    <3>1. Len(results[c]) + 1 \in 1 .. Orders
      <4>1. Len(results[c]) \in Nat /\ Len(results[c]) < Orders
        BY <1>4, LenProperties DEF Send, ClientTypes
      <4> QED
        BY <4>1, OrdersAssumption
    <3>2. Append(request[c], Len(results[c]) + 1) \in Seq(1 .. Orders)
      BY <3>1, OneMore DEF ClientTypes
    <3>3. request' \in [Session -> Seq(1 .. Orders)]
      BY <2>1, <3>2 DEF ClientTypes
    <3>4. /\ thread' \in [Session -> {"none", "connect", "send", "recv", "done"}]
          /\ \A d \in Session \ {c} : thread'[d] = thread[d]
          /\ thread'[c] = "recv" /\ thread[c] = "send"
      BY <1>4, <2>1 DEF Send, ClientTypes
    <3> QED
      BY <1>1, <1>4, <2>1, <3>3, <3>4 DEF Send, ClientTypes
  <2>2. CASE EndOfRequest(c, Failed) /\ UNCHANGED request
    BY <1>3, <1>4, <2>2, SpecialResults DEF Send, ClientTypes
  <2> QED
    BY <1>4, <2>1, <2>2 DEF Send
<1>5. CASE Receive(c)
  <2>1. CASE reply[c] # <<>> /\ reply' = [reply EXCEPT ![c] = Tail(@)] /\ EndOfRequest(c, Head(reply[c]))
    <3>1. Head(reply[c]) \in Answer /\ Tail(reply[c]) \in Seq(Answer)
      BY <2>1, OneLess DEF ClientTypes
    <3>2. Head(reply[c]) \in Result /\ reply' \in [Session -> Seq(Answer)]
      BY <2>1, <3>1 DEF Result, ClientTypes
    <3> QED
      BY <1>3, <1>5, <2>1, <3>2 DEF Receive
  <2>2. ASSUME NEW result \in {NothingCame, Failed}, EndOfRequest(c, result), UNCHANGED reply
        PROVE  ClientTypes'
    BY <1>3, <1>5, <2>2, SpecialResults DEF Receive, ClientTypes
  <2> QED
    BY <1>5, <2>1, <2>2 DEF Receive
<1> QED
  BY <1>2, <1>4, <1>5 DEF CustomerThread

LEMMA SessionThreadTypes ==
    ASSUME CInv, CInv', ClientTypes, NEW c \in Session, SessionThread(c)
    PROVE  ClientTypes'
<1>1. UNCHANGED <<request_type, main, thread, results, timer, total>>
  BY DEF SessionThread, Choose, Serve, HangUp, unsent, clientVars
<1>2. answer'[c] \in {"fine", "garbage", "negative"} /\ 0 \in 0 .. Orders
  BY OrdersAssumption DEF CInv, IInv, TypeOK
<1>3. CASE Choose(c)
  <2> DEFINE a == [what |-> answer'[c], number |-> 0]
  <2>1. a \in Answer
    BY <1>2 DEF Answer
  <2>2. request' = request /\ (reply' = reply \/ reply' = [reply EXCEPT ![c] = Append(@, a)])
    BY <1>3 DEF Choose
  <2> HIDE DEF a
  <2>3. Append(reply[c], a) \in Seq(Answer)
    BY <2>1, OneMore DEF ClientTypes
  <2>4. reply' \in [Session -> Seq(Answer)]
    BY <2>2, <2>3 DEF ClientTypes
  <2> QED
    BY <1>1, <2>2, <2>4 DEF ClientTypes
<1>4. CASE Serve(c)
  <2>1. /\ request' = [request EXCEPT ![c] = Tail(request[c])]
        /\ reply' = [reply EXCEPT ![c] = reply[c] \o <<AnswerTo(c)>>]
        /\ request[c] # <<>>
    BY <1>4 DEF Serve, Answers
  <2>2. Tail(request[c]) \in Seq(1 .. Orders) /\ Head(request[c]) \in 1 .. Orders
    BY <2>1, OneLess DEF ClientTypes
  <2>3. AnswerTo(c) \in Answer
    BY <1>2, <2>2, OrdersAssumption DEF AnswerTo, Answer
  <2>4. reply[c] \o <<AnswerTo(c)>> \in Seq(Answer)
    BY <2>3, ConcatProperties DEF ClientTypes
  <2> QED
    BY <1>1, <2>1, <2>2, <2>4 DEF ClientTypes
<1>5. CASE HangUp(c)
  BY <1>1, <1>5 DEF HangUp, clientVars, ClientTypes
<1> QED
  BY <1>3, <1>4, <1>5 DEF SessionThread

LEMMA NextClientTypes == CInv /\ CInv' /\ ClientTypes /\ [ClientNext]_allVars => ClientTypes'
<1> SUFFICES ASSUME CInv, CInv', ClientTypes, [ClientNext]_allVars PROVE ClientTypes'
  OBVIOUS
<1>1. CASE Main
  BY <1>1, MainTypes
<1>2. CASE \E c \in Session : CustomerThread(c)
  BY <1>2, CustomerThreadTypes
<1>3. CASE \E c \in Session : SessionThread(c)
  BY <1>3, SessionThreadTypes
<1>4. CASE UNCHANGED clientVars
  BY <1>4 DEF clientVars, ClientTypes
<1> QED
  BY <1>1, <1>2, <1>3, <1>4 DEF ClientNext, Watch, allVars

\* No customer makes a request it does not have, the main thread never goes to a
\* customer that is not there, and every result is one of those told apart
\* (Client.cpp:85-99, ClientThread.cpp:35-63).
THEOREM ClientTypesHold == ClientSpec => []ClientTypeOK
<1>1. CInv /\ ClientTypes => ClientTypeOK
  BY DEF ClientTypeOK, ClientTypes, CInv, IInv
<1> QED
  BY <1>1, InitClientTypes, NextClientTypes, ClientInvariance, PTL DEF ClientSpec

-----------------------------------------------------------------------------
(***************************************************************************)
(* What the timers hold.                                                   *)
(***************************************************************************)

\* A timer that measured these requests, and has its initial values if none.
Holds(t, requests) ==
    /\ Measures(t, requests)
    /\ requests = {} => t.min = FarAway /\ t.max = 0

\* The customers whose timers the main thread has added up.
Merged ==
    CASE main.pc \in {"spawn", "join"} -> {}
      [] main.pc = "merge" -> 0 .. main.i - 1
      [] OTHER -> Session

\* The main thread goes on when threads have ended, and so reads no timer that
\* may still change.
MetricsInv ==
    /\ main.pc = "join" => \A c \in Session : c < main.i => thread[c] = "done"
    /\ request_type # 3 =>
          /\ main.pc \in {"merge", "done"} => \A c \in Session : thread[c] = "done"
          /\ \A c \in Session : Holds(timer[c], Timed({c}))
          /\ Holds(total, Timed(Merged))

LEMMA TimedTypes ==
    ASSUME NEW D \in SUBSET Session
    PROVE  /\ IsFiniteSet(Timed(D))
           /\ \A x \in Timed(D) : Took(x) \in 0 .. FarAway - 1 /\ Took(x) \in Nat
<1>1. IsFiniteSet(0 .. Customers - 1) /\ IsFiniteSet(1 .. Orders)
  BY FS_Interval, CustomersAssumption, OrdersAssumption
<1>2. IsFiniteSet(Session \X (1 .. Orders))
  BY <1>1, FS_Product, CustomersAssumption
<1>3. Timed(D) \in SUBSET (Session \X (1 .. Orders))
  BY DEF Timed
<1> QED
  BY <1>2, <1>3, FS_Subset, TookTypes

\* Adding one measurement.
LEMMA MeasuresOneMore ==
    ASSUME NEW t \in Timer, NEW R, IsFiniteSet(R), NEW x, x \notin R,
           \A y \in R \cup {x} : Took(y) \in 0 .. FarAway - 1 /\ Took(y) \in Nat,
           Holds(t, R)
    PROVE  Holds(EndAndMerge(t, Took(x)), R \cup {x})
<1> DEFINE u == EndAndMerge(t, Took(x))
<1>1. /\ u.sum = t.sum + Took(x)
      /\ u.op_count = t.op_count + 1
      /\ u.min = Smaller(t.min, Took(x))
      /\ u.max = Larger(t.max, Took(x))
  BY DEF EndAndMerge
<1> HIDE DEF u
<1>2. t.sum = TimeOf(R) /\ t.op_count = Cardinality(R)
  BY DEF Holds, Measures
<1>3. u.op_count = Cardinality(R \cup {x})
  <2>1. Cardinality(R \cup {x}) = Cardinality(R) + 1
    BY FS_AddElement
  <2> QED
    BY <1>1, <1>2, <2>1
<1>4. u.sum = TimeOf(R \cup {x})
  <2>1. IsFiniteSet(R \cup {x}) /\ (R \cup {x}) \ {x} = R
    BY FS_AddElement
  <2>2. TimeOf(R \cup {x}) = Took(x) + TimeOf(R)
    BY <2>1, TimeWithout
  <2>3. TimeOf(R) \in Nat
    BY TimeType
  <2> QED
    BY <1>1, <1>2, <2>2, <2>3
<1>5. t.min \in 0 .. FarAway /\ t.max \in 0 .. FarAway
  BY DEF Timer
<1>6. CASE R = {}
  <2>1. t.min = FarAway /\ t.max = 0
    BY <1>6 DEF Holds
  <2>2. u.min = Took(x) /\ u.max = Took(x)
    BY <1>1, <2>1, FarAwayType DEF Smaller, Larger
  <2> QED
    BY <1>3, <1>4, <1>6, <2>2 DEF Holds, Measures, u
<1>7. CASE R # {}
  <2>1. PICK y \in R, z \in R : t.min = Took(y) /\ t.max = Took(z)
    BY <1>7 DEF Holds, Measures
  <2>2. \A r \in R : t.min <= Took(r) /\ Took(r) <= t.max
    BY DEF Holds, Measures
  <2>3. Took(x) \in Nat /\ \A r \in R : Took(r) \in Nat
    OBVIOUS
  <2>4. \A r \in R \cup {x} : u.min <= Took(r) /\ Took(r) <= u.max
    BY <1>1, <2>1, <2>2, <2>3 DEF Smaller, Larger
  <2>5. \E a, b \in R \cup {x} : u.min = Took(a) /\ u.max = Took(b)
    <3>1. PICK a \in {x, y} : u.min = Took(a)
      BY <1>1, <2>1 DEF Smaller
    <3>2. PICK b \in {x, z} : u.max = Took(b)
      BY <1>1, <2>1 DEF Larger
    <3> QED
      BY <3>1, <3>2, <2>1
  <2> QED
    BY <1>3, <1>4, <2>4, <2>5 DEF Holds, Measures, u
<1> QED
  BY <1>6, <1>7

\* Adding up two timers.
LEMMA MeasuresBoth ==
    ASSUME NEW t \in Timer, NEW all \in Timer, NEW R, NEW S, IsFiniteSet(R), IsFiniteSet(S),
           R \cap S = {}, \A y \in R \cup S : Took(y) \in 0 .. FarAway - 1 /\ Took(y) \in Nat,
           Holds(t, R), Holds(all, S)
    PROVE  Holds(Merge(t, all), S \cup R)
<1> DEFINE u == Merge(t, all)
<1>1. /\ u.sum = all.sum + t.sum
      /\ u.op_count = all.op_count + t.op_count
      /\ u.min = Smaller(all.min, t.min)
      /\ u.max = Larger(all.max, t.max)
  BY DEF Merge
<1> HIDE DEF u
<1>2. /\ t.sum = TimeOf(R) /\ t.op_count = Cardinality(R)
      /\ all.sum = TimeOf(S) /\ all.op_count = Cardinality(S)
  BY DEF Holds, Measures
<1>3. u.op_count = Cardinality(S \cup R)
  <2>1. Cardinality(S \cap R) = 0 /\ Cardinality(S) \in Nat /\ Cardinality(R) \in Nat
    BY FS_EmptySet, FS_CardinalityType
  <2>2. Cardinality(S \cup R) = Cardinality(S) + Cardinality(R) - Cardinality(S \cap R)
    BY FS_Union
  <2> QED
    BY <1>1, <1>2, <2>1, <2>2
<1>4. u.sum = TimeOf(S \cup R)
  BY <1>1, <1>2, TimeOfBoth
<1>5. /\ t.min \in 0 .. FarAway /\ t.max \in 0 .. FarAway
      /\ all.min \in 0 .. FarAway /\ all.max \in 0 .. FarAway
  BY DEF Timer
<1>6. FarAway \in Nat
  BY FarAwayType
<1>7. \A r \in R \cup S : u.min <= Took(r) /\ Took(r) <= u.max
  <2>1. /\ \A r \in R : t.min <= Took(r) /\ Took(r) <= t.max
        /\ \A r \in S : all.min <= Took(r) /\ Took(r) <= all.max
    BY DEF Holds, Measures
  <2>2. \A a, b \in 0 .. FarAway : /\ Smaller(a, b) <= a /\ Smaller(a, b) <= b
                                   /\ a <= Larger(a, b) /\ b <= Larger(a, b)
                                   /\ Smaller(a, b) \in Nat /\ Larger(a, b) \in Nat
    BY <1>6 DEF Smaller, Larger
  <2>3. /\ u.min <= all.min /\ u.min <= t.min /\ all.max <= u.max /\ t.max <= u.max
        /\ u.min \in Nat /\ u.max \in Nat
    BY <1>1, <1>5, <2>2
  <2> QED
    BY <1>5, <2>1, <2>3
<1>8. CASE R = {} \/ S = {}
  <2>1. R = {} => t.min = FarAway /\ t.max = 0
    BY DEF Holds
  <2>2. S = {} => all.min = FarAway /\ all.max = 0
    BY DEF Holds
  <2>3. /\ \A a \in 0 .. FarAway : Smaller(a, FarAway) = a /\ Smaller(FarAway, a) = a
        /\ \A a \in 0 .. FarAway : Larger(a, 0) = a /\ Larger(0, a) = a
    BY <1>6 DEF Smaller, Larger
  <2>4. CASE R = {}
    <3>1. u.min = all.min /\ u.max = all.max /\ S \cup R = S
      BY <1>1, <1>5, <2>1, <2>3, <2>4
    <3> QED
      BY <1>3, <1>4, <1>7, <3>1 DEF Holds, Measures, u
  <2>5. CASE S = {}
    <3>1. u.min = t.min /\ u.max = t.max /\ S \cup R = R
      BY <1>1, <1>5, <2>2, <2>3, <2>5
    <3> QED
      BY <1>3, <1>4, <1>7, <3>1 DEF Holds, Measures, u
  <2> QED
    BY <1>8, <2>4, <2>5
<1>9. CASE R # {} /\ S # {}
  <2>1. PICK y \in R, z \in R : t.min = Took(y) /\ t.max = Took(z)
    BY <1>9 DEF Holds, Measures
  <2>2. PICK v \in S, w \in S : all.min = Took(v) /\ all.max = Took(w)
    BY <1>9 DEF Holds, Measures
  <2>3. PICK a \in {v, y} : u.min = Took(a)
    BY <1>1, <2>1, <2>2 DEF Smaller
  <2>4. PICK b \in {w, z} : u.max = Took(b)
    BY <1>1, <2>1, <2>2 DEF Larger
  <2>5. a \in S \cup R /\ b \in S \cup R
    BY <2>1, <2>2
  <2> QED
    BY <1>3, <1>4, <1>7, <1>9, <2>3, <2>4, <2>5 DEF Holds, Measures, u
<1> QED
  BY <1>8, <1>9

LEMMA HoldsNothing == Holds(NewTimer, {})
<1>1. Cardinality({}) = 0 /\ TimeOf({}) = 0
  BY FS_EmptySet, TimeUnfolds
<1> QED
  BY <1>1 DEF Holds, Measures, NewTimer

\* The requests of two groups of customers.
LEMMA TimedUnion ==
    /\ Timed({}) = {}
    /\ \A C, D : /\ Timed(C \cup D) = Timed(C) \cup Timed(D)
                /\ C \cap D = {} => Timed(C) \cap Timed(D) = {}
BY DEF Timed

LEMMA InitMetricsInv == ClientInit => MetricsInv
<1> SUFFICES ASSUME ClientInit PROVE MetricsInv
  OBVIOUS
<1>1. ASSUME NEW c \in Session
      PROVE  Timed({c}) = {}
  <2>1. Len(results[c]) = 0
    BY DEF ClientInit
  <2>2. \A i \in 1 .. Orders : ~(i <= 0)
    BY OrdersAssumption
  <2> QED
    BY <2>1, <2>2 DEF Timed
<1>2. Merged = {}
  BY DEF ClientInit, Merged
<1> QED
  BY <1>1, <1>2, HoldsNothing, TimedUnion DEF ClientInit, MetricsInv

\* A step in which no request ends and the main thread stays where it is.
LEMMA MetricsUndisturbed ==
    ASSUME MetricsInv, UNCHANGED <<request_type, main, results, timer, total>>,
           \A c \in Session : thread[c] = "done" => thread'[c] = "done"
    PROVE  MetricsInv'
<1>1. \A D : Timed(D)' = Timed(D)
  BY DEF Timed
<1>2. Merged' = Merged
  BY DEF Merged
<1>3. /\ \A c \in Session : Timed({c})' = Timed({c})
      /\ Timed(Merged)' = Timed(Merged)
  BY <1>1, <1>2 DEF Timed
<1> QED
  BY <1>3 DEF MetricsInv

\* A request is over: its customer's timer holds one measurement more, unless
\* it failed.
LEMMA EndOfRequestMetrics ==
    ASSUME ClientTypes, MetricsInv, NEW c \in Session, thread[c] \in {"send", "recv"},
           NEW result \in Result, EndOfRequest(c, result), UNCHANGED <<request_type, main, total>>
    PROVE  MetricsInv'
<1> DEFINE n == Len(results[c]) + 1
           x == <<c, n>>
<1>1. /\ n \in 1 .. Orders /\ results[c] \in Seq(Result)
      /\ results'[c] = Append(results[c], result)
      /\ \A d \in Session \ {c} : thread'[d] = thread[d] /\ results'[d] = results[d]
  BY EndOfRequestTypes
<1>2. /\ Len(results'[c]) = n /\ results'[c][n] = result
      /\ \A i \in 1 .. Len(results[c]) : results'[c][i] = results[c][i]
      /\ Len(results[c]) \in Nat
  BY <1>1, OneMore
<1>3. thread[c] # "done"
  OBVIOUS
<1>4. \A d \in Session \ {c} : Timed({d})' = Timed({d})
  BY <1>1 DEF Timed
<1>5. Timed({c})' = IF result.what = "error" THEN Timed({c}) ELSE Timed({c}) \cup {x}
  <2>1. ASSUME NEW i \in 1 .. Orders
        PROVE  /\ i # n => (i <= Len(results'[c]) <=> i <= Len(results[c]))
               /\ i # n /\ i <= Len(results[c]) => results'[c][i] = results[c][i]
    BY <1>2, OrdersAssumption
  <2>2. \A i \in 1 .. Orders : <<c, i>> \in Timed({c})' <=>
            IF i = n THEN result.what # "error" ELSE <<c, i>> \in Timed({c})
    BY <1>1, <1>2, <2>1 DEF Timed
  <2>3. x \notin Timed({c})
    BY <1>2 DEF Timed
  <2>4. /\ \A y \in Timed({c})' : \E i \in 1 .. Orders : y = <<c, i>>
        /\ \A y \in Timed({c}) : \E i \in 1 .. Orders : y = <<c, i>>
    BY DEF Timed
  <2>5. n \in 1 .. Orders
    BY <1>1
  <2> DEFINE T == Timed({c})
             U == Timed({c})'
  <2>6. CASE result.what = "error"
    <3>1. \A i \in 1 .. Orders : <<c, i>> \in U <=> <<c, i>> \in T
      BY <2>2, <2>3, <2>6
    <3> HIDE DEF T, U
    <3>2. \A y : y \in U <=> y \in T
      BY <2>4, <3>1 DEF T, U
    <3> QED
      BY <2>6, <3>2 DEF T, U
  <2>7. CASE result.what # "error"
    <3>1. \A i \in 1 .. Orders : <<c, i>> \in U <=> (<<c, i>> \in T \/ i = n)
      BY <2>2, <2>7
    <3> HIDE DEF T, U
    <3>2. \A y : y \in U <=> (y \in T \/ y = x)
      BY <2>4, <2>5, <3>1 DEF T, U
    <3> QED
      BY <2>7, <3>2 DEF T, U
  <2> QED
    BY <2>6, <2>7
<1>6. CASE request_type # 3
  <2>1. \A d \in Session \ {c} : timer'[d] = timer[d]
    BY DEF EndOfRequest, Counts, ClientTypes
  <2>2. Holds(timer'[c], Timed({c})')
    <3>1. Holds(timer[c], Timed({c})) /\ timer[c] \in Timer
      BY <1>6 DEF MetricsInv, ClientTypes
    <3>2. CASE result.what = "error"
      BY <1>5, <3>1, <3>2 DEF EndOfRequest, Counts
    <3>3. CASE result.what # "error"
      <4>1. timer'[c] = EndAndMerge(timer[c], Took(x))
        BY <1>6, <3>3 DEF EndOfRequest, Counts, ClientTypes, Took
      <4>2. x \notin Timed({c})
        BY <1>2 DEF Timed
      <4>3. \A y \in Timed({c}) \cup {x} : Took(y) \in 0 .. FarAway - 1 /\ Took(y) \in Nat
        BY <1>1, TimedTypes, TookTypes
      <4>4. IsFiniteSet(Timed({c}))
        BY TimedTypes
      <4>5. Holds(EndAndMerge(timer[c], Took(x)), Timed({c}) \cup {x})
        <5> HIDE DEF x
        <5> QED
          BY <3>1, <4>2, <4>3, <4>4, MeasuresOneMore
      <4> QED
        BY <1>5, <3>3, <4>1, <4>5
    <3> QED
      BY <3>2, <3>3
  <2>3. main.pc \notin {"merge", "done"}
    BY <1>3, <1>6 DEF MetricsInv
  <2>4. Merged = {} /\ Merged' = {}
    BY <2>3 DEF Merged, ClientTypes
  <2>5. Timed(Merged)' = Timed(Merged)
    BY <2>4 DEF Timed
  <2>6. ASSUME NEW d \in Session
        PROVE  Holds(timer'[d], Timed({d})')
    <3>1. CASE d = c
      BY <2>2, <3>1
    <3>2. CASE d # c
      BY <1>4, <1>6, <2>1, <3>2 DEF MetricsInv
    <3> QED
      BY <3>1, <3>2
  <2> QED
    BY <1>1, <1>3, <1>6, <2>3, <2>5, <2>6 DEF MetricsInv
<1>7. CASE request_type = 3
  BY <1>1, <1>3, <1>7 DEF MetricsInv
<1> QED
  BY <1>6, <1>7

LEMMA CustomerThreadMetrics ==
    ASSUME ClientTypes, MetricsInv, NEW c \in Session, CustomerThread(c)
    PROVE  MetricsInv'
<1>1. UNCHANGED <<request_type, main, total>>
  BY DEF CustomerThread, ConnectToBalancer, Send, Receive
<1>2. CASE ConnectToBalancer(c)
  BY <1>1, <1>2, MetricsUndisturbed DEF ConnectToBalancer, ClientTypes
<1>3. CASE Send(c)
  <2>1. CASE UNCHANGED <<results, timer>> /\ thread' = [thread EXCEPT ![c] = "recv"]
    BY <1>1, <1>3, <2>1, MetricsUndisturbed DEF Send, ClientTypes
  <2>2. CASE EndOfRequest(c, Failed)
    BY <1>1, <1>3, <2>2, EndOfRequestMetrics, SpecialResults DEF Send
  <2> QED
    BY <1>3, <2>1, <2>2 DEF Send
<1>4. CASE Receive(c)
  <2>1. reply[c] # <<>> => Head(reply[c]) \in Result
    BY OneLess DEF ClientTypes, Result
  <2>2. \E result \in Result : EndOfRequest(c, result)
    BY <1>4, <2>1, SpecialResults DEF Receive
  <2> QED
    BY <1>1, <1>4, <2>2, EndOfRequestMetrics DEF Receive
<1> QED
  BY <1>2, <1>3, <1>4 DEF CustomerThread

LEMMA MainMetrics ==
    ASSUME ClientTypes, MetricsInv, Main
    PROVE  MetricsInv'
<1>1. UNCHANGED <<request_type, results, timer>>
  BY DEF Main, Spawn, Join, MergeTimers
<1>2. /\ main \in [pc : {"spawn", "join", "merge", "done"}, i : 0 .. Customers - 1]
      /\ Customers \in Nat \ {0} /\ Session = 0 .. Customers - 1
      /\ request_type # 3 => Workers = Customers
  BY CustomersAssumption DEF ClientTypes, Workers
<1>3. \A after : NextCustomer(after) =>
          \/ main.i + 1 < Workers /\ main'.pc = main.pc /\ main'.i = main.i + 1
          \/ main.i + 1 >= Workers /\ main'.pc = after /\ main'.i = 0
  BY <1>2 DEF NextCustomer, Workers
<1>4. \A c \in Session : Timed({c})' = Timed({c})
  BY <1>1 DEF Timed
<1>5. CASE Spawn
  <2>1. /\ main.pc = "spawn" /\ total' = total
        /\ main'.pc = "spawn" \/ (main'.pc = "join" /\ main'.i = 0)
    BY <1>3, <1>5 DEF Spawn
  <2>2. Timed(Merged)' = Timed(Merged)
    BY <1>1, <2>1 DEF Merged, Timed
  <2>3. main'.pc = "join" => \A c \in Session : ~(c < main'.i)
    BY <1>2, <2>1
  <2> QED
    BY <1>1, <1>4, <2>1, <2>2, <2>3 DEF MetricsInv
<1>6. CASE Join
  <2>1. /\ main.pc = "join" /\ UNCHANGED <<thread, total>> /\ thread[main.i] = "done"
        /\ request_type # 3 => NextCustomer("merge")
        /\ request_type = 3 => NextCustomer("done")
    BY <1>6 DEF Join, Joinable
  <2>2. \A c \in Session : c <= main.i => thread[c] = "done"
    <3>1. \A c \in Session : c <= main.i => c < main.i \/ c = main.i
      BY <1>2
    <3> QED
      BY <2>1, <3>1 DEF MetricsInv
  <2>3. main'.pc = "join" => \A c \in Session : c < main'.i => thread'[c] = "done"
    <3>1. main'.pc = "join" => main'.i = main.i + 1
      BY <1>3, <2>1
    <3>2. \A c \in Session : c < main.i + 1 => c <= main.i
      BY <1>2
    <3> QED
      BY <2>1, <2>2, <3>1, <3>2
  <2>4. CASE request_type # 3
    <3>1. \/ main'.pc = "join"
          \/ main'.pc = "merge" /\ main'.i = 0 /\ main.i + 1 >= Customers
      BY <1>2, <1>3, <2>1, <2>4
    <3>2. main'.pc = "merge" => \A c \in Session : thread'[c] = "done"
      <4>1. main.i + 1 >= Customers => \A c \in Session : c <= main.i
        BY <1>2
      <4> QED
        BY <2>1, <2>2, <3>1, <4>1
    <3>3. Merged = {} /\ Merged' = {}
      BY <2>1, <3>1 DEF Merged
    <3>4. Timed(Merged)' = Timed(Merged)
      BY <1>1, <3>3 DEF Timed
    <3> QED
      BY <1>1, <1>4, <2>1, <2>3, <2>4, <3>1, <3>2, <3>4 DEF MetricsInv
  <2>5. CASE request_type = 3
    BY <1>1, <2>3, <2>5 DEF MetricsInv
  <2> QED
    BY <2>4, <2>5
<1>7. CASE MergeTimers
  <2>1. /\ main.pc = "merge" /\ thread' = thread /\ NextCustomer("done")
        /\ total' = Merge(timer[main.i], total)
    BY <1>7 DEF MergeTimers
  <2>2. main'.pc # "join"
    BY <1>3, <2>1
  <2>3. CASE request_type # 3
    <3>1. main.i \in Session /\ main.i \notin 0 .. main.i - 1 /\ 0 .. main.i - 1 \subseteq Session
      BY <1>2
    <3>2. Merged = 0 .. main.i - 1
      BY <2>1 DEF Merged
    <3>3. Merged' = Merged \cup {main.i}
      <4>1. CASE main'.pc = "merge" /\ main'.i = main.i + 1
        <5>1. Merged' = 0 .. main.i
          BY <1>2, <4>1 DEF Merged
        <5> QED
          BY <1>2, <3>2, <5>1
      <4>2. CASE main'.pc = "done" /\ main.i + 1 >= Customers
        <5>1. Merged' = Session
          BY <4>2 DEF Merged
        <5> QED
          BY <1>2, <3>2, <4>2, <5>1
      <4> QED
        BY <1>2, <1>3, <2>1, <2>3, <4>1, <4>2
    <3>4. Timed(Merged)' = Timed(Merged) \cup Timed({main.i})
      <4>1. Timed(Merged)' = Timed(Merged \cup {main.i})
        BY <1>1, <3>3 DEF Timed
      <4> QED
        BY <4>1 DEF Timed
    <3>5. /\ Holds(total, Timed(Merged)) /\ Holds(timer[main.i], Timed({main.i}))
          /\ total \in Timer /\ timer[main.i] \in Timer
      BY <2>3, <3>1 DEF MetricsInv, ClientTypes
    <3>6. Timed(Merged) \cap Timed({main.i}) = {}
      BY <3>1, <3>2 DEF Timed
    <3>7. /\ IsFiniteSet(Timed(Merged)) /\ IsFiniteSet(Timed({main.i}))
          /\ \A x \in Timed({main.i}) \cup Timed(Merged) :
                Took(x) \in 0 .. FarAway - 1 /\ Took(x) \in Nat
      BY <3>1, <3>2, TimedTypes
    <3>8. Holds(total', Timed(Merged)')
      BY <2>1, <3>4, <3>5, <3>6, <3>7, MeasuresBoth
    <3> QED
      BY <1>1, <1>4, <2>1, <2>2, <2>3, <3>8 DEF MetricsInv
  <2>4. CASE request_type = 3
    BY <1>1, <2>2, <2>4 DEF MetricsInv
  <2> QED
    BY <2>3, <2>4
<1> QED
  BY <1>5, <1>6, <1>7 DEF Main

LEMMA NextMetricsInv == ClientTypes /\ MetricsInv /\ [ClientNext]_allVars => MetricsInv'
<1> SUFFICES ASSUME ClientTypes, MetricsInv, [ClientNext]_allVars PROVE MetricsInv'
  OBVIOUS
<1>1. CASE Main
  BY <1>1, MainMetrics
<1>2. CASE \E c \in Session : CustomerThread(c)
  BY <1>2, CustomerThreadMetrics
<1>3. CASE \E c \in Session : SessionThread(c)
  <2>1. UNCHANGED <<request_type, main, thread, results, timer, total>>
    BY <1>3 DEF SessionThread, Choose, Serve, HangUp, unsent, clientVars
  <2> QED
    BY <2>1, MetricsUndisturbed
<1>4. CASE UNCHANGED clientVars
  BY <1>4, MetricsUndisturbed DEF clientVars
<1> QED
  BY <1>1, <1>2, <1>3, <1>4 DEF ClientNext, Watch, allVars

\* For any number of customers and orders, whatever their requests took and
\* whatever became of servers and load balancer: what the client prints is
\* count, sum, least and greatest of the requests that did not fail, each once
\* (Client.cpp:92-99, ClientTimer.cpp).
THEOREM MetricsHold == ClientSpec => []MetricsAreComplete
<1>1. ClientTypes /\ MetricsInv => MetricsAreComplete
  BY DEF MetricsInv, MetricsAreComplete, Merged, Holds
<1> QED
  BY <1>1, InitClientTypes, NextClientTypes, InitMetricsInv, NextMetricsInv, ClientInvariance,
     PTL DEF ClientSpec

=============================================================================
