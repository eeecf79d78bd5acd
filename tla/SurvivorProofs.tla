--------------------------- MODULE SurvivorProofs ---------------------------
(***************************************************************************)
(* What follows for the servers that have never died from their lockstep:  *)
(* what is in their logs, their files and their customer records, and that *)
(* together they are the one ledger of OrderLedger.                        *)
(***************************************************************************)
EXTENDS LockstepProofs

-----------------------------------------------------------------------------
(***************************************************************************)
(* What a step does to the log of a server that has not died.              *)
(***************************************************************************)

\* At most its stdio buffer is flushed.
Keeps(b) ==
    /\ smr_log'[b] = smr_log[b] /\ last_index'[b] = last_index[b]
    /\ committed_index'[b] = committed_index[b] /\ customer_record'[b] = customer_record[b]
    /\ wal'[b] \in {wal[b], Flushed(wal[b])}

\* An order is logged.
Logs(b, op) ==
    /\ op \in Order /\ Len(smr_log[b]) = last_index[b] + 1
    /\ smr_log'[b] = Append(smr_log[b], op)
    /\ wal'[b] \in {WriteLog(wal[b], op), Flushed(WriteLog(wal[b], op))}
    /\ last_index'[b] \in {last_index[b], last_index[b] + 1}
    /\ committed_index'[b] = committed_index[b] /\ customer_record'[b] = customer_record[b]

\* The last entry is applied, perhaps for the second time.
Advances(b) ==
    /\ smr_log'[b] = smr_log[b] /\ wal'[b] = wal[b]
    /\ last_index'[b] \in {last_index[b], last_index[b] + 1} /\ last_index'[b] < Len(smr_log[b])
    /\ committed_index[b] \in {last_index[b] - 1, last_index[b]}
    /\ committed_index'[b] = last_index[b]
    /\ customer_record'[b] = IF last_index[b] = -1 THEN customer_record[b]
                             ELSE Apply(customer_record[b], At(smr_log[b], last_index[b]))

\* What may happen to a server that does not die.
LogStep(b) ==
    \/ Keeps(b)
    \/ AdminTake(b) /\ Logs(b, Head(admin_thread_list[b]).op)
    \/ (\E p \in Node : IfaRead(p, b)) /\ Logs(b, OnWire(b)[1].req.op)
    \/ (AdminRecheck(b) \/ AdminCommit(b) \/ IfaApply(b)) /\ Advances(b)

\* The indexes of a server that has never died.
LEMMA TidyIndexes ==
    ASSUME LockInv, NEW b \in Node, hb_conn[b]
    PROVE  /\ last_index[b] \in Index /\ committed_index[b] \in Index
           /\ smr_log[b] \in Seq(Entry) /\ Len(smr_log[b]) \in Nat
           /\ committed_index[b] \in {last_index[b] - 1, last_index[b]}
           /\ Len(smr_log[b]) \in {last_index[b] + 1, last_index[b] + 2}
           /\ Logged(b) = 0 .. last_index[b]
           /\ up[b] /\ b \in Survivors
<1>1. /\ last_index[b] \in Index /\ committed_index[b] \in Index /\ smr_log[b] \in Seq(Entry)
  BY DEF LockInv, RolesInv, BInv, TypeOK
<1>2. Len(smr_log[b]) \in Nat
  BY <1>1, LenProperties
<1>3. Tidy(b)
  BY DEF LockInv, Lockstep, LogsTidy
<1>4. Len(smr_log[b]) \in {last_index[b] + 1, last_index[b] + 2}
  BY <1>1, <1>3 DEF Tidy, Fits, Ahead, Index
<1>5. Logged(b) = 0 .. last_index[b]
  BY <1>1, <1>2, <1>4 DEF Logged, InRange, Index
<1>6. up[b] /\ b \in Survivors
  BY DEF LockInv, RolesInv, Lives, Survivors
<1> QED
  BY <1>1, <1>2, <1>3, <1>4, <1>5, <1>6 DEF Tidy

\* The survivors are those who have never died.
LEMMA SurvivorsAre == ASSUME LockInv PROVE Survivors = {n \in Node : hb_conn[n]}
BY DEF LockInv, RolesInv, Lives, Survivors

\* Who has died stays dead.
LEMMA HbFalls ==
    ASSUME LockInv, [Next]_vars
    PROVE  \A b \in Node : hb_conn'[b] => hb_conn[b]
<1>1. TypeOK
  BY DEF LockInv, RolesInv, BInv
<1> DEFINE Fell == \/ hb_conn' = hb_conn
                   \/ \E n \in Node : hb_conn' = [hb_conn EXCEPT ![n] = FALSE]
<1>2. \A n \in Node : \A w : Die(n, w) => Fell
  BY DEF Die
<1> HIDE DEF Fell
<1>3. ASSUME NEW c \in Customer,
             Connect(c) \/ PlaceOrder(c) \/ Ship(c) \/ Hangup(c) \/ Finish(c)
      PROVE  Fell
  BY <1>3 DEF Fell, Connect, PlaceOrder, Ship, Hangup, Finish, lbVars
<1>4. ASSUME NEW n \in Node, CloseReader(n) \/ Crash(n) \/ Restart(n) \/ HeartBeat(n)
      PROVE  Fell
  BY <1>2, <1>4 DEF Fell, CloseReader, Crash, Restart, HeartBeat, lbVars
<1>5. ASSUME NEW n \in Node, AdminThread(n) PROVE Fell
  BY <1>2, <1>5 DEF Fell, AdminThread, AdminRecheck, AdminTake, AdminSkip, AdminSend, AdminAck,
     AdminPeerGone, AdminCommit, lbVars
<1>6. ASSUME NEW n \in Node, IfaThread(n) PROVE Fell
  BY <1>2, <1>6 DEF Fell, IfaThread, IfaRead, IfaStray, RecoverRead, RecoverFail, RecoverWrite,
     IfaApply, lbVars
<1>7. Fell
  BY <1>3, <1>4, <1>5, <1>6 DEF Next, vars, lbVars, Fell
<1> QED
  BY <1>1, <1>7 DEF TypeOK, Fell

\* A server that does not die when another one does.
LEMMA DieSteps ==
    ASSUME LockInv, NEW n \in Node, NEW w, Die(n, w)
    PROVE  /\ ~hb_conn'[n] /\ master_node_id' = master_node_id
           /\ \A b \in Node \ {n} : Keeps(b) /\ ifa'[b] = ifa[b] /\ admin'[b] = admin[b]
           /\ \A b \in Node : hb_conn'[b] => OnWire(b)' \in {<<>>, OnWire(b)}
           /\ UNCHANGED <<server, ordered, acked>>
           /\ \A c \in Customer : engineer'[c] \in {engineer[c], "lost"}
<1>1. TypeOK
  BY DEF LockInv, RolesInv, BInv
<1>2. ~hb_conn'[n] /\ UNCHANGED <<server, ordered, acked, master_node_id>>
      /\ \A c \in Customer : engineer'[c] \in {engineer[c], "lost"}
  BY <1>1 DEF Die, TypeOK
<1>3. \A b \in Node \ {n} : Keeps(b) /\ ifa'[b] = ifa[b] /\ admin'[b] = admin[b]
  BY <1>1 DEF Die, TypeOK, Keeps
<1>4. ASSUME NEW b \in Node, hb_conn'[b] PROVE OnWire(b)' \in {<<>>, OnWire(b)}
  <2>1. b # n /\ hb_conn[b] /\ master_node_id \in Node
    BY <1>1, <1>2, <1>4 DEF Die, TypeOK
  <2>2. PICK s : s = OnWire(b)
    OBVIOUS
  <2>3. s \in Seq(Message) /\ (s # <<>> => Len(s) = 1)
    BY <1>1, <2>1, <2>2 DEF TypeOK, LockInv, Lockstep, LogsTidy, Tidy, OnWire
  <2>4. \/ wire'[master_node_id][b] = s
        \/ \E k \in 0 .. Len(s) : wire'[master_node_id][b] = SubSeq(s, 1, k)
    <3>1. PICK to \in Node : \E k \in 0 .. Len(wire[n][to]) :
              wire' = [p \in Node |-> [a \in Node |->
                    IF a = n THEN <<>>
                    ELSE IF p = n /\ a = to THEN SubSeq(wire[n][to], 1, k)
                    ELSE wire[p][a]]]
      BY DEF Die
    <3>2. PICK k \in 0 .. Len(wire[n][to]) :
              wire' = [p \in Node |-> [a \in Node |->
                    IF a = n THEN <<>>
                    ELSE IF p = n /\ a = to THEN SubSeq(wire[n][to], 1, k)
                    ELSE wire[p][a]]]
      BY <3>1
    <3>3. wire'[master_node_id][b] = IF master_node_id = n /\ b = to THEN SubSeq(wire[n][to], 1, k)
                                     ELSE wire[master_node_id][b]
      BY <2>1, <3>2
    <3> QED
      BY <2>2, <3>2, <3>3 DEF OnWire
  <2>5. \A k \in 0 .. Len(s) : SubSeq(s, 1, k) \in {<<>>, s}
    <3>1. CASE s = <<>>
      <4>1. Len(s) = 0 /\ SubSeq(s, 1, 0) = s
        BY <3>1
      <4>2. \A k \in 0 .. Len(s) : k = 0
        BY <4>1
      <4> QED
        BY <4>1, <4>2
    <3>2. CASE s # <<>>
      <4>1. SubSeq(s, 1, 1) = s
        BY <2>3, <3>2, SubSeqFull
      <4>2. SubSeq(s, 1, 0) = <<>>
        BY <2>3, SubSeqEmpty
      <4>3. \A k \in 0 .. Len(s) : k = 0 \/ k = 1
        <5>1. Len(s) = 1
          BY <2>3, <3>2
        <5> QED
          BY <5>1
      <4> QED
        BY <4>1, <4>2, <4>3
    <3> QED
      BY <3>1, <3>2
  <2> QED
    BY <1>2, <2>2, <2>4, <2>5 DEF OnWire
<1> QED
  BY <1>2, <1>3, <1>4

LEMMA LogSteps ==
    ASSUME LockInv, [Next]_vars, NEW b \in Node, hb_conn'[b]
    PROVE  hb_conn[b] /\ LogStep(b)
<1>1. TypeOK /\ hb_conn[b]
  BY HbFalls DEF LockInv, RolesInv, BInv
<1> SUFFICES LogStep(b)
  BY <1>1
<1>2. CASE UNCHANGED logVars
  BY <1>2 DEF LogStep, Keeps, logVars
<1>3. CASE \E n \in Node : \E w : Die(n, w)
  BY <1>1, <1>3, DieSteps DEF LogStep
<1>4. ASSUME NEW n \in Node, CloseReader(n) \/ \E c \in Customer : Finish(c) /\ n = server[c]
      PROVE  LogStep(b)
  <2>1. /\ wal' = [wal EXCEPT ![n] = Flushed(@)]
        /\ UNCHANGED <<smr_log, last_index, committed_index, customer_record>>
    BY <1>4 DEF CloseReader, Finish, CloseSession
  <2> QED
    BY <1>1, <2>1 DEF LogStep, Keeps, TypeOK
<1>5. ASSUME NEW n \in Node, Restart(n) PROVE LogStep(b)
  <2>1. n # b
    BY <1>1, <1>5 DEF Restart, LockInv, RolesInv, Lives
  <2>2. Keeps(b)
    BY <1>1, <1>5, <2>1, RestartFrame DEF Keeps
  <2> QED
    BY <2>2 DEF LogStep
<1>6. ASSUME NEW n \in Node, AdminTake(n) PROVE LogStep(b)
  <2>1. PICK op : op = Head(admin_thread_list[n]).op
    OBVIOUS
  <2>2. /\ hb_conn[n] /\ last_index'[n] = last_index[n] + Ahead(op)
        /\ op = CommitOnly => smr_log'[n] = smr_log[n] /\ wal'[n] = wal[n]
        /\ op # CommitOnly => /\ op \in Order
                              /\ smr_log'[n] = Append(smr_log[n], op)
                              /\ wal'[n] = WriteLog(wal[n], op)
        /\ ifa[n] = None
        /\ \A m \in Node \ {n} :
              last_index'[m] = last_index[m] /\ smr_log'[m] = smr_log[m] /\ wal'[m] = wal[m]
        /\ UNCHANGED <<committed_index, customer_record>>
    <3>1. ifa[n] = None
      BY <1>6, TakeEffect, MasterCases DEF LockInv
    <3> QED
      BY <1>6, <2>1, <3>1, TakeEffect
  <2>3. CASE b # n
    BY <2>2, <2>3 DEF LogStep, Keeps
  <2>4. CASE b = n
    <3>1. last_index[n] \in Int /\ Len(smr_log[n]) = last_index[n] + 1
      BY <1>1, <2>2 DEF TypeOK, Index, LockInv, Lockstep, LogsTidy, Tidy
    <3>2. CASE op = CommitOnly
      <4>1. last_index'[n] = last_index[n]
        BY <2>2, <3>1, <3>2 DEF Ahead
      <4> QED
        BY <2>2, <2>4, <3>2, <4>1 DEF LogStep, Keeps
    <3>3. CASE op # CommitOnly
      <4>1. last_index'[n] = last_index[n] + 1
        BY <2>2, <3>1, <3>3 DEF Ahead
      <4>2. Logs(n, op)
        BY <2>2, <3>1, <3>3, <4>1 DEF Logs
      <4> QED
        BY <1>6, <2>1, <2>4, <4>2 DEF LogStep
    <3> QED
      BY <3>2, <3>3
  <2> QED
    BY <2>3, <2>4
<1>7. ASSUME NEW n \in Node, AdminRecheck(n), ~ \E w : Die(n, w) PROVE LogStep(b)
  <2>1. RecheckCommit(n) /\ UNCHANGED <<smr_log, last_index, wal>>
    BY <1>7 DEF AdminRecheck
  <2>2. CASE LastPending(n) /\ n = b
    <3>1. /\ committed_index'[b] = last_index[b]
          /\ customer_record'[b] = Apply(customer_record[b], At(smr_log[b], last_index[b]))
          /\ last_index[b] >= 0
      BY <1>1, <2>1, <2>2 DEF RecheckCommit, LastPending, TypeOK
    <3>2. /\ committed_index[b] \in {last_index[b] - 1, last_index[b]}
          /\ last_index[b] < Len(smr_log[b]) /\ last_index[b] # -1
      BY <1>1, <3>1, TidyIndexes DEF Index
    <3> QED
      BY <1>7, <2>1, <2>2, <3>1, <3>2 DEF LogStep, Advances
  <2>3. CASE ~(LastPending(n) /\ n = b)
    <3>1. committed_index'[b] = committed_index[b] /\ customer_record'[b] = customer_record[b]
      BY <1>1, <2>1, <2>3 DEF RecheckCommit, TypeOK
    <3> QED
      BY <2>1, <3>1 DEF LogStep, Keeps
  <2> QED
    BY <2>2, <2>3
<1>8. ASSUME NEW n \in Node, AdminCommit(n) PROVE LogStep(b)
  <2>1. /\ hb_conn[n] /\ Hand # None
        /\ committed_index[n] = last_index[n] - Ahead(Hand.op)
        /\ Hand.op = CommitOnly => customer_record'[n] = customer_record[n]
        /\ Hand.op # CommitOnly =>
              /\ At(smr_log[n], last_index[n]) = Hand.op
              /\ customer_record'[n] = Apply(customer_record[n], Hand.op)
        /\ committed_index'[n] = last_index[n]
        /\ \A m \in Node \ {n} : /\ committed_index'[m] = committed_index[m]
                                 /\ customer_record'[m] = customer_record[m]
        /\ UNCHANGED <<smr_log, last_index, wal>>
    BY <1>8, CommitEffect
  <2>2. CASE b # n
    BY <2>1, <2>2 DEF LogStep, Keeps
  <2>3. CASE b = n /\ Hand.op = CommitOnly
    <3>1. committed_index'[n] = committed_index[n]
      <4>1. last_index[n] \in Int
        BY <1>1 DEF TypeOK, Index
      <4> QED
        BY <2>1, <2>3, <4>1 DEF Ahead
    <3> QED
      BY <2>1, <2>3, <3>1 DEF LogStep, Keeps
  <2>4. CASE b = n /\ Hand.op # CommitOnly
    <3>1. committed_index[n] = last_index[n] - 1 /\ last_index[n] # -1
          /\ last_index[n] < Len(smr_log[n])
      BY <1>1, <2>1, <2>4, TidyIndexes DEF Ahead, Index
    <3> QED
      BY <1>8, <2>1, <2>4, <3>1 DEF LogStep, Advances
  <2> QED
    BY <2>2, <2>3, <2>4
<1>9. ASSUME NEW n \in Node, n # b, IfaThread(n), ~ \E w : Die(n, w) PROVE LogStep(b)
  <2>1. ~ \E p \in Node : IfaStray(p, n)
    BY <1>9 DEF IfaStray
  <2> QED
    BY <1>1, <1>9, <2>1, IfaFrame DEF IfaThread, LogStep, Keeps
<1>10. ASSUME NEW p \in Node, IfaRead(p, b) PROVE LogStep(b)
  <2>1. PICK req : req = OnWire(b)[1].req
    OBVIOUS
  <2>2. /\ Len(smr_log[b]) = last_index[b] + 1
        /\ req.op = CommitOnly => smr_log'[b] = smr_log[b] /\ wal'[b] = wal[b]
        /\ req.op # CommitOnly => /\ req.op \in Order
                                  /\ smr_log'[b] = Append(smr_log[b], req.op)
                                  /\ wal'[b] = Flushed(WriteLog(wal[b], req.op))
        /\ UNCHANGED <<last_index, committed_index, customer_record>>
    BY <1>1, <1>10, <2>1, ReadEffect
  <2>3. CASE req.op = CommitOnly
    BY <2>2, <2>3 DEF LogStep, Keeps
  <2>4. CASE req.op # CommitOnly
    <3>1. Logs(b, req.op)
      BY <2>2, <2>4 DEF Logs
    <3> QED
      BY <1>10, <2>1, <3>1 DEF LogStep
  <2> QED
    BY <2>3, <2>4
<1>11. CASE IfaApply(b)
  <2>1. /\ Fits(b, ifa[b].req) /\ Len(smr_log[b]) = ifa[b].req.last_index + 1
        /\ last_index'[b] = ifa[b].req.last_index /\ committed_index'[b] = last_index[b]
        /\ last_index[b] = -1 => customer_record'[b] = customer_record[b]
        /\ last_index[b] # -1 => customer_record'[b] =
              Apply(customer_record[b], At(smr_log[b], last_index[b]))
        /\ UNCHANGED <<smr_log, wal>>
    BY <1>1, <1>11, ApplyEffect
  <2>2. /\ committed_index[b] \in {last_index[b] - 1, last_index[b]} /\ last_index[b] \in Int
    BY <1>1, TidyIndexes DEF Index
  <2>3. last_index'[b] \in {last_index[b], last_index[b] + 1} /\ last_index'[b] < Len(smr_log[b])
    BY <2>1, <2>2 DEF Fits, Ahead
  <2> QED
    BY <1>11, <2>1, <2>2, <2>3 DEF LogStep, Advances
<1>12. ASSUME NEW n \in Node, IfaThread(n) PROVE LogStep(b)
  <2>1. CASE n # b
    BY <1>3, <1>9, <1>12, <2>1
  <2>2. CASE n = b
    BY <1>1, <1>10, <1>11, <1>12, <2>2, NoRecovery DEF IfaThread
  <2> QED
    BY <2>1, <2>2
<1>13. ASSUME NEW n \in Node, AdminThread(n) PROVE LogStep(b)
  <2>1. CASE AdminSkip(n) \/ AdminSend(n) \/ AdminAck(n) \/ AdminPeerGone(n)
    BY <1>2, <2>1 DEF AdminSkip, AdminSend, AdminAck, AdminPeerGone
  <2> QED
    BY <1>3, <1>6, <1>7, <1>8, <1>13, <2>1 DEF AdminThread
<1>14. ASSUME NEW c \in Customer,
             Connect(c) \/ PlaceOrder(c) \/ Ship(c) \/ Hangup(c) \/ Finish(c)
       PROVE  LogStep(b)
  <2>1. CASE Connect(c) \/ PlaceOrder(c) \/ Ship(c) \/ Hangup(c)
    BY <1>2, <2>1 DEF Connect, PlaceOrder, Ship, Hangup
  <2>2. CASE Finish(c)
    <3>1. CASE server[c] \in Node
      BY <1>4, <2>2, <3>1
    <3>2. CASE server[c] \notin Node
      <4>1. [wal EXCEPT ![server[c]] = Flushed(@)] = wal
        BY <1>1, <3>2 DEF TypeOK
      <4> QED
        BY <1>2, <2>2, <4>1 DEF Finish, CloseSession, logVars
    <3> QED
      BY <3>1, <3>2
  <2> QED
    BY <1>14, <2>1, <2>2
<1>15. ASSUME NEW n \in Node, CloseReader(n) \/ Crash(n) \/ Restart(n) \/ HeartBeat(n)
       PROVE  LogStep(b)
  BY <1>2, <1>3, <1>4, <1>5, <1>15 DEF HeartBeat, Crash
<1>16. CASE UNCHANGED vars
  BY <1>2, <1>16 DEF vars
<1> QED
  BY <1>1, <1>12, <1>13, <1>14, <1>15, <1>16 DEF Next

-----------------------------------------------------------------------------
(***************************************************************************)
(* The file and the customer record follow the log.                        *)
(***************************************************************************)

\* All that was written to a CommitLog.
Written(w) == w.file \o w.buffer \o w.batch

LEMMA WrittenSteps ==
    ASSUME NEW E, NEW w \in Wal(E), NEW e \in E
    PROVE  /\ Flushed(w) \in Wal(E) /\ WriteLog(w, e) \in Wal(E)
           /\ Written(Flushed(w)) = Written(w)
           /\ Written(WriteLog(w, e)) = Append(Written(w), e)
<1> DEFINE X == E \cup {Bad}
<1>1. w.file \in Seq(X) /\ w.buffer \in Seq(X) /\ w.batch \in Seq(X) /\ w.batch \in Seq(E)
  BY WalType
<1>2. Append(w.batch, e) \in Seq(X) /\ Append(w.batch, e) = w.batch \o <<e>> /\ <<e>> \in Seq(X)
  <2>1. e \in X
    OBVIOUS
  <2>2. <<e>> \in Seq(X)
    BY <2>1, SingleType
  <2> QED
    BY <1>1, <2>1, <2>2, AppendProperties, AppendIsConcat
<1>3. w.file \o w.buffer \in Seq(X) /\ (w.file \o w.buffer) \o <<>> = w.file \o w.buffer
  BY <1>1, ConcatProperties, ConcatEmptySeq
<1>4. Flushed(w) \in Wal(E) /\ Written(Flushed(w)) = Written(w)
  <2>1. /\ Flushed(w) \in Wal(E) /\ Flushed(w).file = w.file \o w.buffer
        /\ Flushed(w).buffer = <<>> /\ Flushed(w).batch = w.batch
    BY FlushedFields
  <2> QED
    BY <1>3, <2>1 DEF Written
<1>5. Append(Written(w), e) = ((w.file \o w.buffer) \o w.batch) \o <<e>>
  <2>1. (w.file \o w.buffer) \o w.batch \in Seq(X) /\ e \in X
    BY <1>1, <1>3, ConcatProperties
  <2> QED
    BY <2>1, AppendIsConcat DEF Written
<1>6. Append(Written(w), e) = (w.file \o w.buffer) \o Append(w.batch, e)
  <2>1. PICK x, y, z : x = w.file \o w.buffer /\ y = w.batch /\ z = <<e>>
    OBVIOUS
  <2> HIDE DEF X
  <2>2. x \in Seq(X) /\ y \in Seq(X) /\ z \in Seq(X)
    BY <1>1, <1>2, <1>3, <2>1
  <2>3. (x \o y) \o z = x \o (y \o z)
    BY <2>2, ConcatAssociative
  <2> QED
    BY <1>2, <1>5, <2>1, <2>3
<1>7. (w.file \o w.buffer) \o Append(w.batch, e) = w.file \o (w.buffer \o Append(w.batch, e))
  <2>1. PICK x, y, z : x = w.file /\ y = w.buffer /\ z = Append(w.batch, e)
    OBVIOUS
  <2> HIDE DEF X
  <2>2. x \in Seq(X) /\ y \in Seq(X) /\ z \in Seq(X)
    BY <1>1, <1>2, <2>1
  <2>3. (x \o y) \o z = x \o (y \o z)
    BY <2>2, ConcatAssociative
  <2> QED
    BY <2>1, <2>3
<1>8. \A s \in Seq(X) : (s \o <<>>) \o <<>> = s /\ s \o <<>> = s
  BY ConcatEmptySeq
<1>9. w.file \o (w.buffer \o Append(w.batch, e)) \in Seq(X)
  BY <1>1, <1>2, ConcatProperties
<1>10. WriteLog(w, e) \in Wal(E)
  BY WriteLogFields
<1> HIDE DEF X
<1>11. CASE Len(w.batch) + 1 < BatchSize
  <2>1. /\ WriteLog(w, e).file = w.file /\ WriteLog(w, e).buffer = w.buffer
        /\ WriteLog(w, e).batch = Append(w.batch, e)
    BY <1>11, WriteLogFields
  <2> QED
    BY <1>4, <1>6, <1>10, <2>1 DEF Written
<1>12. CASE ~(Len(w.batch) + 1 < BatchSize) /\ (FFlush \/ BatchSize > 1)
  <2>1. /\ WriteLog(w, e).file = w.file \o (w.buffer \o Append(w.batch, e))
        /\ WriteLog(w, e).buffer = <<>> /\ WriteLog(w, e).batch = <<>>
    BY <1>12, WriteLogFields
  <2> QED
    BY <1>4, <1>6, <1>7, <1>8, <1>9, <1>10, <2>1 DEF Written
<1>13. CASE ~(Len(w.batch) + 1 < BatchSize) /\ ~(FFlush \/ BatchSize > 1)
  <2>1. /\ WriteLog(w, e).file = w.file
        /\ WriteLog(w, e).buffer = w.buffer \o Append(w.batch, e)
        /\ WriteLog(w, e).batch = <<>>
    BY <1>13, WriteLogFields
  <2> QED
    BY <1>4, <1>6, <1>7, <1>8, <1>9, <1>10, <2>1 DEF Written
<1> QED
  BY <1>11, <1>12, <1>13

\* The entries of c among the first of a log.
Mine(log, n, c) == {i \in 0 .. n : At(log, i) # Garbage /\ At(log, i).arg1 = c}

\* Replay looks only at the entries of a customer, and of these at the last.
LEMMA ReplayAgrees ==
    ASSUME NEW c \in Customer, NEW log, NEW n, NEW log2, NEW n2,
           Mine(log, n, c) = Mine(log2, n2, c),
           \A i \in Mine(log, n, c) : At(log, i) = At(log2, i)
    PROVE  Replay(log, n)[c] = Replay(log2, n2)[c]
<1> DEFINE last(M) == {i \in M : \A j \in M : j <= i}
           M == Mine(log, n, c)
<1>1. Replay(log, n)[c] = IF last(M) = {} THEN 0 ELSE At(log, CHOOSE i \in last(M) : TRUE).arg2
  BY DEF Replay, Mine
<1>2. Replay(log2, n2)[c] = IF last(M) = {} THEN 0 ELSE At(log2, CHOOSE i \in last(M) : TRUE).arg2
  <2>1. Replay(log2, n2)[c] = IF last(Mine(log2, n2, c)) = {} THEN 0
                              ELSE At(log2, CHOOSE i \in last(Mine(log2, n2, c)) : TRUE).arg2
    BY DEF Replay, Mine
  <2> QED
    BY <2>1
<1>3. last(M) # {} => (CHOOSE i \in last(M) : TRUE) \in last(M)
  <2> PICK L : L = last(M)
    OBVIOUS
  <2> HIDE DEF last
  <2> QED
    OBVIOUS
<1>4. last(M) # {} => (CHOOSE i \in last(M) : TRUE) \in M
  BY <1>3
<1> HIDE DEF last, M
<1> QED
  BY <1>1, <1>2, <1>4 DEF M

LEMMA ReplayValue ==
    ASSUME NEW c \in Customer, NEW log, NEW n \in Int, NEW k \in Mine(log, n, c),
           \A j \in Mine(log, n, c) : j <= k
    PROVE  Replay(log, n)[c] = At(log, k).arg2
<1> DEFINE last == {i \in Mine(log, n, c) : \A j \in Mine(log, n, c) : j <= i}
<1>1. Replay(log, n)[c] = IF last = {} THEN 0 ELSE At(log, CHOOSE i \in last : TRUE).arg2
  BY DEF Replay, Mine
<1>2. \A i \in Mine(log, n, c) : i \in Int
  BY DEF Mine
<1>3. last = {k}
  BY <1>2
<1>4. (CHOOSE i \in {k} : TRUE) = k
  OBVIOUS
<1> QED
  BY <1>1, <1>3, <1>4

LEMMA ReplayNothing ==
    ASSUME NEW c \in Customer, NEW log, NEW n, Mine(log, n, c) = {}
    PROVE  Replay(log, n)[c] = 0
<1> DEFINE last == {i \in Mine(log, n, c) : \A j \in Mine(log, n, c) : j <= i}
<1>1. Replay(log, n)[c] = IF last = {} THEN 0 ELSE At(log, CHOOSE i \in last : TRUE).arg2
  BY DEF Replay, Mine
<1>2. last = {}
  OBVIOUS
<1> QED
  BY <1>1, <1>2

\* To apply the next entry, or the last one again, is to replay up to there.
LEMMA ApplyReplays ==
    ASSUME NEW log \in Seq(Entry), NEW k \in Nat, k < Len(log), NEW j \in {k - 1, k}
    PROVE  Apply(Replay(log, j), At(log, k)) = Replay(log, k)
<1> DEFINE e == At(log, k)
<1>1. e \in Order \cup {Garbage} /\ Garbage \notin Order
  <2>1. InRange(log, k)
    BY DEF InRange
  <2> QED
    BY <2>1, AtType, OpAssumption DEF Entry
<1>2. Replay(log, j) \in [Customer -> 0 .. MaxOrders] /\ Replay(log, k) \in [Customer -> 0 .. MaxOrders]
  BY ReplayType, LenProperties
<1>3. ASSUME NEW c \in Customer, e = Garbage \/ e.arg1 # c
      PROVE  Replay(log, j)[c] = Replay(log, k)[c]
  <2>1. Mine(log, j, c) = Mine(log, k, c)
    <3>1. \A i : i \in 0 .. k <=> i \in 0 .. j \/ i = k
      OBVIOUS
    <3>2. ~(At(log, k) # Garbage /\ At(log, k).arg1 = c)
      BY <1>3
    <3> QED
      BY <3>1, <3>2 DEF Mine
  <2> QED
    BY <2>1, ReplayAgrees
<1>4. CASE e = Garbage
  <2>1. Apply(Replay(log, j), e) = Replay(log, j)
    BY <1>4 DEF Apply
  <2> QED
    BY <1>2, <1>3, <1>4, <2>1
<1>5. CASE e # Garbage
  <2>1. Apply(Replay(log, j), e) = [Replay(log, j) EXCEPT ![e.arg1] = e.arg2]
    BY <1>5 DEF Apply
  <2>2. e.arg1 \in Customer /\ e.arg2 \in 1 .. MaxOrders
    BY <1>1, <1>5 DEF Order
  <2>3. Replay(log, k)[e.arg1] = e.arg2
    <3>1. k \in Mine(log, k, e.arg1) /\ \A i \in Mine(log, k, e.arg1) : i <= k
      BY <1>5 DEF Mine
    <3> QED
      BY <2>2, <3>1, ReplayValue
  <2> HIDE DEF e
  <2>4. \A c \in Customer : [Replay(log, j) EXCEPT ![e.arg1] = e.arg2][c] = Replay(log, k)[c]
    BY <1>2, <1>3, <2>2, <2>3
  <2>5. [Replay(log, j) EXCEPT ![e.arg1] = e.arg2] \in [Customer -> 0 .. MaxOrders]
    BY <1>2, <2>2, <2>3
  <2>6. [Replay(log, j) EXCEPT ![e.arg1] = e.arg2] = Replay(log, k)
    BY <1>2, <2>4, <2>5
  <2> QED
    BY <2>1, <2>6 DEF e
<1> QED
  BY <1>4, <1>5

\* An entry at the end makes no difference to the ones before.
LEMMA AppendReplays ==
    ASSUME NEW log \in Seq(Entry), NEW e \in Entry, NEW n \in Int, n < Len(log)
    PROVE  Replay(Append(log, e), n) = Replay(log, n)
<1>1. PICK log2 : log2 = Append(log, e)
  OBVIOUS
<1>2. log2 \in Seq(Entry) /\ Len(log2) = Len(log) + 1 /\ \A i \in 1 .. Len(log) : log2[i] = log[i]
  BY <1>1, AppendProperties
<1>3. \A i \in 0 .. n : At(log2, i) = At(log, i)
  <2>1. \A i \in 0 .. n : i + 1 \in 1 .. Len(log)
    BY LenProperties
  <2> QED
    BY <1>2, <2>1 DEF At
<1>4. Replay(log, n) \in [Customer -> 0 .. MaxOrders] /\ Replay(log2, n) \in [Customer -> 0 .. MaxOrders]
  BY <1>2, ReplayType, LenProperties
<1>5. \A c \in Customer : Replay(log2, n)[c] = Replay(log, n)[c]
  BY <1>3, ReplayAgrees DEF Mine
<1> QED
  BY <1>1, <1>4, <1>5

\* The file lists what the log lists, and the record is what it adds up to.
Books(b) ==
    /\ Written(wal[b]) = smr_log[b]
    /\ customer_record[b] = Replay(smr_log[b], committed_index[b])

BooksKept == \A b \in Node : hb_conn[b] => Books(b)

LEMMA ReplayEmpty == Replay(<<>>, -1) = [c \in Customer |-> 0]
<1>1. PICK log, n : log = <<>> /\ n = -1
  OBVIOUS
<1>2. log \in Seq(Entry) /\ n \in Int /\ n < Len(log)
  BY <1>1, EmptySeq
<1>5. Replay(log, n) \in [Customer -> 0 .. MaxOrders]
  BY <1>2, ReplayType
<1>3. \A c \in Customer : Mine(<<>>, -1, c) = {}
  BY DEF Mine
<1>4. \A c \in Customer : Replay(<<>>, -1)[c] = 0
  BY <1>3, ReplayNothing
<1> QED
  BY <1>1, <1>4, <1>5

LEMMA InitBooks == Init => BooksKept
<1> SUFFICES ASSUME Init, NEW b \in Node PROVE Books(b)
  BY DEF BooksKept
<1>1. Written(EmptyWal) = <<>>
  <2>1. <<>> \in Seq(Entry)
    BY EmptySeq
  <2>2. <<>> \o <<>> = <<>>
    BY <2>1, ConcatEmptySeq
  <2> QED
    BY <2>2 DEF Written, EmptyWal
<1>2. Replay(<<>>, -1) = [c \in Customer |-> 0]
  BY ReplayEmpty
<1> QED
  BY <1>1, <1>2 DEF Init, Books

LEMMA NextBooks ==
    ASSUME LockInv, BooksKept, [Next]_vars
    PROVE  BooksKept'
<1> SUFFICES ASSUME NEW b \in Node, hb_conn'[b] PROVE Books(b)'
  BY DEF BooksKept
<1>1. hb_conn[b] /\ LogStep(b) /\ Books(b)
  BY LogSteps DEF BooksKept
<1>2. /\ wal[b] \in Wal(Entry) /\ smr_log[b] \in Seq(Entry)
      /\ last_index[b] \in Index /\ committed_index[b] \in Index
      /\ committed_index[b] \in {last_index[b] - 1, last_index[b]}
      /\ Len(smr_log[b]) \in Nat /\ last_index[b] < Len(smr_log[b])
  <2>1. wal[b] \in Wal(Entry)
    BY DEF LockInv, RolesInv, BInv, TypeOK
  <2> QED
    BY <1>1, <2>1, TidyIndexes DEF Index
<1>3. CASE Keeps(b)
  <2>1. \A e \in Entry : Written(Flushed(wal[b])) = Written(wal[b])
    BY <1>2, WrittenSteps
  <2>2. Garbage \in Entry
    BY DEF Entry
  <2>3. Written(wal'[b]) = Written(wal[b])
    BY <1>3, <2>1, <2>2 DEF Keeps
  <2> QED
    BY <1>1, <1>3, <2>3 DEF Keeps, Books, Written
<1>4. ASSUME NEW op, Logs(b, op) PROVE Books(b)'
  <2>1. op \in Entry
    BY <1>4 DEF Logs, Entry
  <2>2. /\ Written(WriteLog(wal[b], op)) = Append(Written(wal[b]), op)
        /\ WriteLog(wal[b], op) \in Wal(Entry)
    BY <1>2, <2>1, WrittenSteps
  <2>3. PICK w \in Wal(Entry) : w = WriteLog(wal[b], op)
    BY <2>2
  <2>4. Written(Flushed(w)) = Written(w)
    BY <2>1, WrittenSteps
  <2>5. Written(wal'[b]) = Append(smr_log[b], op)
    BY <1>1, <1>4, <2>2, <2>3, <2>4 DEF Logs, Books
  <2>6. Replay(Append(smr_log[b], op), committed_index[b]) = Replay(smr_log[b], committed_index[b])
    <3>1. committed_index[b] \in Int /\ committed_index[b] < Len(smr_log[b])
      BY <1>2 DEF Index
    <3> QED
      BY <1>2, <2>1, <3>1, AppendReplays
  <2> QED
    BY <1>1, <1>4, <2>5, <2>6 DEF Logs, Books, Written
<1>5. CASE Advances(b)
  <2>1. CASE last_index[b] = -1
    <3>1. committed_index[b] = -1
      BY <1>2, <2>1 DEF Index
    <3>2. committed_index'[b] = -1 /\ customer_record'[b] = customer_record[b]
      BY <1>5, <2>1 DEF Advances
    <3> QED
      BY <1>1, <1>5, <3>1, <3>2 DEF Advances, Books, Written
  <2>2. CASE last_index[b] # -1
    <3>1. last_index[b] \in Nat
      BY <1>2, <2>2 DEF Index
    <3>2. Apply(Replay(smr_log[b], committed_index[b]), At(smr_log[b], last_index[b]))
             = Replay(smr_log[b], last_index[b])
      BY <1>2, <3>1, ApplyReplays
    <3> QED
      BY <1>1, <1>5, <2>2, <3>2 DEF Advances, Books, Written
  <2> QED
    BY <2>1, <2>2
<1> QED
  BY <1>1, <1>3, <1>4, <1>5 DEF LogStep

-----------------------------------------------------------------------------
(***************************************************************************)
(* Shipped orders.                                                         *)
(***************************************************************************)

\* A step as the customers see it.
CustomerStep ==
    \/ /\ UNCHANGED <<ordered, acked>>
       /\ \A c \in Customer : engineer'[c] \in {engineer[c], "lost"}
    \/ \E c \in Customer : Connect(c) \/ PlaceOrder(c) \/ Ship(c) \/ Hangup(c) \/ Finish(c)
    \/ \E n \in Node : AdminCommit(n)

LEMMA CustomerSteps == ASSUME LockInv, [Next]_vars PROVE CustomerStep
<1>1. ASSUME NEW n \in Node, NEW w, Die(n, w) PROVE CustomerStep
  BY <1>1, DieSteps DEF CustomerStep
<1>2. CASE UNCHANGED clientVars
  BY <1>2 DEF CustomerStep, clientVars
<1>3. ASSUME NEW n \in Node, CloseReader(n) \/ Crash(n) \/ Restart(n) \/ HeartBeat(n)
      PROVE  CustomerStep
  BY <1>1, <1>2, <1>3 DEF CloseReader, Crash, Restart, HeartBeat
<1>4. ASSUME NEW n \in Node, AdminThread(n) PROVE CustomerStep
  <2>1. CASE AdminCommit(n)
    BY <2>1 DEF CustomerStep
  <2>2. CASE ~AdminCommit(n)
    BY <1>1, <1>2, <1>4, <2>2 DEF AdminThread, AdminRecheck, AdminTake, AdminSkip, AdminSend,
       AdminAck, AdminPeerGone
  <2> QED
    BY <2>1, <2>2
<1>5. ASSUME NEW n \in Node, IfaThread(n) PROVE CustomerStep
  BY <1>1, <1>2, <1>5 DEF IfaThread, IfaRead, IfaStray, RecoverRead, RecoverFail, RecoverWrite,
     IfaApply
<1>6. CASE UNCHANGED vars
  BY <1>2, <1>6 DEF vars
<1> QED
  BY <1>3, <1>4, <1>5, <1>6 DEF Next, CustomerStep

\* A server that does not die takes nothing back.
LEMMA HoldsStays ==
    ASSUME LockInv, [Next]_vars, NEW b \in Node, hb_conn'[b], NEW o, Holds(b, o)
    PROVE  Holds(b, o)'
<1>1. hb_conn[b] /\ LogStep(b)
  BY LogSteps
<1>2. /\ last_index[b] \in Index /\ smr_log[b] \in Seq(Entry) /\ Len(smr_log[b]) \in Nat
      /\ Logged(b) = 0 .. last_index[b]
  BY <1>1, TidyIndexes
<1>3. PICK i \in 0 .. last_index[b] : InRange(smr_log[b], i) /\ At(smr_log[b], i) = o
  BY <1>2 DEF Holds, Logged
<1>4. last_index'[b] \in {last_index[b], last_index[b] + 1}
  BY <1>1 DEF LogStep, Keeps, Logs, Advances
<1>5. i \in 0 .. last_index'[b]
  BY <1>2, <1>3, <1>4 DEF Index
<1>6. InRange(smr_log'[b], i) /\ At(smr_log'[b], i) = o
  <2>1. CASE smr_log'[b] = smr_log[b]
    BY <1>3, <2>1
  <2>2. ASSUME NEW op \in Order, smr_log'[b] = Append(smr_log[b], op)
        PROVE  InRange(smr_log'[b], i) /\ At(smr_log'[b], i) = o
    <3>1. PICK log : log = smr_log'[b]
      OBVIOUS
    <3>2. Len(log) = Len(smr_log[b]) + 1 /\ \A k \in 1 .. Len(smr_log[b]) : log[k] = smr_log[b][k]
      BY <1>2, <2>2, <3>1, AppendProperties DEF Entry
    <3>3. i + 1 \in 1 .. Len(smr_log[b])
      BY <1>2, <1>3 DEF InRange
    <3>4. InRange(log, i) /\ At(log, i) = o
      BY <1>2, <1>3, <3>2, <3>3 DEF InRange, At
    <3> QED
      BY <3>1, <3>4
  <2> QED
    BY <1>1, <2>1, <2>2 DEF LogStep, Keeps, Logs, Advances
<1> QED
  BY <1>5, <1>6 DEF Holds, Logged

\* The order that c placed last.
LastOrder(c) == [arg1 |-> c, arg2 |-> ordered[c]]

\* Every server that has never died holds the orders that were shipped and those
\* that are about to be.
Held ==
    \A b \in Node : hb_conn[b] =>
        /\ \A o \in acked : Holds(b, o)
        /\ \A c \in Customer : engineer[c] = "ready" => Holds(b, LastOrder(c))

\* The request in the master's hands is that of an engineer thread that waits.
LEMMA HandIsWaitedFor ==
    ASSUME LockInv, Hand # None
    PROVE  /\ Hand.eng \in Customer /\ AtBarrier(Hand.eng) /\ Hand = RequestOf(Hand.eng)
           /\ Hand.op # CommitOnly => engineer[Hand.eng] = "waiting" /\ Hand.op = LastOrder(Hand.eng)
<1>1. TypeOK /\ master_node_id \in Node /\ admin[master_node_id] \in AdminState
  BY DEF LockInv, RolesInv, BInv, TypeOK
<1>2. Hand \in Request
  BY <1>1, AdminStateCases DEF Hand
<1>3. PICK r : r = Requests(master_node_id)
  OBVIOUS
<1>4. 1 \in 1 .. Len(r) /\ r[1] = Hand
  <2>1. <<Hand>> \in Seq(Request) /\ admin_thread_list[master_node_id] \in Seq(Request)
        /\ Len(<<Hand>>) = 1 /\ <<Hand>>[1] = Hand
    BY <1>1, <1>2, SingleType DEF TypeOK
  <2>2. r = <<Hand>> \o admin_thread_list[master_node_id]
    BY <1>3 DEF Requests, Hand
  <2> QED
    BY <2>1, <2>2, ConcatProperties, LenProperties
<1>5. AtBarrier(Hand.eng) /\ Hand = RequestOf(Hand.eng)
  BY <1>1, <1>3, <1>4 DEF LockInv, RolesInv, BInv, BarrierDiscipline, NoDanglingRequest
<1> QED
  BY <1>2, <1>5 DEF Request, RequestOf, AtBarrier, LastOrder

\* When the admin thread sets the barrier of an order, all have it.
LEMMA CommitHolds ==
    ASSUME LockInv, NEW n \in Node, AdminCommit(n), Hand.op # CommitOnly
    PROVE  \A b \in Node : hb_conn[b] => Holds(b, Hand.op)
<1>1. n = master_node_id /\ hb_conn[n] /\ Hand # None /\ admin[n].todo = <<>>
      /\ committed_index[n] = last_index[n] - 1 /\ At(smr_log[n], last_index[n]) = Hand.op
  BY CommitEffect DEF Ahead
<1>2. last_index[n] \in Index /\ committed_index[n] \in Index
  BY DEF LockInv, RolesInv, BInv, TypeOK
<1>3. last_index[n] \in 0 .. last_index[n]
  BY <1>1, <1>2 DEF Index
<1>4. SUFFICES ASSUME NEW b \in Node, hb_conn[b] PROVE Holds(b, Hand.op)
  OBVIOUS
<1>5. smr_log[b] = smr_log[n] /\ last_index[b] = last_index[n]
  BY <1>1, <1>4, NobodyBehind
<1>6. Logged(b) = 0 .. last_index[b]
  BY <1>4, TidyIndexes
<1> QED
  BY <1>1, <1>3, <1>5, <1>6 DEF Holds

LEMMA InitHeld == Init => Held
BY DEF Init, Held

LEMMA NextHeld ==
    ASSUME LockInv, Held, [Next]_vars
    PROVE  Held'
<1> SUFFICES ASSUME NEW b \in Node, hb_conn'[b]
             PROVE  /\ \A o \in acked' : Holds(b, o)'
                    /\ \A c \in Customer : engineer'[c] = "ready" => Holds(b, LastOrder(c))'
  BY DEF Held
<1>1. hb_conn[b] /\ TypeOK
  BY LogSteps DEF LockInv, RolesInv, BInv
<1>2. \A o : Holds(b, o) => Holds(b, o)'
  BY HoldsStays
<1>3. (\A o \in acked : Holds(b, o)')
      /\ \A c \in Customer : engineer[c] = "ready" => \E o : o = LastOrder(c) /\ Holds(b, o)'
  BY <1>1, <1>2 DEF Held
<1>4. CASE /\ UNCHANGED <<ordered, acked>>
           /\ \A c \in Customer : engineer'[c] \in {engineer[c], "lost"}
  BY <1>3, <1>4 DEF LastOrder
<1>5. ASSUME NEW c \in Customer, Connect(c) \/ PlaceOrder(c) \/ Hangup(c) \/ Finish(c)
      PROVE  /\ \A o \in acked' : Holds(b, o)'
             /\ \A k \in Customer : engineer'[k] = "ready" => Holds(b, LastOrder(k))'
  <2>1. /\ acked' = acked /\ engineer'[c] # "ready"
        /\ \A k \in Customer \ {c} : engineer'[k] = engineer[k] /\ ordered'[k] = ordered[k]
    BY <1>1, <1>5 DEF Connect, PlaceOrder, Hangup, Finish, TypeOK
  <2> QED
    BY <1>3, <2>1 DEF LastOrder
<1>6. ASSUME NEW c \in Customer, Ship(c)
      PROVE  /\ \A o \in acked' : Holds(b, o)'
             /\ \A k \in Customer : engineer'[k] = "ready" => Holds(b, LastOrder(k))'
  <2>1. /\ acked' = acked \cup {[arg1 |-> c, arg2 |-> ordered[c]]} /\ ordered' = ordered
        /\ engineer[c] = "ready" /\ engineer'[c] # "ready"
        /\ \A k \in Customer \ {c} : engineer'[k] = engineer[k]
    BY <1>1, <1>6 DEF Ship, TypeOK
  <2> QED
    BY <1>3, <2>1 DEF LastOrder
<1>7. ASSUME NEW n \in Node, AdminCommit(n)
      PROVE  /\ \A o \in acked' : Holds(b, o)'
             /\ \A k \in Customer : engineer'[k] = "ready" => Holds(b, LastOrder(k))'
  <2>1. /\ UNCHANGED <<ordered, acked>> /\ n = master_node_id /\ Hand # None
        /\ engineer' = [engineer EXCEPT ![Hand.eng] =
                           IF Hand.op = CommitOnly THEN "released" ELSE "ready"]
    BY <1>7, CommitEffect DEF AdminCommit, Hand, IsAnnouncement
  <2>2. Hand.op # CommitOnly => \E o : o = LastOrder(Hand.eng) /\ Holds(b, o)'
    BY <1>1, <1>2, <1>7, <2>1, CommitHolds, HandIsWaitedFor
  <2>3. \A k \in Customer : engineer'[k] = "ready" =>
            engineer[k] = "ready" \/ (k = Hand.eng /\ Hand.op # CommitOnly)
    BY <1>1, <2>1 DEF TypeOK
  <2> QED
    BY <1>3, <2>1, <2>2, <2>3 DEF LastOrder
<1> QED
  BY <1>4, <1>5, <1>6, <1>7, CustomerSteps DEF CustomerStep

\* The last order of a customer who waits for none was shipped, and so was the
\* one before the order it waits for.
Numbers ==
    \A c \in Customer :
        /\ engineer[c] = "new" => ordered[c] = 0
        /\ engineer[c] \in {"idle", "closing", "released"} /\ ordered[c] > 0 =>
              LastOrder(c) \in acked
        /\ engineer[c] \in {"waiting", "ready"} =>
              /\ ordered[c] > 0
              /\ ordered[c] > 1 => [arg1 |-> c, arg2 |-> ordered[c] - 1] \in acked

LEMMA InitNumbers == Init => Numbers
BY DEF Init, Numbers

LEMMA NextNumbers ==
    ASSUME LockInv, Numbers, [Next]_vars
    PROVE  Numbers'
<1>1. TypeOK /\ ordered \in [Customer -> Nat]
  BY DEF LockInv, RolesInv, BInv, TypeOK
<1>2. CASE /\ UNCHANGED <<ordered, acked>>
           /\ \A c \in Customer : engineer'[c] \in {engineer[c], "lost"}
  BY <1>2 DEF Numbers, LastOrder
<1>3. ASSUME NEW c \in Customer, Connect(c) \/ Hangup(c) \/ Finish(c) PROVE Numbers'
  <2>1. /\ acked' = acked /\ ordered' = ordered
        /\ \A k \in Customer \ {c} : engineer'[k] = engineer[k]
        /\ \/ engineer[c] = "new" /\ engineer'[c] \in {"idle", "lost"}
           \/ engineer[c] = "idle" /\ engineer'[c] = "closing"
           \/ engineer'[c] = "gone"
    BY <1>1, <1>3 DEF Connect, Hangup, Finish, TypeOK
  <2> QED
    BY <1>1, <2>1 DEF Numbers, LastOrder
<1>4. ASSUME NEW c \in Customer, PlaceOrder(c) PROVE Numbers'
  <2>1. /\ acked' = acked /\ engineer[c] = "idle" /\ engineer'[c] = "waiting"
        /\ ordered'[c] = ordered[c] + 1
        /\ \A k \in Customer \ {c} : engineer'[k] = engineer[k] /\ ordered'[k] = ordered[k]
    BY <1>1, <1>4 DEF PlaceOrder, TypeOK
  <2>2. ordered[c] \in Nat /\ ordered'[c] - 1 = ordered[c] /\ ordered'[c] > 0
    BY <1>1, <2>1
  <2>3. /\ \A k \in Customer \ {c} : LastOrder(k)' = LastOrder(k)
        /\ [arg1 |-> c, arg2 |-> ordered'[c] - 1] = LastOrder(c)
        /\ ordered'[c] > 1 => ordered[c] > 0
    BY <2>1, <2>2 DEF LastOrder
  <2>4. ordered'[c] > 1 => [arg1 |-> c, arg2 |-> ordered'[c] - 1] \in acked'
    BY <2>1, <2>3 DEF Numbers
  <2> QED
    BY <2>1, <2>2, <2>3, <2>4 DEF Numbers
<1>5. ASSUME NEW c \in Customer, Ship(c) PROVE Numbers'
  <2>1. /\ acked' = acked \cup {LastOrder(c)} /\ ordered' = ordered
        /\ engineer'[c] = "idle"
        /\ \A k \in Customer \ {c} : engineer'[k] = engineer[k]
    BY <1>1, <1>5 DEF Ship, TypeOK, LastOrder
  <2> QED
    BY <1>1, <2>1 DEF Numbers, LastOrder
<1>6. ASSUME NEW n \in Node, AdminCommit(n) PROVE Numbers'
  <2>1. /\ UNCHANGED <<ordered, acked>> /\ n = master_node_id /\ Hand # None
        /\ engineer' = [engineer EXCEPT ![Hand.eng] =
                           IF Hand.op = CommitOnly THEN "released" ELSE "ready"]
    BY <1>6, CommitEffect DEF AdminCommit, Hand, IsAnnouncement
  <2>2. /\ Hand.op # CommitOnly => engineer[Hand.eng] = "waiting"
        /\ Hand.op = CommitOnly => engineer[Hand.eng] = "closing"
    <3>1. Hand.eng \in Customer /\ AtBarrier(Hand.eng) /\ Hand = RequestOf(Hand.eng)
          /\ (Hand.op # CommitOnly => engineer[Hand.eng] = "waiting")
      BY <2>1, HandIsWaitedFor
    <3>2. ASSUME Hand.op = CommitOnly, engineer[Hand.eng] = "waiting" PROVE FALSE
      <4>1. CommitOnly = [arg1 |-> Hand.eng, arg2 |-> ordered[Hand.eng]]
        BY <3>1, <3>2 DEF RequestOf
      <4>2. \A c \in Customer : engineer[c] = "waiting" => ordered[c] \in 1 .. MaxOrders
        <5>1. ASSUME NEW c \in Customer, engineer[c] = "waiting" PROVE ordered[c] > 0
          BY <5>1 DEF Numbers
        <5>2. \A c \in Customer : ordered[c] \in 0 .. MaxOrders
          BY <1>1 DEF TypeOK
        <5> QED
          BY <5>1, <5>2, BoundsAssumption
      <4> QED
        BY <3>1, <3>2, <4>1, <4>2, OpAssumption DEF Order
    <3> QED
      BY <3>1, <3>2 DEF AtBarrier
  <2>3. \A k \in Customer :
            \/ engineer'[k] = engineer[k]
            \/ engineer[k] = "waiting" /\ engineer'[k] = "ready"
            \/ engineer[k] = "closing" /\ engineer'[k] = "released"
    BY <1>1, <2>1, <2>2 DEF TypeOK
  <2> QED
    BY <1>1, <2>1, <2>3 DEF Numbers, LastOrder
<1> QED
  BY <1>2, <1>3, <1>4, <1>5, <1>6, CustomerSteps DEF CustomerStep

-----------------------------------------------------------------------------
(***************************************************************************)
(* The order of the orders in a log.                                       *)
(***************************************************************************)

\* A log lists orders only: those of a customer in sequence, without a gap, and
\* up to the last one it has placed, num[c].
InOrder(log, num) ==
    \A i \in 1 .. Len(log) :
        /\ log[i] \in Order /\ log[i].arg2 <= num[log[i].arg1]
        /\ \A j \in 1 .. i - 1 : log[j].arg1 = log[i].arg1 => log[j].arg2 < log[i].arg2
        /\ log[i].arg2 > 1 => \E j \in 1 .. i - 1 :
               log[j].arg1 = log[i].arg1 /\ log[j].arg2 = log[i].arg2 - 1

LEMMA InOrderGrows ==
    ASSUME NEW log \in Seq(Entry), NEW num \in [Customer -> Int], NEW num2 \in [Customer -> Int],
           \A c \in Customer : num[c] <= num2[c], InOrder(log, num)
    PROVE  InOrder(log, num2)
<1>1. \A o \in Order : o.arg1 \in Customer /\ o.arg2 \in Int
  BY DEF Order
<1>2. ASSUME NEW i \in 1 .. Len(log) PROVE log[i].arg2 <= num2[log[i].arg1]
  <2>1. log[i].arg1 \in Customer /\ log[i].arg2 \in Int /\ log[i].arg2 <= num[log[i].arg1]
    BY <1>1 DEF InOrder
  <2>2. num[log[i].arg1] \in Int /\ num2[log[i].arg1] \in Int
        /\ num[log[i].arg1] <= num2[log[i].arg1]
    BY <2>1
  <2> QED
    BY <2>1, <2>2
<1> QED
  BY <1>2 DEF InOrder

\* The next order of a customer goes to the end.
LEMMA InOrderAppend ==
    ASSUME NEW log \in Seq(Entry), NEW num, InOrder(log, num), NEW o \in Order,
           o.arg2 = num[o.arg1],
           \A i \in 1 .. Len(log) : log[i] # o,
           o.arg2 > 1 => \E i \in 1 .. Len(log) :
               log[i].arg1 = o.arg1 /\ log[i].arg2 = o.arg2 - 1
    PROVE  InOrder(Append(log, o), num)
<1>1. PICK log2, len : log2 = Append(log, o) /\ len = Len(log)
  OBVIOUS
<1>2. /\ len \in Nat /\ Len(log2) = len + 1 /\ log2[len + 1] = o
      /\ \A i \in 1 .. len : log2[i] = log[i]
  BY <1>1, AppendProperties, LenProperties DEF Entry
<1>3. \A p \in Order : p.arg1 \in Customer /\ p.arg2 \in Int /\ p = [arg1 |-> p.arg1, arg2 |-> p.arg2]
  BY DEF Order
<1>4. ASSUME NEW i \in 1 .. len
      PROVE  /\ log2[i] \in Order /\ log2[i].arg2 <= num[log2[i].arg1]
             /\ \A j \in 1 .. i - 1 : log2[j].arg1 = log2[i].arg1 => log2[j].arg2 < log2[i].arg2
             /\ log2[i].arg2 > 1 => \E j \in 1 .. i - 1 :
                    log2[j].arg1 = log2[i].arg1 /\ log2[j].arg2 = log2[i].arg2 - 1
  <2>1. \A j \in 1 .. i - 1 : j \in 1 .. len
    BY <1>2
  <2>2. /\ log[i] \in Order /\ log[i].arg2 <= num[log[i].arg1]
        /\ \A j \in 1 .. i - 1 : log[j].arg1 = log[i].arg1 => log[j].arg2 < log[i].arg2
        /\ log[i].arg2 > 1 => \E j \in 1 .. i - 1 :
               log[j].arg1 = log[i].arg1 /\ log[j].arg2 = log[i].arg2 - 1
    BY <1>1 DEF InOrder
  <2> QED
    BY <1>2, <2>1, <2>2
<1>5. ASSUME NEW i, i = len + 1
      PROVE  /\ log2[i] \in Order /\ log2[i].arg2 <= num[log2[i].arg1]
             /\ \A j \in 1 .. i - 1 : log2[j].arg1 = log2[i].arg1 => log2[j].arg2 < log2[i].arg2
             /\ log2[i].arg2 > 1 => \E j \in 1 .. i - 1 :
                    log2[j].arg1 = log2[i].arg1 /\ log2[j].arg2 = log2[i].arg2 - 1
  <2>1. i - 1 = len /\ log2[i] = o
    BY <1>2, <1>5
  <2>2. \A j \in 1 .. len : log[j] \in Order /\ log[j].arg2 <= num[log[j].arg1] /\ log[j] # o
    BY <1>1 DEF InOrder
  <2>3. \A j \in 1 .. len : log2[j].arg1 = o.arg1 => log2[j].arg2 < o.arg2
    <3> SUFFICES ASSUME NEW j \in 1 .. len, log[j].arg1 = o.arg1 PROVE log[j].arg2 < o.arg2
      BY <1>2
    <3>1. log[j].arg2 \in Int /\ o.arg2 \in Int /\ log[j].arg2 <= o.arg2 /\ log[j].arg2 # o.arg2
      BY <1>3, <2>2
    <3> QED
      BY <3>1
  <2>4. o.arg2 > 1 => \E j \in 1 .. len :
            log2[j].arg1 = o.arg1 /\ log2[j].arg2 = o.arg2 - 1
    BY <1>1, <1>2
  <2>5. o.arg2 <= num[o.arg1]
    BY <1>3
  <2> QED
    BY <2>1, <2>3, <2>4, <2>5
<1>6. \A i \in 1 .. Len(log2) : i \in 1 .. len \/ i = len + 1
  BY <1>2
<1> QED
  BY <1>1, <1>4, <1>5, <1>6 DEF InOrder

LogsInOrder == \A b \in Node : hb_conn[b] => InOrder(smr_log[b], ordered)

\* So it will be when the order that a dead master has sent is logged.
DeadWire ==
    ~hb_conn[master_node_id] =>
        \A b \in Node : hb_conn[b] /\ OnWire(b) # <<>> /\ OnWire(b)[1].req.op # CommitOnly =>
            InOrder(Append(smr_log[b], OnWire(b)[1].req.op), ordered)

\* An order that the master has not taken yet is not in its log.
NotYetLogged ==
    \A c \in Customer : engineer[c] = "waiting" /\ (Hand # None => Hand.eng # c) =>
        \A i \in 1 .. Len(smr_log[master_node_id]) : smr_log[master_node_id][i] # LastOrder(c)

OrderInv == LogsInOrder /\ DeadWire /\ NotYetLogged

\* Orders are only ever placed.
LEMMA OrderedGrows ==
    ASSUME LockInv, [Next]_vars
    PROVE  /\ ordered \in [Customer -> Int] /\ ordered' \in [Customer -> Int]
           /\ \A c \in Customer : ordered[c] <= ordered'[c]
<1>1. TypeOK /\ ordered \in [Customer -> Int]
  BY DEF LockInv, RolesInv, BInv, TypeOK
<1>2. CASE UNCHANGED ordered
  BY <1>1, <1>2
<1>3. ASSUME NEW c \in Customer, PlaceOrder(c)
      PROVE  /\ ordered' \in [Customer -> Int]
             /\ \A k \in Customer : ordered[k] <= ordered'[k]
  <2>1. ordered' = [ordered EXCEPT ![c] = @ + 1]
    BY <1>3 DEF PlaceOrder
  <2> QED
    BY <1>1, <2>1
<1>4. UNCHANGED ordered \/ \E c \in Customer : PlaceOrder(c)
  BY CustomerSteps DEF CustomerStep, Connect, Ship, Hangup, Finish, AdminCommit
<1> QED
  BY <1>1, <1>2, <1>3, <1>4

\* With the order in the master's hands the log of who lacks it is the master's.
LEMMA BehindByOne ==
    ASSUME LockInv, NEW b \in Node, Behind(b), ifa[b] = None, Hand.op # CommitOnly
    PROVE  Append(smr_log[b], Hand.op) = smr_log[master_node_id]
<1>1. /\ hb_conn[master_node_id] /\ Hand # None /\ master_node_id \in Node
      /\ ifa[master_node_id] = None
  BY BehindCases, MasterCases DEF LockInv
<1>2. PICK log, n : log = smr_log[master_node_id] /\ n = last_index[master_node_id]
  OBVIOUS
<1>3. log \in Seq(Entry) /\ n \in Index /\ Len(log) = n + 1
  BY <1>1, <1>2, TidyIndexes DEF LockInv, Lockstep, LogsTidy, Tidy
<1>4. last_index[b] = n - 1 /\ smr_log[b] = SubSeq(log, 1, last_index[b] + 1)
  BY <1>2 DEF LockInv, Lockstep, Lagging, Ahead
<1>5. last_index[b] \in Index
  BY DEF LockInv, RolesInv, BInv, TypeOK
<1>6. n \in Nat /\ last_index[b] + 1 = n
  BY <1>3, <1>4, <1>5 DEF Index
<1>7. log[n + 1] = Hand.op
  BY <1>1, <1>2 DEF LockInv, Lockstep, InHand, At
<1>8. Append(SubSeq(log, 1, n), log[n + 1]) = log
  BY <1>3, <1>6, FrontAndLast
<1>9. smr_log[b] = SubSeq(log, 1, n)
  BY <1>4, <1>6
<1> QED
  BY <1>2, <1>7, <1>8, <1>9

\* What is on its way to a server goes on where its log ends.
LEMMA WireInOrder ==
    ASSUME LockInv, LogsInOrder, DeadWire, NEW b \in Node, hb_conn[b], OnWire(b) # <<>>,
           OnWire(b)[1].req.op # CommitOnly
    PROVE  InOrder(Append(smr_log[b], OnWire(b)[1].req.op), ordered)
<1>1. CASE Behind(b)
  <2>1. OnWire(b)[1].req.op = Hand.op /\ hb_conn[master_node_id] /\ master_node_id \in Node
    BY <1>1, BehindCases, MasterCases DEF LockInv, Lockstep, Lagging
  <2>2. ifa[b] = None
    BY DEF LockInv, Lockstep, LogsTidy, Tidy
  <2>3. Append(smr_log[b], OnWire(b)[1].req.op) = smr_log[master_node_id]
    BY <1>1, <2>1, <2>2, BehindByOne
  <2> QED
    BY <2>1, <2>3 DEF LogsInOrder
<1>2. CASE ~Behind(b)
  BY <1>2, LastOne DEF DeadWire
<1> QED
  BY <1>1, <1>2

\* The request that the master takes is that of an engineer thread that waits.
LEMMA HeadIsWaitedFor ==
    ASSUME LockInv, NEW n \in Node, AdminTake(n), NEW r, r = Head(admin_thread_list[n])
    PROVE  /\ r.eng \in Customer
           /\ r.op # CommitOnly => engineer[r.eng] = "waiting" /\ r.op = LastOrder(r.eng)
<1>1. Hand = None /\ n = master_node_id /\ admin_thread_list[n] # <<>> /\ r \in Request
  BY TakeEffect
<1>2. Requests(n) = <<>> \o admin_thread_list[n] /\ admin_thread_list[n] \in Seq(Request)
  BY <1>1 DEF Requests, Hand, LockInv, RolesInv, BInv, TypeOK
<1>3. Requests(n) = admin_thread_list[n]
  BY <1>2, ConcatEmptySeq
<1>4. 1 \in 1 .. Len(Requests(n)) /\ Requests(n)[1] = r
  <2>1. Len(admin_thread_list[n]) \in Nat /\ Len(admin_thread_list[n]) # 0
    BY <1>1, <1>2, LenProperties, EmptySeq
  <2> QED
    BY <1>1, <1>2, <1>3, <2>1, HeadTailProperties
<1>5. AtBarrier(r.eng) /\ r = RequestOf(r.eng)
  BY <1>4 DEF LockInv, RolesInv, BInv, BarrierDiscipline, NoDanglingRequest
<1> QED
  BY <1>1, <1>5 DEF Request, RequestOf, AtBarrier, LastOrder

\* The order that the master takes is the next one of its customer.
LEMMA TakeInOrder ==
    ASSUME LockInv, Held, Numbers, LogsInOrder, NotYetLogged, NEW n \in Node, AdminTake(n),
           NEW op, op = Head(admin_thread_list[n]).op, op # CommitOnly
    PROVE  InOrder(Append(smr_log[n], op), ordered)
<1>1. /\ n = master_node_id /\ hb_conn[n] /\ Hand = None /\ admin_thread_list[n] # <<>>
      /\ op \in Order /\ Head(admin_thread_list[n]) \in Request
  BY TakeEffect
<1>2. PICK r : r = Head(admin_thread_list[n])
  OBVIOUS
<1>3. r.eng \in Customer
  BY <1>2, HeadIsWaitedFor
<1>4. engineer[r.eng] = "waiting" /\ op = LastOrder(r.eng)
  BY <1>2, HeadIsWaitedFor
<1>5. op.arg1 = r.eng /\ op.arg2 = ordered[op.arg1]
  BY <1>4 DEF LastOrder
<1>6. smr_log[n] \in Seq(Entry) /\ InOrder(smr_log[n], ordered)
  BY <1>1, TidyIndexes DEF LogsInOrder
<1>7. \A i \in 1 .. Len(smr_log[n]) : smr_log[n][i] # op
  BY <1>1, <1>3, <1>4 DEF NotYetLogged
<1>8. ASSUME op.arg2 > 1
      PROVE  \E i \in 1 .. Len(smr_log[n]) :
                 smr_log[n][i].arg1 = op.arg1 /\ smr_log[n][i].arg2 = op.arg2 - 1
  <2>1. [arg1 |-> r.eng, arg2 |-> ordered[r.eng] - 1] \in acked
    BY <1>3, <1>4, <1>5, <1>8 DEF Numbers
  <2>2. PICK i \in Logged(n) : At(smr_log[n], i) = [arg1 |-> r.eng, arg2 |-> ordered[r.eng] - 1]
    BY <1>1, <2>1 DEF Held, Holds
  <2>3. i + 1 \in 1 .. Len(smr_log[n])
    <3>1. i \in Int /\ 0 <= i /\ i < Len(smr_log[n]) /\ Len(smr_log[n]) \in Nat
      BY <1>6, LenProperties DEF Logged, InRange
    <3> QED
      BY <3>1
  <2> QED
    BY <1>5, <2>2, <2>3 DEF At
<1> QED
  BY <1>1, <1>5, <1>6, <1>7, <1>8, InOrderAppend

LEMMA InitOrder == Init => OrderInv
<1> SUFFICES ASSUME Init PROVE OrderInv
  OBVIOUS
<1>1. \A b \in Node : smr_log[b] = <<>> /\ hb_conn[b]
  BY DEF Init
<1>2. master_node_id \in Node
  BY InitLockstep, MasterCases DEF LockInv
<1>3. \A c \in Customer : engineer[c] = "new"
  BY DEF Init
<1>4. InOrder(<<>>, ordered)
  BY DEF InOrder
<1> QED
  BY <1>1, <1>2, <1>3, <1>4 DEF OrderInv, LogsInOrder, DeadWire, NotYetLogged

\* What a server has not read yet stays there when the master is dead.
LEMMA WireSteps ==
    ASSUME LockInv, LockInv', [Next]_vars, NEW b \in Node, hb_conn'[b],
           ~hb_conn'[master_node_id'], OnWire(b)' # <<>>
    PROVE  master_node_id' = master_node_id /\ OnWire(b)' = OnWire(b) /\ smr_log'[b] = smr_log[b]
<1> DEFINE Goal == master_node_id' = master_node_id /\ OnWire(b)' = OnWire(b)
                   /\ smr_log'[b] = smr_log[b]
<1>1. TypeOK /\ hb_conn[b] /\ master_node_id \in Node /\ master_node_id' \in Node
  BY HbFalls DEF LockInv, RolesInv, BInv, TypeOK
<1>2. CASE UNCHANGED <<master_node_id, wire, smr_log>>
  BY <1>2 DEF OnWire
<1>3. ASSUME NEW n \in Node, NEW w, Die(n, w) PROVE Goal
  <2>1. b # n
    BY <1>3, DieSteps
  <2> QED
    BY <1>3, <2>1, DieSteps DEF Keeps
<1>4. ASSUME NEW c \in Customer, Connect(c) PROVE Goal
  <2>1. wire' = wire /\ smr_log' = smr_log
    BY <1>4 DEF Connect, netVars, logVars
  <2>2. wire[master_node_id'][b] # <<>>
    BY <2>1 DEF OnWire
  <2>3. master_node_id' = master_node_id
    BY <1>1, <2>2 DEF LockInv, RolesInv, OnePrimary
  <2> QED
    BY <2>1, <2>3 DEF OnWire
<1>5. ASSUME NEW n \in Node, Restart(n) PROVE Goal
  <2>1. n # b
    BY <1>1, <1>5 DEF Restart, LockInv, RolesInv, Lives
  <2>2. UNCHANGED <<wire, master_node_id>>
    BY <1>5 DEF Restart, netVars, lbVars
  <2>3. smr_log'[b] = smr_log[b]
    BY <1>1, <1>5, <2>1, RestartFrame
  <2> QED
    BY <2>2, <2>3 DEF OnWire
<1>6. ASSUME NEW n \in Node, AdminTake(n) \/ AdminSend(n) \/ AdminAck(n) PROVE FALSE
  <2>1. n = master_node_id /\ hb_conn[n]
    BY <1>6, TakeEffect, InRound DEF AdminSend, AdminAck
  <2>2. hb_conn' = hb_conn /\ master_node_id' = master_node_id
    BY <1>6 DEF AdminTake, AdminSend, AdminAck, lbVars
  <2> QED
    BY <2>1, <2>2
<1>7. ASSUME NEW n \in Node, AdminThread(n) PROVE Goal
  BY <1>2, <1>3, <1>6, <1>7 DEF AdminThread, AdminRecheck, AdminSkip, AdminPeerGone, AdminCommit,
     lbVars, logVars, netVars
<1>8. ASSUME NEW n \in Node, IfaThread(n), ~ \E w : Die(n, w) PROVE Goal
  <2>1. ~ \E p \in Node : IfaStray(p, n)
    BY <1>8 DEF IfaStray
  <2>2. CASE n # b
    BY <1>1, <1>8, <2>1, <2>2, IfaFrame DEF IfaThread, OnWire
  <2>3. ASSUME NEW p \in Node, IfaRead(p, b) PROVE FALSE
    <3>1. p = master_node_id /\ wire'[p][b] = <<>>
      BY <1>1, <2>3, ReadEffect
    <3>2. master_node_id' = master_node_id
      BY <2>3 DEF IfaRead, lbVars
    <3> QED
      BY <3>1, <3>2 DEF OnWire
  <2>4. CASE IfaApply(b)
    <3>1. ~ \E w : Die(b, w)
      BY <1>1, <2>4, NoRecovery
    <3> QED
      BY <1>2, <2>4, <3>1 DEF IfaApply, lbVars
  <2> QED
    BY <1>1, <1>8, <2>1, <2>2, <2>3, <2>4, NoRecovery DEF IfaThread
<1>9. ASSUME NEW c \in Customer, PlaceOrder(c) \/ Ship(c) \/ Hangup(c) \/ Finish(c) PROVE Goal
  BY <1>2, <1>9 DEF PlaceOrder, Ship, Hangup, Finish, netVars, lbVars, logVars
<1>10. ASSUME NEW n \in Node, CloseReader(n) \/ Crash(n) \/ HeartBeat(n) PROVE Goal
  BY <1>2, <1>3, <1>10 DEF CloseReader, Crash, HeartBeat, netVars, lbVars, logVars
<1>11. CASE UNCHANGED vars
  BY <1>2, <1>11 DEF vars, netVars, lbVars, logVars
<1> HIDE DEF Goal
<1>12. Goal
  BY <1>3, <1>4, <1>5, <1>7, <1>8, <1>9, <1>10, <1>11 DEF Next, Goal
<1> QED
  BY <1>12 DEF Goal

\* The master keeps its request until it commits it.
LEMMA HandSteps ==
    ASSUME LockInv, [Next]_vars, hb_conn'[master_node_id], master_node_id' = master_node_id
    PROVE  Hand' = Hand \/ AdminTake(master_node_id) \/ AdminCommit(master_node_id)
<1>1. TypeOK /\ master_node_id \in Node /\ hb_conn[master_node_id]
  BY HbFalls DEF LockInv, RolesInv, BInv, TypeOK
<1> DEFINE m == master_node_id
<1>2. SUFFICES ASSUME ~AdminTake(m), ~AdminCommit(m) PROVE admin'[m].job = admin[m].job
  BY DEF Hand
<1>3. CASE admin'[m] = admin[m]
  BY <1>3
<1>4. ASSUME NEW n \in Node, NEW w, Die(n, w) PROVE admin'[m] = admin[m]
  BY <1>1, <1>4, DieSteps
<1>5. ASSUME NEW c \in Customer,
             Connect(c) \/ PlaceOrder(c) \/ Ship(c) \/ Hangup(c) \/ Finish(c)
      PROVE  admin'[m] = admin[m]
  BY <1>5 DEF Connect, PlaceOrder, Ship, Hangup, Finish, threadVars
<1>6. ASSUME NEW n \in Node, CloseReader(n) \/ Crash(n) \/ Restart(n) \/ HeartBeat(n)
      PROVE  admin'[m] = admin[m]
  BY <1>4, <1>6 DEF CloseReader, Crash, Restart, HeartBeat, threadVars
<1>7. ASSUME NEW n \in Node, IfaThread(n) PROVE admin'[m] = admin[m]
  BY <1>4, <1>7 DEF IfaThread, IfaRead, IfaStray, RecoverRead, RecoverFail, RecoverWrite, IfaApply
<1>8. ASSUME NEW n \in Node, AdminThread(n) PROVE admin'[m].job = admin[m].job
  <2>1. CASE n # m
    BY <1>1, <1>4, <1>8, <2>1 DEF AdminThread, AdminRecheck, AdminTake, AdminSkip, AdminSend, AdminAck,
       AdminPeerGone, AdminCommit, NextPeer, TypeOK
  <2>2. CASE n = m
    <3>1. CASE AdminRecheck(m)
      <4>1. CASE \E w : Die(m, w)
        <5>1. admin'[m] = admin[m]
          BY <1>1, <1>4, <4>1
        <5> QED
          BY <5>1
      <4>2. CASE ~ \E w : Die(m, w)
        <5>1. admin' = [admin EXCEPT ![m].pc = "take"]
          BY <3>1, <4>2 DEF AdminRecheck
        <5> QED
          BY <1>1, <5>1, AdminKeepsJob DEF TypeOK
      <4> QED
        BY <4>1, <4>2
    <3>2. CASE AdminSkip(m) \/ AdminSend(m) \/ AdminAck(m) \/ AdminPeerGone(m)
      <4>1. \/ \E q : admin' = [admin EXCEPT ![m].pc = q]
            \/ \E q, r : admin' = [admin EXCEPT ![m].pc = q, ![m].todo = r]
        BY <3>2 DEF AdminSkip, AdminSend, AdminAck, AdminPeerGone, NextPeer
      <4>2. admin[m] \in AdminState
        BY <1>1 DEF TypeOK
      <4>3. \E q, r : admin'[m] = [admin[m] EXCEPT !.pc = q] \/ admin'[m] = [admin[m] EXCEPT !.pc = q, !.todo = r]
        <5>1. admin \in [Node -> AdminState]
          BY <1>1 DEF TypeOK
        <5> QED
          BY <1>1, <4>1, <5>1
      <4>4. PICK a \in AdminState : a = admin[m]
        BY <4>2
      <4>5. \A q, r : [a EXCEPT !.pc = q].job = a.job /\ [a EXCEPT !.pc = q, !.todo = r].job = a.job
        BY AdminKeepsJob
      <4>6. PICK q, r : admin'[m] = [a EXCEPT !.pc = q] \/ admin'[m] = [a EXCEPT !.pc = q, !.todo = r]
        BY <4>3, <4>4
      <4>7. admin'[m].job = a.job
        <5>1. /\ [a EXCEPT !.pc = q].job = a.job
              /\ [a EXCEPT !.pc = q, !.todo = r].job = a.job
          BY <4>5
        <5>2. CASE admin'[m] = [a EXCEPT !.pc = q]
          BY <5>1, <5>2
        <5>3. CASE admin'[m] = [a EXCEPT !.pc = q, !.todo = r]
          BY <5>1, <5>3
        <5> QED
          BY <4>6, <5>2, <5>3
      <4> QED
        BY <4>4, <4>7
    <3> QED
      BY <1>2, <1>8, <2>2, <3>1, <3>2 DEF AdminThread
  <2> QED
    BY <2>1, <2>2
<1>9. CASE UNCHANGED vars
  BY <1>9 DEF vars, threadVars
<1> QED
  BY <1>5, <1>6, <1>7, <1>8, <1>9 DEF Next

LEMMA NextLogsInOrder ==
    ASSUME LockInv, Held, Numbers, OrderInv, [Next]_vars
    PROVE  LogsInOrder'
<1> SUFFICES ASSUME NEW b \in Node, hb_conn'[b] PROVE InOrder(smr_log'[b], ordered')
  BY DEF LogsInOrder
<1>1. hb_conn[b] /\ LogStep(b) /\ smr_log[b] \in Seq(Entry)
  BY LogSteps DEF LockInv, RolesInv, BInv, TypeOK
<1>2. ASSUME NEW log \in Seq(Entry), InOrder(log, ordered) PROVE InOrder(log, ordered')
  BY <1>2, OrderedGrows, InOrderGrows
<1>3. CASE Keeps(b) \/ Advances(b)
  BY <1>1, <1>2, <1>3 DEF Keeps, Advances, OrderInv, LogsInOrder
<1>4. ASSUME NEW op, Logs(b, op), InOrder(Append(smr_log[b], op), ordered)
      PROVE  InOrder(smr_log'[b], ordered')
  <2>1. op \in Entry /\ smr_log'[b] = Append(smr_log[b], op)
    BY <1>4 DEF Logs, Entry
  <2>2. Append(smr_log[b], op) \in Seq(Entry)
    BY <1>1, <2>1, AppendProperties
  <2> QED
    BY <1>2, <1>4, <2>1, <2>2
<1>5. CASE AdminTake(b) /\ Logs(b, Head(admin_thread_list[b]).op)
  <2>1. PICK op : op = Head(admin_thread_list[b]).op
    OBVIOUS
  <2>2. op # CommitOnly
    BY <1>5, <2>1, OpAssumption DEF Logs
  <2>3. InOrder(Append(smr_log[b], op), ordered)
    BY <1>5, <2>1, <2>2, TakeInOrder DEF OrderInv
  <2> QED
    BY <1>4, <1>5, <2>1, <2>3
<1>6. ASSUME NEW p \in Node, IfaRead(p, b), Logs(b, OnWire(b)[1].req.op)
      PROVE  InOrder(smr_log'[b], ordered')
  <2>1. PICK op : op = OnWire(b)[1].req.op
    OBVIOUS
  <2>2. op # CommitOnly /\ OnWire(b) # <<>>
    BY <1>1, <1>6, <2>1, OpAssumption, ReadEffect DEF Logs
  <2>3. InOrder(Append(smr_log[b], op), ordered)
    BY <1>1, <2>1, <2>2, WireInOrder DEF OrderInv
  <2> QED
    BY <1>4, <1>6, <2>1, <2>3
<1> QED
  BY <1>1, <1>3, <1>5, <1>6 DEF LogStep

LEMMA NextDeadWire ==
    ASSUME LockInv, LockInv', OrderInv, [Next]_vars
    PROVE  DeadWire'
<1> SUFFICES ASSUME NEW b \in Node, ~hb_conn'[master_node_id'], hb_conn'[b], OnWire(b)' # <<>>,
                    OnWire(b)'[1].req.op # CommitOnly
             PROVE  InOrder(Append(smr_log'[b], OnWire(b)'[1].req.op), ordered')
  BY DEF DeadWire
<1>1. OnWire(b)' = OnWire(b) /\ smr_log'[b] = smr_log[b] /\ hb_conn[b]
  BY WireSteps, HbFalls
<1>2. PICK op, log : op = OnWire(b)[1].req.op /\ log = Append(smr_log[b], op)
  OBVIOUS
<1>3. InOrder(log, ordered)
  BY <1>1, <1>2, WireInOrder DEF OrderInv
<1>4. log \in Seq(Entry)
  <2>1. OnWire(b) \in Seq(Message) /\ Len(OnWire(b)) = 1 /\ OnWire(b)[1].kind = "req"
        /\ smr_log[b] \in Seq(Entry)
    BY <1>1, MasterCases DEF LockInv, RolesInv, BInv, TypeOK, OnWire, Lockstep, LogsTidy, Tidy
  <2>2. OnWire(b)[1] \in Message
    <3>1. PICK s : s = OnWire(b)
      OBVIOUS
    <3>2. s \in Seq(Message) /\ Len(s) = 1
      BY <2>1, <3>1, Zenon
    <3>3. 1 \in 1 .. Len(s)
      BY <3>2
    <3> QED
      BY <3>1, <3>2, <3>3, ElementOfSeq
  <2>3. op \in Entry
    BY <1>1, <1>2, <2>1, <2>2 DEF Message, ReplReq, Entry
  <2> QED
    BY <1>2, <2>1, <2>3, AppendProperties
<1>5. InOrder(log, ordered')
  BY <1>3, <1>4, OrderedGrows, InOrderGrows
<1> QED
  BY <1>1, <1>2, <1>5

\* A session stays with the server it was opened with, and only a new one may
\* bring a new master.
LEMMA ServerSteps ==
    ASSUME LockInv, [Next]_vars
    PROVE  UNCHANGED <<server, master_node_id>> \/ \E c \in Customer : Connect(c)
<1>1. ASSUME NEW n \in Node, NEW w, Die(n, w) PROVE UNCHANGED <<server, master_node_id>>
  BY <1>1, DieSteps
<1>2. ASSUME NEW c \in Customer, PlaceOrder(c) \/ Ship(c) \/ Hangup(c) \/ Finish(c)
      PROVE  UNCHANGED <<server, master_node_id>>
  BY <1>2 DEF PlaceOrder, Ship, Hangup, Finish, lbVars
<1>3. ASSUME NEW n \in Node, CloseReader(n) \/ Crash(n) \/ Restart(n) \/ HeartBeat(n)
      PROVE  UNCHANGED <<server, master_node_id>>
  BY <1>1, <1>3 DEF CloseReader, Crash, Restart, HeartBeat, clientVars, lbVars
<1>4. ASSUME NEW n \in Node, AdminThread(n) PROVE UNCHANGED <<server, master_node_id>>
  BY <1>1, <1>4 DEF AdminThread, AdminRecheck, AdminTake, AdminSkip, AdminSend, AdminAck,
     AdminPeerGone, AdminCommit, clientVars, lbVars
<1>5. ASSUME NEW n \in Node, IfaThread(n) PROVE UNCHANGED <<server, master_node_id>>
  BY <1>1, <1>5 DEF IfaThread, IfaRead, IfaStray, RecoverRead, RecoverFail, RecoverWrite, IfaApply,
     clientVars, lbVars
<1> QED
  BY <1>2, <1>3, <1>4, <1>5 DEF Next, vars, clientVars, lbVars

LEMMA NextNotYetLogged ==
    ASSUME LockInv, LockInv', OrderInv, [Next]_vars
    PROVE  NotYetLogged'
<1> DEFINE m == master_node_id
<1> SUFFICES ASSUME NEW c \in Customer, engineer'[c] = "waiting", Hand' # None => Hand'.eng # c
             PROVE  \A i \in 1 .. Len(smr_log'[master_node_id']) :
                        smr_log'[master_node_id'][i] # LastOrder(c)'
  BY DEF NotYetLogged
<1>1. TypeOK /\ m \in Node
  BY MasterCases DEF LockInv, RolesInv, BInv
<1>2. server'[c] = master_node_id' /\ hb_conn'[master_node_id']
  BY DEF LockInv, RolesInv, ActiveAtMaster, Active
<1>3. CASE engineer[c] = "waiting"
  <2>1. /\ LastOrder(c)' = LastOrder(c) /\ server'[c] = server[c]
    <3>1. ordered'[c] = ordered[c]
      BY <1>1, <1>3, CustomerSteps DEF CustomerStep, Connect, PlaceOrder, Ship, Hangup, Finish,
         AdminCommit, TypeOK
    <3>2. server'[c] = server[c]
      <4>1. UNCHANGED server \/ \E k \in Customer : Connect(k)
        BY ServerSteps
      <4> QED
        BY <1>1, <1>3, <4>1 DEF Connect, TypeOK
    <3> QED
      BY <3>1, <3>2 DEF LastOrder
  <2>2. server[c] = m
    BY <1>3 DEF LockInv, RolesInv, ActiveAtMaster, Active
  <2>3. master_node_id' = m
    BY <1>2, <2>1, <2>2
  <2>4. Hand # None => Hand.eng # c
    <3> SUFFICES ASSUME Hand # None, Hand.eng = c PROVE FALSE
      OBVIOUS
    <3>1. ~AdminTake(m)
      BY <1>1, TakeEffect
    <3>2. ASSUME AdminCommit(m) PROVE FALSE
      <4>1. engineer' = [engineer EXCEPT ![c] = IF Hand.op = CommitOnly THEN "released" ELSE "ready"]
        BY <3>2 DEF AdminCommit, Hand, IsAnnouncement
      <4> QED
        BY <1>1, <4>1 DEF TypeOK
    <3> QED
      BY <1>2, <2>3, <3>1, <3>2, HandSteps
  <2>5. PICK log : log = smr_log[m]
    OBVIOUS
  <2>6. log \in Seq(Entry) /\ \A i \in 1 .. Len(log) : log[i] # LastOrder(c)
    BY <1>1, <1>3, <2>4, <2>5 DEF OrderInv, NotYetLogged, TypeOK
  <2>7. LogStep(m)
    BY <1>1, <1>2, <2>3, LogSteps
  <2>8. CASE Keeps(m) \/ Advances(m)
    BY <2>1, <2>3, <2>5, <2>6, <2>8 DEF Keeps, Advances
  <2>9. ASSUME AdminTake(m), Logs(m, Head(admin_thread_list[m]).op)
        PROVE  \A i \in 1 .. Len(smr_log'[m]) : smr_log'[m][i] # LastOrder(c)
    <3>1. PICK r : r = Head(admin_thread_list[m])
      OBVIOUS
    <3>2. Hand' = r /\ r \in Request /\ r.op \in Order
      <4>1. r \in Request /\ admin'[m] = [pc |-> "send", job |-> r, todo |-> Peers[m]]
        BY <1>1, <2>9, <3>1, TakeEffect
      <4>2. Hand' = r
        BY <2>3, <4>1 DEF Hand
      <4> QED
        BY <2>9, <3>1, <4>1, <4>2 DEF Logs
    <3>3. r # None
      BY <3>2, NoneIsNoRequest
    <3>4. r.op.arg1 = r.eng
      <4>1. r.op # CommitOnly
        BY <3>2, OpAssumption
      <4>2. r.op = LastOrder(r.eng)
        BY <1>1, <2>9, <3>1, <4>1, HeadIsWaitedFor
      <4> QED
        BY <4>2 DEF LastOrder
    <3>5. r.op # LastOrder(c)
      BY <3>2, <3>3, <3>4 DEF LastOrder
    <3>6. PICK log2 : log2 = smr_log'[m]
      OBVIOUS
    <3>7. log2 = Append(log, r.op) /\ r.op \in Entry
      BY <2>5, <2>9, <3>1, <3>6 DEF Logs, Entry
    <3>8. /\ Len(log2) = Len(log) + 1 /\ log2[Len(log) + 1] = r.op /\ Len(log) \in Nat
          /\ \A i \in 1 .. Len(log) : log2[i] = log[i]
      BY <2>6, <3>7, AppendProperties, LenProperties
    <3>9. \A i \in 1 .. Len(log2) : i \in 1 .. Len(log) \/ i = Len(log) + 1
      BY <3>8
    <3> QED
      BY <2>6, <3>5, <3>6, <3>8, <3>9
  <2>10. ~ \E p \in Node : IfaRead(p, m)
    BY <1>1 DEF IfaRead, LockInv, RolesInv, OnePrimary
  <2> QED
    BY <2>1, <2>3, <2>7, <2>8, <2>9, <2>10 DEF LogStep
<1>4. CASE engineer[c] # "waiting"
  <2>1. PlaceOrder(c)
    <3>1. \A k \in Customer : (Connect(k) \/ Ship(k) \/ Hangup(k) \/ Finish(k)) =>
              engineer'[c] # "waiting" \/ engineer'[c] = engineer[c]
      BY <1>1 DEF Connect, Ship, Hangup, Finish, TypeOK
    <3>2. \A k \in Customer : PlaceOrder(k) => engineer'[c] = engineer[c] \/ k = c
      BY <1>1 DEF PlaceOrder, TypeOK
    <3>3. \A n \in Node : AdminCommit(n) => engineer'[c] # "waiting" \/ engineer'[c] = engineer[c]
      BY <1>1 DEF AdminCommit, TypeOK
    <3> QED
      BY <1>4, <3>1, <3>2, <3>3, CustomerSteps DEF CustomerStep
  <2>2. /\ engineer[c] = "idle" /\ ordered'[c] = ordered[c] + 1 /\ smr_log' = smr_log
        /\ master_node_id' = m /\ hb_conn' = hb_conn /\ ordered[c] \in Nat
    BY <1>1, <2>1 DEF PlaceOrder, TypeOK, logVars, lbVars
  <2>3. \A i \in 1 .. Len(smr_log[m]) :
            smr_log[m][i] \in Order /\ smr_log[m][i].arg2 <= ordered[smr_log[m][i].arg1]
    BY <1>1, <1>2, <2>2 DEF OrderInv, LogsInOrder, InOrder
  <2>4. \A o \in Order : o.arg2 <= ordered[o.arg1] => o # LastOrder(c)'
    BY <2>2 DEF Order, LastOrder
  <2> QED
    BY <2>2, <2>3, <2>4
<1> QED
  BY <1>3, <1>4

-----------------------------------------------------------------------------
(***************************************************************************)
(* What the logs of the servers that have never died have in common.       *)
(***************************************************************************)

LEMMA HandIsTheLivings == RolesInv => (Hand # None => hb_conn[master_node_id])
BY MasterCases

\* Nobody applies the order in the master's hands before all have it.
Uncommitted ==
    Hand # None => \A b \in Node : hb_conn[b] =>
        committed_index[b] <= last_index[master_node_id] - Ahead(Hand.op)

LEMMA InitUncommitted == Init => Uncommitted
<1> SUFFICES ASSUME Init PROVE Hand = None
  BY DEF Uncommitted
<1>1. master_node_id \in Node
  BY InitLockstep, MasterCases DEF LockInv
<1> QED
  BY <1>1 DEF Init, Hand, AdminWaits

LEMMA NextUncommitted ==
    ASSUME LockInv, LockInv', Uncommitted, [Next]_vars
    PROVE  Uncommitted'
<1> DEFINE m == master_node_id
<1> SUFFICES ASSUME Hand' # None, NEW b \in Node, hb_conn'[b]
             PROVE  committed_index'[b] <= last_index'[master_node_id'] - Ahead(Hand'.op)
  BY DEF Uncommitted, Ahead
<1>1. TypeOK /\ m \in Node /\ hb_conn'[master_node_id']
  <2>1. RolesInv' => (Hand # None => hb_conn[master_node_id])'
    BY HandIsTheLivings, PTL
  <2> QED
    BY <2>1, MasterCases DEF LockInv, RolesInv, BInv
<1>2. master_node_id' = m
  <2>1. ASSUME NEW c \in Customer, Connect(c) PROVE master_node_id' = m
    <3>1. admin' = admin /\ master_node_id' \in Node
      BY <2>1, NextMaster DEF Connect, threadVars, LockInv, RolesInv, BInv
    <3>2. admin[master_node_id'].job # None /\ admin[master_node_id'] \in AdminState
      BY <1>1, <3>1 DEF Hand, TypeOK
    <3>3. admin[master_node_id'].pc # "wait"
      BY <3>2, AdminStateCases
    <3> QED
      BY <3>1, <3>3, OnlyMasterWorks DEF LockInv
  <2> QED
    BY <2>1, ServerSteps
<1>3. hb_conn[m] /\ hb_conn[b] /\ LogStep(m) /\ LogStep(b)
  BY <1>1, <1>2, LogSteps
<1>4. /\ last_index[m] \in Int /\ committed_index[b] \in Int /\ last_index[b] \in Int
      /\ committed_index[b] <= last_index[b]
      /\ last_index'[m] \in {last_index[m], last_index[m] + 1}
  <2>1. last_index[m] \in Int /\ committed_index[b] \in Int /\ last_index[b] \in Int
    BY <1>1 DEF TypeOK, Index
  <2>2. committed_index[b] <= last_index[b]
    BY <1>3, <2>1, TidyIndexes
  <2> QED
    BY <1>3, <2>1, <2>2 DEF LogStep, Keeps, Logs, Advances
<1>5. ~AdminCommit(m)
  <2>1. SUFFICES ASSUME AdminCommit(m) PROVE FALSE
    OBVIOUS
  <2>2. admin'[m].job = None
    BY <1>1, <2>1, CommitEffect
  <2> QED
    BY <1>2, <2>2 DEF Hand
<1>6. CASE AdminTake(m)
  <2>1. PICK r : r = Head(admin_thread_list[m])
    OBVIOUS
  <2>2. /\ Hand = None /\ last_index'[m] = last_index[m] + Ahead(r.op)
        /\ admin'[m] = [pc |-> "send", job |-> r, todo |-> Peers[m]]
        /\ committed_index' = committed_index
    BY <1>1, <1>6, <2>1, TakeEffect
  <2>3. Hand' = r
    BY <1>2, <2>2 DEF Hand
  <2>4. last_index[b] = last_index[m]
    BY <1>3, <2>2, NobodyBehind
  <2>5. last_index'[m] - Ahead(r.op) = last_index[m]
    BY <1>4, <2>2 DEF Ahead
  <2> QED
    BY <1>2, <1>4, <2>2, <2>3, <2>4, <2>5
<1>7. CASE Hand' = Hand /\ ~AdminTake(m)
  <2>1. PICK d : d = Ahead(Hand.op)
    OBVIOUS
  <2>2. d \in {0, 1} /\ committed_index[b] <= last_index[m] - d
    BY <1>3, <1>7, <2>1 DEF Ahead, Uncommitted
  <2>3. committed_index'[b] <= last_index[m] - d
    <3>1. CASE committed_index'[b] = committed_index[b]
      BY <2>2, <3>1
    <3>2. CASE IfaApply(b) /\ committed_index'[b] = last_index[b]
      <4>1. ifa[b] # None
        BY <3>2 DEF IfaApply
      <4>2. Behind(b)
        BY <1>1, <1>3, <4>1, LastOne
      <4>3. last_index[b] = last_index[m] - d
        BY <2>1, <4>2 DEF LockInv, Lockstep, Lagging
      <4> QED
        BY <1>4, <2>2, <3>2, <4>3
    <3>3. ~AdminRecheck(b) /\ ~AdminCommit(b)
      <4>1. ASSUME AdminRecheck(b) PROVE FALSE
        <5>1. admin_thread_list[b] # <<>> /\ admin[b].pc \in {"wait", "next"} /\ admin[b] \in AdminState
          BY <1>1, <4>1 DEF AdminRecheck, AdminAwake, MtxFree, TypeOK
        <5>2. b = m /\ admin[b].job = None
          BY <5>1, OnlyMasterWorks, AdminStateCases DEF LockInv
        <5> QED
          BY <1>7, <5>2 DEF Hand
      <4>2. ASSUME AdminCommit(b) PROVE FALSE
        BY <1>5, <4>2, CommitEffect
      <4> QED
        BY <4>1, <4>2
    <3> QED
      BY <1>3, <3>1, <3>2, <3>3 DEF LogStep, Keeps, Logs, Advances
  <2>4. committed_index'[b] \in Int
    BY <1>3, <1>4 DEF LogStep, Keeps, Logs, Advances
  <2>5. committed_index'[b] <= last_index'[m] - d
    BY <1>4, <2>2, <2>3, <2>4
  <2> QED
    BY <1>2, <1>7, <2>1, <2>5
<1> QED
  BY <1>1, <1>2, <1>3, <1>5, <1>6, <1>7, HandSteps

\* Who has not answered yet lacks at most the order in the master's hands.
LEMMA LikeMaster ==
    ASSUME LockInv, Uncommitted, hb_conn[master_node_id], NEW b \in Node, hb_conn[b]
    PROVE  LET last == last_index[master_node_id]
               sure == IF Hand = None THEN last ELSE last - Ahead(Hand.op)
           IN  /\ last \in Index /\ last_index[b] \in {last, sure} /\ sure \in {last - 1, last}
               /\ committed_index[b] <= sure
               /\ \A i \in 0 .. last_index[b] : At(smr_log[b], i) = At(smr_log[master_node_id], i)
<1> DEFINE m == master_node_id
           last == last_index[m]
           sure == IF Hand = None THEN last ELSE last - Ahead(Hand.op)
<1>1. m \in Node /\ ifa[m] = None /\ ~Behind(m) /\ last \in Index
  BY MasterCases, TidyIndexes DEF LockInv
<1>2. sure \in {last - 1, last}
  BY <1>1 DEF Ahead, Index
<1>3. CASE Behind(b)
  <2>1. Hand # None /\ last_index[b] = sure
    BY <1>3, BehindCases DEF LockInv, Lockstep, Lagging
  <2>2. smr_log[m] \in Seq(Entry) /\ Len(smr_log[m]) = last + 1 /\ last_index[b] \in Index
    BY <1>1, TidyIndexes DEF LockInv, Lockstep, LogsTidy, Tidy
  <2>3. smr_log[b] = smr_log[m] \/ smr_log[b] = SubSeq(smr_log[m], 1, last_index[b] + 1)
    BY <1>3 DEF LockInv, Lockstep, Lagging
  <2>4. \A i \in 0 .. last_index[b] :
            At(SubSeq(smr_log[m], 1, last_index[b] + 1), i) = At(smr_log[m], i)
    <3>1. PICK log, k : log = smr_log[m] /\ k = last_index[b] + 1
      OBVIOUS
    <3>2. log \in Seq(Entry) /\ k \in Nat /\ k <= Len(log)
      BY <1>1, <1>2, <2>1, <2>2, <3>1 DEF Index
    <3>3. \A i \in 1 .. k : log[i] \in Entry
      <4>1. \A i \in 1 .. k : i \in 1 .. Len(log)
        BY <3>2
      <4> QED
        BY <3>2, <4>1, ElementOfSeq
    <3>4. \A i \in 1 .. k : SubSeq(log, 1, k)[i] = log[i]
      BY <3>2, <3>3, SubSeqProperties
    <3>5. \A i \in 0 .. last_index[b] : i + 1 \in 1 .. k
      BY <2>2, <3>1 DEF Index
    <3> QED
      BY <3>1, <3>4, <3>5 DEF At
  <2>5. committed_index[b] <= sure
    BY <1>3, <2>1 DEF Uncommitted
  <2> QED
    BY <1>1, <1>2, <2>1, <2>3, <2>4, <2>5
<1>4. CASE ~Behind(b)
  <2>1. ifa[b] = None /\ smr_log[b] = smr_log[m]
    BY <1>1, <1>4 DEF LockInv, Lockstep, InStep
  <2>2. last_index[b] = last
    <3>1. Len(smr_log[b]) = last_index[b] + 1 /\ Len(smr_log[m]) = last + 1
      BY <1>1, <2>1 DEF LockInv, Lockstep, LogsTidy, Tidy
    <3>2. last_index[b] \in Int /\ last \in Int
      BY <1>1, TidyIndexes DEF Index
    <3> QED
      BY <2>1, <3>1, <3>2
  <2>3. committed_index[b] <= sure
    <3>1. committed_index[b] \in {last_index[b] - 1, last_index[b]}
      BY TidyIndexes
    <3> QED
      BY <1>1, <2>2, <3>1 DEF Uncommitted, Index
  <2> QED
    BY <1>1, <1>2, <2>1, <2>2, <2>3
<1> QED
  BY <1>3, <1>4

\* The logs of any two agree where both have data, and what one has committed
\* is data for the other one.
LEMMA AllAlike ==
    LockInv /\ Uncommitted => \A a, b \in Node : hb_conn[a] /\ hb_conn[b] =>
        /\ last_index[a] <= last_index[b] + 1
        /\ committed_index[a] <= last_index[b]
        /\ \A i \in 0 .. last_index[a] : i <= last_index[b] => At(smr_log[a], i) = At(smr_log[b], i)
<1> SUFFICES ASSUME LockInv, Uncommitted, NEW a \in Node, NEW b \in Node, hb_conn[a], hb_conn[b]
             PROVE  /\ last_index[a] <= last_index[b] + 1
                    /\ committed_index[a] <= last_index[b]
                    /\ \A i \in 0 .. last_index[a] :
                           i <= last_index[b] => At(smr_log[a], i) = At(smr_log[b], i)
  OBVIOUS
<1>1. /\ last_index[a] \in Index /\ committed_index[a] \in {last_index[a] - 1, last_index[a]}
      /\ last_index[b] \in Index
  BY TidyIndexes
<1>2. CASE hb_conn[master_node_id]
  <2>1. PICK last, sure :
            /\ last \in Index /\ sure \in {last - 1, last}
            /\ last_index[a] \in {last, sure} /\ last_index[b] \in {last, sure}
            /\ committed_index[a] <= sure
            /\ \A i \in 0 .. last_index[a] : At(smr_log[a], i) = At(smr_log[master_node_id], i)
            /\ \A i \in 0 .. last_index[b] : At(smr_log[b], i) = At(smr_log[master_node_id], i)
    BY <1>2, LikeMaster
  <2>2. last_index[a] <= last_index[b] + 1 /\ committed_index[a] <= last_index[b]
    BY <1>1, <2>1 DEF Index
  <2>3. \A i \in 0 .. last_index[a] : i <= last_index[b] => i \in 0 .. last_index[b]
    BY <1>1 DEF Index
  <2> QED
    BY <2>1, <2>2, <2>3
<1>3. CASE a = b
  BY <1>1, <1>3 DEF Index
<1>4. CASE ~hb_conn[master_node_id] /\ a # b
  <2>1. ~Behind(a) /\ ~Behind(b)
    BY <1>4, MasterCases DEF LockInv
  <2>2. ifa[a] = None /\ ifa[b] = None /\ smr_log[a] = smr_log[b]
    BY <1>4, <2>1 DEF LockInv, Lockstep, InStep
  <2>3. Len(smr_log[a]) = last_index[a] + 1 /\ Len(smr_log[b]) = last_index[b] + 1
    BY <2>2 DEF LockInv, Lockstep, LogsTidy, Tidy
  <2>4. last_index[a] = last_index[b]
    BY <1>1, <2>2, <2>3 DEF Index
  <2> QED
    BY <1>1, <2>2, <2>4 DEF Index
<1> QED
  BY <1>2, <1>3, <1>4

-----------------------------------------------------------------------------
(***************************************************************************)
(* Until a server is started again all that run have never died.           *)
(***************************************************************************)

\* A connection that works leads to a server that runs.
FirstLives ==
    /\ restarts = 0 => \A n \in Node : up[n] => hb_conn[n]
    /\ \A p, b \in Node : socket[p][b] = "open" => up[b]

LEMMA InitFirstLives == Init => FirstLives
BY DEF Init, FirstLives

LEMMA NextFirstLives ==
    ASSUME LockInv, FirstLives, [Next]_vars
    PROVE  FirstLives'
<1> DEFINE Opened == \A p, b \in Node : socket'[p][b] = "open" => socket[p][b] = "open" \/ up[b]
<1>1. TypeOK
  BY DEF LockInv, RolesInv, BInv
<1>2. CASE UNCHANGED <<restarts, up, hb_conn>> /\ Opened
  BY <1>2 DEF FirstLives
<1>3. ASSUME NEW n \in Node, NEW w, Die(n, w), restarts' = restarts PROVE FirstLives'
  <2>1. \A k \in Node : up'[k] => k # n /\ up[k] /\ hb_conn'[k] = hb_conn[k]
    BY <1>1, <1>3 DEF Die, TypeOK
  <2>2. \A p, b \in Node : socket'[p][b] = "open" => b # n /\ socket[p][b] = "open" /\ up'[b] = up[b]
    BY <1>1, <1>3 DEF Die, TypeOK
  <2> QED
    BY <1>3, <2>1, <2>2 DEF FirstLives
<1>4. ASSUME NEW n \in Node, Restart(n) PROVE FirstLives'
  <2>1. restarts' # 0 /\ UNCHANGED socket /\ \A b \in Node : up[b] => up'[b]
    <3>1. restarts \in Nat /\ up \in [Node -> BOOLEAN]
      BY <1>1 DEF TypeOK
    <3>2. restarts' = restarts + 1 /\ UNCHANGED socket
          /\ (up' = up \/ up' = [up EXCEPT ![n] = TRUE])
      BY <1>4 DEF Restart, netVars
    <3> QED
      BY <3>1, <3>2
  <2> QED
    BY <2>1 DEF FirstLives
<1>5. ASSUME NEW n \in Node, AdminRecheck(n) PROVE FirstLives'
  <2>1. CASE \E w : Die(n, w)
    BY <1>3, <1>5, <2>1 DEF AdminRecheck, bounds
  <2>2. CASE ~ \E w : Die(n, w)
    <3>1. RecheckReplSock(n) /\ UNCHANGED <<restarts, up, hb_conn>>
      BY <1>5, <2>2 DEF AdminRecheck, bounds, lbVars
    <3>2. Opened
      BY <1>1, <3>1 DEF RecheckReplSock, TypeOK
    <3> QED
      BY <1>2, <3>1, <3>2
  <2> QED
    BY <2>1, <2>2
<1>6. ASSUME NEW n \in Node, AdminPeerGone(n) PROVE FirstLives'
  <2>1. PICK peer, s : s \in {"closed", "broken"} /\ socket' = [socket EXCEPT ![n][peer] = s]
    BY <1>6 DEF AdminPeerGone
  <2>2. Opened
    BY <1>1, <2>1 DEF TypeOK
  <2> QED
    BY <1>2, <1>6, <2>2 DEF AdminPeerGone, lbVars, bounds
<1>7. ASSUME NEW n \in Node, AdminThread(n) PROVE FirstLives'
  BY <1>2, <1>5, <1>6, <1>7 DEF AdminThread, AdminTake, AdminSkip, AdminSend, AdminAck, AdminCommit,
     netVars, lbVars, bounds
<1>8. ASSUME NEW n \in Node, IfaThread(n) PROVE FirstLives'
  BY <1>2, <1>3, <1>8 DEF IfaThread, IfaRead, IfaStray, RecoverRead, RecoverFail, RecoverWrite,
     IfaApply, netVars, lbVars, bounds
<1>9. ASSUME NEW c \in Customer,
             Connect(c) \/ PlaceOrder(c) \/ Ship(c) \/ Hangup(c) \/ Finish(c)
      PROVE  FirstLives'
  BY <1>2, <1>9 DEF Connect, PlaceOrder, Ship, Hangup, Finish, netVars, lbVars, bounds
<1>10. ASSUME NEW n \in Node, CloseReader(n) \/ Crash(n) \/ HeartBeat(n) PROVE FirstLives'
  BY <1>2, <1>3, <1>10 DEF CloseReader, Crash, HeartBeat, netVars, lbVars, bounds
<1>11. CASE UNCHANGED vars
  BY <1>2, <1>11 DEF vars, netVars, lbVars, bounds
<1> QED
  BY <1>4, <1>7, <1>8, <1>9, <1>10, <1>11 DEF Next

\* A server that is down has nothing in memory.
Blank ==
    \A n \in Node : ~up[n] =>
        /\ smr_log[n] = <<>> /\ last_index[n] = -1 /\ committed_index[n] = -1
        /\ customer_record[n] = [c \in Customer |-> 0] /\ ifa[n] = None

LEMMA InitBlank == Init => Blank
BY DEF Init, Blank

LEMMA NextBlank ==
    ASSUME LockInv, Blank, [Next]_vars
    PROVE  Blank'
<1> SUFFICES ASSUME NEW n \in Node, ~up'[n]
             PROVE  /\ smr_log'[n] = <<>> /\ last_index'[n] = -1 /\ committed_index'[n] = -1
                    /\ customer_record'[n] = [c \in Customer |-> 0] /\ ifa'[n] = None
  BY DEF Blank
<1> DEFINE Goal == /\ smr_log'[n] = <<>> /\ last_index'[n] = -1 /\ committed_index'[n] = -1
                   /\ customer_record'[n] = [c \in Customer |-> 0] /\ ifa'[n] = None
<1>1. TypeOK
  BY DEF LockInv, RolesInv, BInv
<1>2. CASE /\ up'[n] = up[n] /\ smr_log'[n] = smr_log[n] /\ last_index'[n] = last_index[n]
           /\ committed_index'[n] = committed_index[n] /\ customer_record'[n] = customer_record[n]
           /\ ifa'[n] = ifa[n]
  BY <1>2 DEF Blank
<1>3. ASSUME NEW k \in Node, NEW w, Die(k, w) PROVE Goal
  <2>1. CASE k = n
    BY <1>1, <1>3, <2>1 DEF Die, TypeOK
  <2>2. CASE k # n
    <3>1. up'[n] = up[n]
      BY <1>1, <1>3, <2>2 DEF Die, TypeOK
    <3> QED
      BY <1>2, <1>3, <2>2, <3>1, DieSteps DEF Keeps
  <2> QED
    BY <2>1, <2>2
<1>4. ASSUME NEW k \in Node, Restart(k) PROVE Goal
  <2>1. /\ up'[n] = up[n] /\ smr_log'[n] = smr_log[n] /\ last_index'[n] = last_index[n]
        /\ committed_index'[n] = committed_index[n] /\ customer_record'[n] = customer_record[n]
        /\ ifa'[n] = ifa[n]
    <3>1. CASE k = n
      BY <1>1, <1>4, <3>1 DEF Restart, TypeOK, threadVars
    <3>2. CASE k # n
      <4>1. /\ ifa' = ifa
            /\ up' = up \/ up' = [up EXCEPT ![k] = TRUE]
        BY <1>4 DEF Restart, threadVars
      <4>2. up \in [Node -> BOOLEAN]
        BY <1>1 DEF TypeOK
      <4>3. up'[n] = up[n]
        BY <3>2, <4>1, <4>2
      <4>4. n \in Node \ {k}
        BY <3>2
      <4> QED
        BY <1>1, <1>4, <4>1, <4>3, <4>4, RestartFrame
    <3> QED
      BY <3>1, <3>2
  <2> QED
    BY <1>2, <2>1
<1>5. ASSUME NEW k \in Node, AdminThread(k) PROVE Goal
  <2>1. CASE \E w : Die(k, w)
    BY <1>3, <2>1
  <2>2. CASE ~ \E w : Die(k, w)
    <3>1. up' = up /\ ifa' = ifa
      BY <1>5, <2>2 DEF AdminThread, AdminRecheck, AdminTake, AdminSkip, AdminSend, AdminAck,
         AdminPeerGone, AdminCommit
    <3>2. admin_thread_list[k] # <<>> \/ admin[k].pc # "wait"
      <4>1. admin[k] \in AdminState
        BY <1>1 DEF TypeOK
      <4>2. admin[k].pc = "wait" => admin[k].todo = <<>>
        BY <4>1, AdminStateCases
      <4> QED
        BY <1>5, <4>2 DEF AdminThread, AdminRecheck, AdminAwake, AdminTake, AdminSkip, AdminSend, AdminAck,
           AdminPeerGone, AdminCommit
    <3>3. k # n
      BY <3>1, <3>2, OnlyMasterWorks DEF LockInv
    <3>4. /\ smr_log'[n] = smr_log[n] /\ last_index'[n] = last_index[n]
          /\ committed_index'[n] = committed_index[n] /\ customer_record'[n] = customer_record[n]
      <4>1. CASE AdminTake(k)
        BY <3>3, <4>1, TakeEffect
      <4>2. CASE AdminCommit(k)
        BY <3>3, <4>2, CommitEffect
      <4>3. CASE AdminRecheck(k)
        <5>1. RecheckCommit(k) /\ UNCHANGED <<smr_log, last_index>>
          BY <2>2, <4>3 DEF AdminRecheck
        <5> QED
          BY <1>1, <3>3, <5>1 DEF RecheckCommit, TypeOK
      <4>4. CASE AdminSkip(k) \/ AdminSend(k) \/ AdminAck(k) \/ AdminPeerGone(k)
        BY <4>4 DEF AdminSkip, AdminSend, AdminAck, AdminPeerGone, logVars
      <4> QED
        BY <1>5, <4>1, <4>2, <4>3, <4>4 DEF AdminThread
    <3> QED
      BY <1>2, <3>1, <3>4
  <2> QED
    BY <2>1, <2>2
<1>6. ASSUME NEW k \in Node, IfaThread(k) PROVE Goal
  <2>1. CASE \E w : Die(k, w)
    BY <1>3, <2>1
  <2>2. CASE ~ \E w : Die(k, w)
    <3>1. ~ \E p \in Node : IfaStray(p, k)
      BY <2>2 DEF IfaStray
    <3>2. up' = up
      BY <1>6, <2>2, <3>1 DEF IfaThread, IfaRead, RecoverRead, RecoverFail, RecoverWrite, IfaApply
    <3>3. k # n
      BY <1>6, <3>1, <3>2 DEF Blank, IfaThread, IfaRead, RecoverRead, RecoverFail, RecoverWrite,
         IfaApply
    <3> QED
      BY <1>1, <1>2, <1>6, <2>2, <3>1, <3>2, <3>3, IfaFrame DEF IfaThread
  <2> QED
    BY <2>1, <2>2
<1>7. ASSUME NEW c \in Customer,
             Connect(c) \/ PlaceOrder(c) \/ Ship(c) \/ Hangup(c) \/ Finish(c)
      PROVE  Goal
  BY <1>2, <1>7 DEF Connect, PlaceOrder, Ship, Hangup, Finish, logVars, threadVars
<1>8. ASSUME NEW k \in Node, CloseReader(k) \/ Crash(k) \/ HeartBeat(k) PROVE Goal
  BY <1>2, <1>3, <1>8 DEF CloseReader, Crash, HeartBeat, logVars, threadVars
<1>9. CASE UNCHANGED vars
  BY <1>2, <1>9 DEF vars, logVars, threadVars
<1> QED
  BY <1>4, <1>5, <1>6, <1>7, <1>8, <1>9 DEF Next

-----------------------------------------------------------------------------
(***************************************************************************)
(* Reading.                                                                *)
(***************************************************************************)

\* A customer with entries has a last one.
LEMMA MineHasLast ==
    ASSUME NEW log, NEW n \in Int, NEW c, Mine(log, n, c) # {}
    PROVE  \E k \in Mine(log, n, c) : \A j \in Mine(log, n, c) : j <= k
<1> DEFINE S == {x \in Nat : n - x \in Mine(log, n, c)}
<1>1. \A j \in Mine(log, n, c) : j \in Int /\ 0 <= j /\ j <= n
  BY DEF Mine
<1>2. \A j \in Mine(log, n, c) : n - j \in S
  <2> SUFFICES ASSUME NEW j \in Mine(log, n, c) PROVE n - j \in Nat /\ n - (n - j) = j
    OBVIOUS
  <2> QED
    BY <1>1
<1>3. S # {} /\ S \in SUBSET Nat
  BY <1>2
<1> HIDE DEF S
<1>4. PICK x \in S : \A y \in S : x <= y
  BY <1>3, LeastExists
<1>5. n - x \in Mine(log, n, c) /\ x \in Nat
  BY <1>4 DEF S
<1>6. \A j \in Mine(log, n, c) : j <= n - x
  <2> SUFFICES ASSUME NEW j \in Mine(log, n, c) PROVE j <= n - x
    OBVIOUS
  <2>1. x <= n - j /\ j \in Int
    BY <1>1, <1>2, <1>4
  <2> QED
    BY <1>5, <2>1
<1> QED
  BY <1>5, <1>6

\* What a replay shows of a customer: no less than any of its orders that are
\* replayed, and none that it did not place.
LEMMA ReplayShows ==
    ASSUME NEW log \in Seq(Entry), NEW num \in [Customer -> Nat], InOrder(log, num),
           NEW n \in Int, n < Len(log), NEW c \in Customer
    PROVE  /\ Replay(log, n)[c] \in Nat /\ Replay(log, n)[c] <= num[c]
           /\ \A i \in Mine(log, n, c) :
                 Replay(log, n)[c] >= At(log, i).arg2 /\ At(log, i).arg2 \in Nat \ {0}
<1>1. Len(log) \in Nat
  BY LenProperties
<1>2. ASSUME NEW i \in Mine(log, n, c)
      PROVE  /\ i \in Nat /\ i + 1 \in 1 .. Len(log) /\ At(log, i) = log[i + 1]
             /\ At(log, i) \in Order /\ At(log, i).arg1 = c
             /\ At(log, i).arg2 <= num[c]
             /\ At(log, i).arg2 \in Nat \ {0}
  <2>1. i \in Nat /\ i + 1 \in 1 .. Len(log) /\ At(log, i) = log[i + 1] /\ At(log, i).arg1 = c
    BY <1>1 DEF Mine, At
  <2>2. At(log, i) \in Order /\ At(log, i).arg2 <= num[c]
    BY <2>1 DEF InOrder
  <2> QED
    BY <2>1, <2>2 DEF Order
<1>3. CASE Mine(log, n, c) = {}
  BY <1>3, ReplayNothing
<1>4. CASE Mine(log, n, c) # {}
  <2>1. PICK k \in Mine(log, n, c) : \A j \in Mine(log, n, c) : j <= k
    BY <1>4, MineHasLast
  <2>2. Replay(log, n)[c] = At(log, k).arg2
    BY <2>1, ReplayValue
  <2>3. ASSUME NEW i \in Mine(log, n, c) PROVE At(log, k).arg2 >= At(log, i).arg2
    <3>1. CASE i = k
      BY <1>2, <3>1
    <3>2. CASE i # k
      <4>1. i + 1 \in 1 .. (k + 1) - 1 /\ k + 1 \in 1 .. Len(log)
        BY <1>2, <2>1, <3>2
      <4>2. log[i + 1].arg2 < log[k + 1].arg2
        BY <1>2, <4>1 DEF InOrder
      <4> QED
        BY <1>2, <4>2
    <3> QED
      BY <3>1, <3>2
  <2> QED
    BY <1>2, <2>2, <2>3
<1> QED
  BY <1>3, <1>4

\* A record that lags by one entry shows every order of the log or the one before.
LEMMA ReadLags ==
    ASSUME NEW log \in Seq(Entry), NEW num \in [Customer -> Nat], InOrder(log, num),
           NEW n \in Int, n < Len(log), NEW o, o.arg1 \in Customer, o.arg2 > 1,
           NEW i \in 0 .. n + 1, i < Len(log), At(log, i) = o
    PROVE  Replay(log, n)[o.arg1] # 0 /\ Replay(log, n)[o.arg1] >= o.arg2 - 1
<1>1. Len(log) \in Nat /\ i + 1 \in 1 .. Len(log) /\ log[i + 1] = o /\ i \in Nat
  BY LenProperties DEF At
<1>2. o \in Order /\ o.arg2 \in Nat
  BY <1>1 DEF InOrder, Order
<1>3. PICK r : r = Replay(log, n)[o.arg1]
  OBVIOUS
<1>4. /\ r \in Nat
      /\ \A j \in Mine(log, n, o.arg1) : r >= At(log, j).arg2 /\ At(log, j).arg2 \in Nat \ {0}
  BY <1>3, ReplayShows
<1>5. Garbage \notin Order
  BY OpAssumption
<1>6. CASE i <= n
  <2>1. i \in Mine(log, n, o.arg1)
    BY <1>1, <1>2, <1>5, <1>6 DEF Mine
  <2> QED
    BY <1>2, <1>3, <1>4, <2>1
<1>7. CASE i = n + 1
  <2>1. PICK j \in 1 .. (i + 1) - 1 : log[j].arg1 = o.arg1 /\ log[j].arg2 = o.arg2 - 1
    BY <1>1 DEF InOrder
  <2>2. j - 1 \in 0 .. n /\ j \in 1 .. Len(log) /\ At(log, j - 1) = log[j]
    BY <1>1, <1>7, <2>1 DEF At
  <2>3. log[j] \in Order
    BY <2>2 DEF InOrder
  <2>4. j - 1 \in Mine(log, n, o.arg1)
    BY <1>5, <2>1, <2>2, <2>3 DEF Mine
  <2>5. r >= o.arg2 - 1 /\ o.arg2 - 1 > 0
    BY <1>2, <1>4, <2>1, <2>2, <2>4
  <2> QED
    BY <1>2, <1>3, <1>4, <2>5
<1> QED
  BY <1>6, <1>7

-----------------------------------------------------------------------------
(***************************************************************************)
(* The invariant of the servers that have never died, and what it says.    *)
(***************************************************************************)

SurvivorInv ==
    /\ LockInv /\ BooksKept /\ Held /\ Numbers /\ OrderInv
    /\ Uncommitted /\ FirstLives /\ Blank

\* The invariant behind the theorems below holds in every run in which crashes
\* are as Graceful says: servers that have never died keep in lockstep, their
\* files and records follow their logs, and these list the orders in sequence.
THEOREM SurvivorsInvariance == ASSUME Graceful PROVE Spec => []SurvivorInv
<1>1. Init => SurvivorInv
  BY InitLockstep, InitBooks, InitHeld, InitNumbers, InitOrder, InitUncommitted, InitFirstLives,
     InitBlank
     DEF SurvivorInv
<1>2. SurvivorInv /\ [Next]_vars => SurvivorInv'
  <2> SUFFICES ASSUME SurvivorInv, [Next]_vars PROVE SurvivorInv'
    OBVIOUS
  <2>1. LockInv'
    BY NextLock DEF SurvivorInv
  <2>2. BooksKept' /\ Held' /\ Numbers' /\ FirstLives' /\ Blank'
    BY NextBooks, NextHeld, NextNumbers, NextFirstLives, NextBlank DEF SurvivorInv
  <2>3. OrderInv'
    BY <2>1, NextLogsInOrder, NextDeadWire, NextNotYetLogged DEF SurvivorInv, OrderInv
  <2>4. Uncommitted'
    BY <2>1, NextUncommitted DEF SurvivorInv
  <2> QED
    BY <2>1, <2>2, <2>3, <2>4 DEF SurvivorInv
<1> QED
  BY <1>1, <1>2, PTL DEF Spec

\* When a primary sends its log, last_index is the last index of smr_log that has
\* data (RobotFactory.h:60, ServerStub.h:236-272).
THEOREM SendersKnowTheirLog == ASSUME Graceful PROVE Spec => []LastIndexIsLast
<1>1. SurvivorInv => LastIndexIsLast
  <2> SUFFICES ASSUME SurvivorInv, NEW n \in Node, admin[n].pc \in {"send", "ack", "reack"}
               PROVE  Len(smr_log[n]) = last_index[n] + 1
    BY DEF LastIndexIsLast
  <2>1. hb_conn[n] /\ ifa[n] = None
    BY OnlyMasterWorks DEF SurvivorInv, LockInv
  <2> QED
    BY <2>1 DEF SurvivorInv, LockInv, Lockstep, LogsTidy, Tidy
<1> QED
  BY <1>1, SurvivorsInvariance, PTL

\* The file of a server that has never died lists what its smr_log lists
\* (Server.cpp:337-348, 394-405).
THEOREM FilesMatchLogs == ASSUME Graceful PROVE Spec => []FileMatchesLog
<1>1. SurvivorInv => FileMatchesLog
  BY SurvivorsAre DEF SurvivorInv, BooksKept, Books, Written, FileMatchesLog
<1> QED
  BY <1>1, SurvivorsInvariance, PTL

\* An order whose robot was shipped (Server.cpp:150-182) is in the log of every
\* server that has never died, and so of whichever takes over.
THEOREM ShippedOrdersSurvive == ASSUME Graceful PROVE Spec => []AckedSurvive
<1>1. SurvivorInv => AckedSurvive
  BY SurvivorsAre DEF SurvivorInv, Held, AckedSurvive
<1> QED
  BY <1>1, SurvivorsInvariance, PTL

\* The server the load balancer opens the next session with (get_master_node,
\* ServerThread.cpp:33-57), if it is up, is one of them: it is the master or, when
\* the master is gone, the first healthy server of the list.  So AckedAtMaster holds,
\* and the server lacks nothing after restarts either.
THEOREM MasterHasShippedOrders ==
    ASSUME Graceful
    PROVE  Spec => [](/\ AckedAtMaster
                      /\ InUse(GetMasterNode) => Missing(GetMasterNode) = {})
<1>1. SurvivorInv => (InUse(GetMasterNode) => Missing(GetMasterNode) = {})
  <2> SUFFICES ASSUME SurvivorInv, InUse(GetMasterNode), NEW o \in acked
               PROVE  Holds(GetMasterNode, o)
    BY DEF Missing
  <2>1. GetMasterNode \in Node
    BY NextMaster DEF SurvivorInv, LockInv, RolesInv, BInv
  <2>2. hb_conn[GetMasterNode]
    BY <2>1 DEF InUse, SurvivorInv, LockInv, RolesInv, Lives
  <2> QED
    BY <2>1, <2>2 DEF SurvivorInv, Held
<1>2. (InUse(GetMasterNode) => Missing(GetMasterNode) = {}) => AckedAtMaster
  <2>1. Cardinality({}) = 0
    BY FS_EmptySet
  <2>2. BatchSize > 1 => 0 < BatchSize
    BY BatchAssumption DEF BatchSize
  <2> QED
    BY <2>1, <2>2 DEF AckedAtMaster
<1> QED
  BY <1>1, <1>2, SurvivorsInvariance, PTL

\* A read (engineer_thread_read_def, Server.cpp:189-206) from any server that has
\* never died shows the last shipped order of the customer or the one before, and
\* none that was not placed.
THEOREM ReadsAreRecent == ASSUME Graceful PROVE Spec => []ReadsLagByOne
<1>1. SurvivorInv => ReadsLagByOne
  <2> SUFFICES ASSUME SurvivorInv, NEW n \in Survivors, NEW c \in Customer
               PROVE  /\ ReadRecord(n, c) <= ordered[c]
                      /\ \A o \in acked : o.arg1 = c /\ o.arg2 > 1 => ReadRecord(n, c) >= o.arg2 - 1
    BY DEF ReadsLagByOne
  <2>1. n \in Node /\ hb_conn[n] /\ LockInv
    BY SurvivorsAre DEF SurvivorInv
  <2>2. PICK log, k : log = smr_log[n] /\ k = committed_index[n]
    OBVIOUS
  <2>3. /\ log \in Seq(Entry) /\ k \in Int /\ k < Len(log) /\ Len(log) \in Nat
        /\ last_index[n] \in Int /\ last_index[n] <= k + 1 /\ last_index[n] < Len(log)
    <3>1. /\ last_index[n] \in Index /\ k \in Index /\ k \in {last_index[n] - 1, last_index[n]}
          /\ Len(log) \in {last_index[n] + 1, last_index[n] + 2}
      BY <2>1, <2>2, TidyIndexes
    <3> QED
      BY <2>1, <2>2, <3>1, TidyIndexes DEF Index
  <2>4. ordered \in [Customer -> Nat] /\ InOrder(log, ordered)
    BY <2>1, <2>2 DEF SurvivorInv, OrderInv, LogsInOrder, LockInv, RolesInv, BInv, TypeOK
  <2>5. customer_record[n][c] = Replay(log, k)[c]
    BY <2>1, <2>2 DEF SurvivorInv, BooksKept, Books
  <2>6. Replay(log, k)[c] \in Nat /\ Replay(log, k)[c] <= ordered[c]
    BY <2>3, <2>4, ReplayShows
  <2>7. ReadRecord(n, c) <= ordered[c]
    BY <2>4, <2>5, <2>6 DEF ReadRecord
  <2>8. ASSUME NEW o \in acked, o.arg1 = c, o.arg2 > 1 PROVE ReadRecord(n, c) >= o.arg2 - 1
    <3>1. PICK i \in Logged(n) : At(log, i) = o
      BY <2>1, <2>2 DEF SurvivorInv, Held, Holds
    <3>2. i \in 0 .. k + 1 /\ i < Len(log)
      BY <2>1, <2>2, <2>3, <3>1 DEF Logged, InRange
    <3>3. Replay(log, k)[c] # 0 /\ Replay(log, k)[c] >= o.arg2 - 1
      BY <2>3, <2>4, <2>8, <3>1, <3>2, ReadLags
    <3> QED
      BY <2>5, <3>3 DEF ReadRecord
  <2> QED
    BY <2>7, <2>8
<1> QED
  BY <1>1, SurvivorsInvariance, PTL

\* What the next theorem says of two servers: they are one entry apart at most and
\* have the same entries, those that one calls committed are at the other one, one
\* entry at most is not committed, and customer_record is what the committed part of
\* a log adds up to.
InStepWith(a, b) ==
    /\ last_index[a] <= last_index[b] + 1
    /\ committed_index[a] \in {last_index[a] - 1, last_index[a]}
    /\ committed_index[a] <= last_index[b]
    /\ \A i \in 0 .. last_index[a] :
          i <= last_index[b] => At(smr_log[a], i) = At(smr_log[b], i)
    /\ customer_record[a] = Replay(smr_log[a], committed_index[a])

\* Servers that have never died stay in step, in the middle of a broadcast or of a
\* takeover too, and whatever others that were started again do
\* (Server.cpp:319-361, 368-460).
THEOREM SurvivorsStayInStep ==
    ASSUME Graceful PROVE Spec => [](\A a, b \in Survivors : InStepWith(a, b))
<1>1. SurvivorInv => \A a, b \in Survivors : InStepWith(a, b)
  BY SurvivorsAre, TidyIndexes, AllAlike DEF SurvivorInv, BooksKept, Books, InStepWith
<1> QED
  BY <1>1, SurvivorsInvariance, PTL

\* The orders in n's log: none twice, and those of a customer as they were placed.
LogsInSequence(n) ==
    \A i, j \in Logged(n) :
        i < j /\ At(smr_log[n], i).arg1 = At(smr_log[n], j).arg1
        => At(smr_log[n], i).arg2 < At(smr_log[n], j).arg2

LEMMA SurvivorLogsInSequence ==
    ASSUME SurvivorInv, NEW n \in Node, hb_conn[n]
    PROVE  LogsInSequence(n)
<1>1. InOrder(smr_log[n], ordered) /\ Len(smr_log[n]) \in Nat
  BY TidyIndexes DEF SurvivorInv, OrderInv, LogsInOrder
<1> SUFFICES ASSUME NEW i \in Logged(n), NEW j \in Logged(n), i < j,
                    At(smr_log[n], i).arg1 = At(smr_log[n], j).arg1
             PROVE  At(smr_log[n], i).arg2 < At(smr_log[n], j).arg2
  BY DEF LogsInSequence
<1>2. j + 1 \in 1 .. Len(smr_log[n]) /\ i + 1 \in 1 .. (j + 1) - 1
  BY <1>1 DEF Logged, InRange
<1> QED
  BY <1>1, <1>2 DEF InOrder, At

\* No server that has never died logs an order twice, or a customer's orders in
\* another sequence than that in which they were placed, whichever primaries sent
\* them (Server.cpp:150-182, 319-361).
THEOREM SurvivorsKeepTheSequence ==
    ASSUME Graceful PROVE Spec => [](\A n \in Survivors : LogsInSequence(n))
<1>1. SurvivorInv => \A n \in Survivors : LogsInSequence(n)
  BY SurvivorsAre, SurvivorLogsInSequence DEF SurvivorInv
<1> QED
  BY <1>1, SurvivorsInvariance, PTL

\* p takes b's acknowledgement of the request in its hands.
Acknowledges(b, p) ==
    /\ admin[p].pc \in {"ack", "reack"}
    /\ Head(admin[p].todo) = b
    /\ reply[p][b] # None
    /\ socket[p][b] = "open"

LEMMA SurvivorAcks ==
    ASSUME SurvivorInv, NEW p \in Node, NEW b \in Node, Acknowledges(b, p), hb_conn[b]
    PROVE  smr_log[b] = smr_log[p] /\ last_index[b] = last_index[p]
<1>1. p = master_node_id /\ hb_conn[p] /\ ifa[p] = None
  BY OnlyMasterWorks DEF SurvivorInv, LockInv, Acknowledges
<1>2. ~Behind(b) /\ ~Behind(p)
  BY <1>1, MasterCases DEF Behind, SurvivorInv, LockInv, Acknowledges
<1>3. smr_log[b] = smr_log[p] /\ ifa[b] = None
  BY <1>1, <1>2 DEF SurvivorInv, LockInv, Lockstep, InStep, Acknowledges
<1>4. Len(smr_log[b]) = last_index[b] + 1 /\ Len(smr_log[p]) = last_index[p] + 1
  BY <1>1, <1>3 DEF SurvivorInv, LockInv, Lockstep, LogsTidy, Tidy
<1>5. last_index[b] \in Int /\ last_index[p] \in Int
  BY DEF SurvivorInv, LockInv, RolesInv, BInv, TypeOK, Index
<1> QED
  BY <1>3, <1>4, <1>5

\* A backup that has never died has the primary's whole log when it acknowledges a
\* request (GetReplicationAck, ServerStub.h), also if a primary died before.
THEOREM SurvivorsAckTheSameLog ==
    ASSUME Graceful
    PROVE  Spec => [](\A p \in Node, b \in Survivors : Acknowledges(b, p) =>
                          smr_log[b] = smr_log[p] /\ last_index[b] = last_index[p])
<1>1. SurvivorInv => \A p \in Node, b \in Survivors : Acknowledges(b, p) =>
                         smr_log[b] = smr_log[p] /\ last_index[b] = last_index[p]
  BY SurvivorsAre, SurvivorAcks DEF SurvivorInv
<1> QED
  BY <1>1, SurvivorsInvariance, PTL

\* What is committed by n stays so in a step.
TakesNothingBack(n) ==
    /\ committed_index[n] <= committed_index'[n]
    /\ \A i \in 0 .. committed_index[n] : At(smr_log[n], i) = At(smr_log'[n], i)

LEMMA SurvivorSteps ==
    ASSUME SurvivorInv, [Next]_vars, NEW n \in Node, hb_conn'[n]
    PROVE  TakesNothingBack(n)
<1>1. hb_conn[n] /\ LogStep(n)
  BY LogSteps DEF SurvivorInv
<1>2. /\ committed_index[n] \in Int /\ last_index[n] \in Int
      /\ committed_index[n] <= last_index[n] /\ last_index[n] < Len(smr_log[n])
      /\ Len(smr_log[n]) \in Nat /\ smr_log[n] \in Seq(Entry)
  <2>1. /\ committed_index[n] \in Index /\ last_index[n] \in Index
        /\ committed_index[n] \in {last_index[n] - 1, last_index[n]}
        /\ Len(smr_log[n]) \in {last_index[n] + 1, last_index[n] + 2}
        /\ Len(smr_log[n]) \in Nat /\ smr_log[n] \in Seq(Entry)
    BY <1>1, TidyIndexes DEF SurvivorInv
  <2> QED
    BY <2>1 DEF Index
<1>3. committed_index[n] <= committed_index'[n]
  BY <1>1, <1>2 DEF LogStep, Keeps, Logs, Advances
<1>4. CASE smr_log'[n] = smr_log[n]
  BY <1>3, <1>4 DEF TakesNothingBack
<1>5. ASSUME NEW op, Logs(n, op)
      PROVE  \A i \in 0 .. committed_index[n] : At(smr_log[n], i) = At(smr_log'[n], i)
  <2>1. PICK log2 : log2 = smr_log'[n]
    OBVIOUS
  <2>2. log2 = Append(smr_log[n], op) /\ op \in Entry
    BY <1>5, <2>1 DEF Logs, Entry
  <2>3. \A k \in 1 .. Len(smr_log[n]) : log2[k] = smr_log[n][k]
    BY <1>2, <2>2, AppendProperties
  <2>4. \A i \in 0 .. committed_index[n] : i + 1 \in 1 .. Len(smr_log[n])
    BY <1>2
  <2> QED
    BY <2>1, <2>3, <2>4 DEF At
<1> QED
  BY <1>1, <1>3, <1>4, <1>5 DEF LogStep, Keeps, Advances, TakesNothingBack

\* A server that has never died takes nothing back, as primary, as backup or when
\* it takes over, and however others are started again (Server.cpp:115-122,
\* 150-182, 319-361).
THEOREM SurvivorsTakeNothingBack ==
    ASSUME Graceful
    PROVE  Spec => [][\A n \in Survivors : n \in Survivors' => TakesNothingBack(n)]_vars
<1> DEFINE Stays == \A n \in Survivors : n \in Survivors' => TakesNothingBack(n)
<1>1. SurvivorInv /\ [Next]_vars => [Stays]_vars
  <2> SUFFICES ASSUME SurvivorInv, [Next]_vars, NEW n \in Survivors, n \in Survivors'
               PROVE  TakesNothingBack(n)
    OBVIOUS
  <2>1. n \in Node /\ hb_conn'[n]
    BY DEF Survivors
  <2> QED
    BY <2>1, SurvivorSteps
<1> HIDE DEF Stays
<1>2. Spec => [][Stays]_vars
  BY <1>1, SurvivorsInvariance, PTL DEF Spec
<1> QED
  BY <1>2 DEF Stays

-----------------------------------------------------------------------------
(***************************************************************************)
(* Until a server is started again, what is true of the servers that have  *)
(* never died is true of all that run.                                     *)
(***************************************************************************)

LEMMA AllRunningLive ==
    ASSUME SurvivorInv, restarts = 0, NEW n \in Node, up[n]
    PROVE  /\ hb_conn[n] /\ n \in Survivors
           /\ last_index[n] \in Index /\ committed_index[n] \in Index
           /\ committed_index[n] \in {last_index[n] - 1, last_index[n]}
           /\ smr_log[n] \in Seq(Entry)
           /\ Logged(n) = 0 .. last_index[n]
<1>1. hb_conn[n]
  BY DEF SurvivorInv, FirstLives
<1> QED
  BY <1>1, TidyIndexes DEF SurvivorInv

\* Two running servers agree on every entry both call committed.
THEOREM LogsAgree == ASSUME Graceful PROVE Spec => [](restarts = 0 => LogAgreement)
<1>1. SurvivorInv => (restarts = 0 => LogAgreement)
  <2> SUFFICES ASSUME SurvivorInv, restarts = 0, NEW n \in Node, NEW m \in Node, up[n], up[m],
                      NEW i \in 0 .. committed_index[n], i <= committed_index[m]
               PROVE  /\ InRange(smr_log[n], i) /\ InRange(smr_log[m], i)
                      /\ At(smr_log[n], i) = At(smr_log[m], i)
    BY DEF LogAgreement
  <2>1. \A k \in {n, m} : i \in Logged(k)
    <3> SUFFICES ASSUME NEW k \in {n, m} PROVE i \in 0 .. last_index[k] /\ Logged(k) = 0 .. last_index[k]
      OBVIOUS
    <3>1. /\ last_index[k] \in Index /\ committed_index[k] \in {last_index[k] - 1, last_index[k]}
          /\ Logged(k) = 0 .. last_index[k]
      BY AllRunningLive
    <3> QED
      BY <3>1 DEF Index
  <2>2. InRange(smr_log[n], i) /\ InRange(smr_log[m], i)
    BY <2>1 DEF Logged
  <2>3. i \in 0 .. last_index[n] /\ i <= last_index[m]
    BY <2>1 DEF Logged
  <2> QED
    BY <2>2, <2>3, AllRunningLive, AllAlike DEF SurvivorInv
<1> QED
  BY <1>1, SurvivorsInvariance, PTL

\* customer_record of a running server is what the committed part of its log adds
\* up to.
THEOREM RecordsMatchLogs == ASSUME Graceful PROVE Spec => [](restarts = 0 => RecordMatchesLog)
<1>1. SurvivorInv => (restarts = 0 => RecordMatchesLog)
  <2> SUFFICES ASSUME SurvivorInv, restarts = 0, NEW n \in Node, MtxFree(n)
               PROVE  customer_record[n] = Replay(smr_log[n], committed_index[n])
    BY DEF RecordMatchesLog
  <2>1. CASE hb_conn[n]
    BY <2>1 DEF SurvivorInv, BooksKept, Books
  <2>2. CASE ~up[n]
    BY <2>2, ReplayEmpty DEF SurvivorInv, Blank
  <2> QED
    BY <2>1, <2>2, AllRunningLive
<1> QED
  BY <1>1, SurvivorsInvariance, PTL

\* No order is logged twice, and those of a customer are logged in the order in
\* which they were placed.
THEOREM OrdersKeepTheirSequence ==
    ASSUME Graceful PROVE Spec => [](restarts = 0 => OrdersInSequence)
<1>1. SurvivorInv => (restarts = 0 => OrdersInSequence)
  BY AllRunningLive, SurvivorLogsInSequence DEF LogsInSequence, OrdersInSequence
<1> QED
  BY <1>1, SurvivorsInvariance, PTL

\* A backup that has acknowledged a request (GetReplicationAck) has the log of the
\* primary.
THEOREM AcksMeanSameLog == ASSUME Graceful PROVE Spec => [](restarts = 0 => AckMeansSameLog)
<1>1. SurvivorInv => (restarts = 0 => AckMeansSameLog)
  <2> SUFFICES ASSUME SurvivorInv, restarts = 0, NEW p \in Node, NEW b \in Node,
                      Acknowledges(b, p)
               PROVE  smr_log[b] = smr_log[p] /\ last_index[b] = last_index[p]
    BY DEF AckMeansSameLog, Logged, Acknowledges
  <2>1. hb_conn[b]
    BY DEF SurvivorInv, FirstLives, Acknowledges
  <2> QED
    BY <2>1, SurvivorAcks
<1> QED
  BY <1>1, SurvivorsInvariance, PTL

\* What a server has committed is in the logs of all that have never died.
THEOREM CommittedIsEverywhere ==
    ASSUME Graceful PROVE Spec => [](restarts = 0 => CommittedIsKnown)
<1>1. SurvivorInv => (restarts = 0 => CommittedIsKnown)
  <2> SUFFICES ASSUME SurvivorInv, restarts = 0, NEW n \in Node, up[n],
                      NEW i \in 0 .. committed_index[n], NEW m \in Survivors
               PROVE  Holds(m, At(smr_log[n], i))
    BY AllRunningLive DEF CommittedIsKnown
  <2>1. m \in Node /\ hb_conn[m] /\ hb_conn[n]
    BY AllRunningLive, SurvivorsAre DEF SurvivorInv
  <2>2. /\ committed_index[n] <= last_index[m]
        /\ \A k \in 0 .. last_index[n] :
               k <= last_index[m] => At(smr_log[n], k) = At(smr_log[m], k)
    BY <2>1, AllAlike DEF SurvivorInv
  <2>3. /\ last_index[n] \in Index /\ committed_index[n] \in {last_index[n] - 1, last_index[n]}
        /\ last_index[m] \in Index /\ Logged(m) = 0 .. last_index[m]
    BY <2>1, TidyIndexes DEF SurvivorInv
  <2>4. i \in 0 .. last_index[n] /\ i <= last_index[m] /\ i \in Logged(m)
    BY <2>2, <2>3 DEF Index
  <2> QED
    BY <2>2, <2>4 DEF Holds
<1> QED
  BY <1>1, SurvivorsInvariance, PTL

NoRestart == restarts = 0

\* Without restarts the committed entries of a running server stay what they are
\* and its committed index does not fall.
THEOREM CommittedStays ==
    ASSUME Graceful, MaxRestart = 0 PROVE Spec => CommittedIsStable
<1> DEFINE Stays == \A n \in Node : up[n] /\ up'[n] =>
                        /\ committed_index[n] <= committed_index'[n]
                        /\ \A i \in 0 .. committed_index[n] :
                              At(smr_log[n], i) = At(smr_log'[n], i)
<1>1. Init => NoRestart
  BY DEF Init, NoRestart
<1>2. NoRestart /\ [Next]_vars => NoRestart'
  <2> SUFFICES ASSUME NoRestart, [Next]_vars PROVE NoRestart'
    OBVIOUS
  <2>1. \A n \in Node : ~Restart(n)
    BY DEF Restart, NoRestart
  <2>2. ASSUME NEW n \in Node, AdminThread(n) PROVE restarts' = restarts
    BY <2>2 DEF AdminThread, AdminRecheck, AdminTake, AdminSkip, AdminSend, AdminAck,
       AdminPeerGone, AdminCommit, bounds
  <2>3. ASSUME NEW b \in Node, IfaThread(b) PROVE restarts' = restarts
    BY <2>3 DEF IfaThread, IfaRead, IfaStray, RecoverRead, RecoverFail, RecoverWrite, IfaApply, bounds
  <2>4. ASSUME NEW c \in Customer,
               Connect(c) \/ PlaceOrder(c) \/ Ship(c) \/ Hangup(c) \/ Finish(c)
        PROVE  restarts' = restarts
    BY <2>4 DEF Connect, PlaceOrder, Ship, Hangup, Finish, bounds
  <2>5. ASSUME NEW n \in Node, CloseReader(n) \/ Crash(n) \/ HeartBeat(n)
        PROVE  restarts' = restarts
    BY <2>5 DEF CloseReader, Crash, HeartBeat, bounds
  <2>6. CASE UNCHANGED vars
    BY <2>6 DEF vars, bounds, NoRestart
  <2> QED
    BY <2>1, <2>2, <2>3, <2>4, <2>5, <2>6 DEF NoRestart, Next
<1>3. SurvivorInv /\ SurvivorInv' /\ NoRestart' /\ [Next]_vars => [Stays]_vars
  BY SurvivorSteps DEF SurvivorInv, FirstLives, NoRestart, TakesNothingBack
<1> HIDE DEF Stays
<1>4. Spec => []SurvivorInv
  BY SurvivorsInvariance
<1>5. Init /\ [][Next]_vars => []NoRestart
  BY <1>1, <1>2, PTL
<1>6. Spec => [][Stays]_vars
  BY <1>3, <1>4, <1>5, PTL DEF Spec
<1> QED
  BY <1>6 DEF CommittedIsStable, Stays

-----------------------------------------------------------------------------
(***************************************************************************)
(* Requests and their answers.  A primary that lives has one request under *)
(* way at a time, or the answer to it, also while a backup recovers.       *)
(***************************************************************************)

HasReq(w) == \E i \in 1 .. Len(w) : w[i].kind = "req"

\* Whatever else is in w is before a request.
ReqLast(w) == \A i \in 1 .. Len(w) : w[i].kind = "req" => i = Len(w)

\* p is in GetReplicationAck with b.
Calls(p, b) == admin[p].pc \in {"ack", "reack"} /\ Head(admin[p].todo) = b

\* An ifa thread of b handles a request of p.
Serves(b, p) == ifa[b] # None /\ ifa[b].from = p

Exchange(p, b) ==
    /\ wire[p][b] # <<>> => up[b]
    /\ hb_conn[p] =>
          /\ ReqLast(wire[p][b])
          /\ socket[p][b] # "open" => wire[p][b] = <<>> /\ ~Serves(b, p)
          /\ reply[p][b] # None => Calls(p, b)
          /\ HasReq(wire[p][b]) => Calls(p, b) /\ ~Serves(b, p) /\ reply[p][b] = None
          /\ Serves(b, p) => /\ Calls(p, b)
                             /\ reply[p][b] # None => reply[p][b].is_success = 2

Exchanges == \A p, b \in Node : Exchange(p, b)

LEMMA ReqTail ==
    ASSUME NEW w \in Seq(Message), w # <<>>, ReqLast(w)
    PROVE  /\ ReqLast(Tail(w))
           /\ HasReq(Tail(w)) => HasReq(w) /\ Head(w).kind # "req"
<1> DEFINE v == Tail(w)
<1>1. /\ Len(w) \in Nat /\ Len(v) = Len(w) - 1
      /\ \A i \in 1 .. Len(w) - 1 : v[i] = w[i + 1]
  BY HeadTailProperties, EmptySeq, LenProperties
<1> HIDE DEF v
<1>2. Len(w) >= 1 /\ Head(w) = w[1]
  BY HeadTailProperties, EmptySeq, LenProperties
<1>3. ASSUME NEW i \in 1 .. Len(v), v[i].kind = "req"
      PROVE  i + 1 \in 1 .. Len(w) /\ w[i + 1].kind = "req" /\ i + 1 = Len(w)
  <2>1. i \in 1 .. Len(w) - 1 /\ i + 1 \in 1 .. Len(w)
    BY <1>1
  <2>2. w[i + 1].kind = "req"
    BY <1>1, <1>3, <2>1
  <2> QED
    BY <2>1, <2>2 DEF ReqLast
<1>4. ReqLast(v)
  <2> SUFFICES ASSUME NEW i \in 1 .. Len(v), v[i].kind = "req"
               PROVE  i = Len(v)
    BY DEF ReqLast
  <2>1. i + 1 = Len(w) /\ i \in Int
    BY <1>1, <1>3
  <2>2. Len(v) = Len(w) - 1 /\ Len(w) \in Nat
    BY <1>1
  <2> QED
    BY <2>1, <2>2
<1>5. HasReq(v) => HasReq(w) /\ Head(w).kind # "req"
  <2> SUFFICES ASSUME NEW i \in 1 .. Len(v), v[i].kind = "req"
               PROVE  HasReq(w) /\ Head(w).kind # "req"
    BY DEF HasReq
  <2>1. HasReq(w)
    BY <1>3 DEF HasReq
  <2>2. i \in 1 .. Len(w) - 1
    BY <1>1
  <2>3. 1 \in 1 .. Len(w) /\ 1 # Len(w)
    BY <1>1, <2>2
  <2>4. w[1].kind # "req"
    BY <2>3 DEF ReqLast
  <2> QED
    BY <1>2, <2>1, <2>4
<1> QED
  BY <1>4, <1>5 DEF v

LEMMA ReqAppend ==
    ASSUME NEW w \in Seq(Message), NEW m \in Message, ~HasReq(w)
    PROVE  ReqLast(Append(w, m))
<1>1. Len(w) \in Nat /\ Len(Append(w, m)) = Len(w) + 1
      /\ \A i \in 1 .. Len(w) : Append(w, m)[i] = w[i]
  BY LenProperties, AppendProperties
<1> QED
  BY <1>1 DEF HasReq, ReqLast

LEMMA ReqConcat ==
    ASSUME NEW w \in Seq(Message), NEW v \in Seq(Message), ~HasReq(w), ~HasReq(v)
    PROVE  ~HasReq(w \o v) /\ ReqLast(w \o v)
<1>1. Len(w) \in Nat /\ Len(v) \in Nat /\ Len(w \o v) = Len(w) + Len(v)
      /\ \A i \in 1 .. Len(w) + Len(v) :
            (w \o v)[i] = IF i <= Len(w) THEN w[i] ELSE v[i - Len(w)]
  BY LenProperties, ConcatProperties
<1>2. ~HasReq(w \o v)
  <2> SUFFICES ASSUME NEW i \in 1 .. Len(w) + Len(v), (w \o v)[i].kind = "req"
               PROVE  FALSE
    BY <1>1 DEF HasReq
  <2>1. CASE i <= Len(w)
    BY <1>1, <2>1 DEF HasReq
  <2>2. CASE i > Len(w)
    <3>1. i - Len(w) \in 1 .. Len(v) /\ v[i - Len(w)].kind = "req"
      BY <1>1, <2>2
    <3> QED
      BY <3>1 DEF HasReq
  <2> QED
    BY <1>1, <2>1, <2>2
<1> QED
  BY <1>2 DEF HasReq, ReqLast

\* A primary that lives and does not wait for the answer of b has nothing under way
\* with it.
LEMMA NoTalk ==
    ASSUME NEW p \in Node, NEW b \in Node, Exchange(p, b), hb_conn[p], ~Calls(p, b)
    PROVE  /\ ~HasReq(wire[p][b]) /\ ~Serves(b, p) /\ reply[p][b] = None
           /\ ReqLast(wire[p][b]) /\ (socket[p][b] # "open" => wire[p][b] = <<>>)
           /\ wire[p][b] # <<>> => up[b]
  BY DEF Exchange

\* Steps that leave all of it alone, or in which a server comes up.
LEMMA ExchangeStays ==
    ASSUME Exchanges, UNCHANGED <<hb_conn, wire, reply, socket, ifa, admin>>,
           \A b \in Node : up[b] => up'[b]
    PROVE  Exchanges'
<1> SUFFICES ASSUME NEW p \in Node, NEW b \in Node PROVE Exchange(p, b)'
  BY DEF Exchanges
<1>1. Exchange(p, b)
  BY DEF Exchanges
<1> QED
  BY <1>1 DEF Exchange, Calls, Serves, HasReq, ReqLast

\* The admin thread of n has nothing under way any more.
LEMMA TalkEnds ==
    ASSUME Exchanges, NEW n \in Node,
           UNCHANGED <<up, hb_conn, wire, ifa>>,
           \A p \in Node \ {n} : /\ admin'[p] = admin[p] /\ socket'[p] = socket[p]
                                 /\ reply'[p] = reply[p],
           \A b \in Node : /\ ~HasReq(wire[n][b]) /\ ~Serves(b, n) /\ reply'[n][b] = None
                           /\ socket'[n][b] # "open" => socket[n][b] # "open"
    PROVE  Exchanges'
<1> SUFFICES ASSUME NEW p \in Node, NEW b \in Node PROVE Exchange(p, b)'
  BY DEF Exchanges
<1>1. Exchange(p, b)
  BY DEF Exchanges
<1>2. CASE p = n
  BY <1>1, <1>2 DEF Exchange, Serves, HasReq, ReqLast
<1>3. CASE p # n
  BY <1>1, <1>3 DEF Exchange, Calls, Serves, HasReq, ReqLast
<1> QED
  BY <1>2, <1>3

\* The steps of an admin thread that waits for no answer, but for the one in which it
\* sends.
LEMMA QuietTalk ==
    ASSUME LockInv, Exchanges, NEW n \in Node,
           AdminTake(n) \/ AdminSkip(n) \/ AdminCommit(n) \/ AdminRecheck(n),
           ~ \E w : Die(n, w)
    PROVE  Exchanges'
<1>1. TypeOK /\ admin[n] \in AdminState
  BY DEF LockInv, RolesInv, BInv, TypeOK
<1>2. hb_conn[n] /\ admin[n].pc \notin {"ack", "reack"}
  BY <1>1, OnlyMasterWorks DEF LockInv, AdminTake, AdminSkip, AdminCommit, AdminRecheck, AdminAwake, MtxFree
<1>3. /\ UNCHANGED <<up, hb_conn, wire, ifa, reply>>
      /\ socket' = socket \/ RecheckReplSock(n)
  BY DEF AdminTake, AdminSkip, AdminCommit, AdminRecheck, netVars, lbVars
<1>4. \A p \in Node \ {n} : admin'[p] = admin[p]
  BY <1>1 DEF AdminTake, AdminSkip, AdminCommit, AdminRecheck, NextPeer, TypeOK
<1>5. /\ \A p \in Node \ {n} : socket'[p] = socket[p]
      /\ \A b \in Node : socket'[n][b] # "open" => socket[n][b] # "open"
  <2>1. CASE socket' = socket
    BY <2>1
  <2>2. CASE RecheckReplSock(n)
    <3>1. /\ socket'[n] = [b \in Node |->
                IF socket[n][b] = "closed" /\ up[b] /\ b \in Range(Peers[n])
                THEN "open" ELSE socket[n][b]]
          /\ \A p \in Node \ {n} : socket'[p] = socket[p]
      BY <1>1, <2>2 DEF RecheckReplSock, TypeOK
    <3> QED
      BY <3>1
  <2> QED
    BY <1>3, <2>1, <2>2
<1>6. \A b \in Node : ~HasReq(wire[n][b]) /\ ~Serves(b, n) /\ reply[n][b] = None
  <2> SUFFICES ASSUME NEW b \in Node
               PROVE  ~HasReq(wire[n][b]) /\ ~Serves(b, n) /\ reply[n][b] = None
    OBVIOUS
  <2>1. ~Calls(n, b)
    BY <1>2 DEF Calls
  <2> QED
    BY <1>2, <2>1, NoTalk DEF Exchanges
<1> QED
  BY <1>3, <1>4, <1>5, <1>6, TalkEnds

\* The connection to the peer broke.
LEMMA GoneTalk ==
    ASSUME LockInv, Exchanges, NEW n \in Node, AdminPeerGone(n)
    PROVE  Exchanges'
<1> DEFINE peer == Head(admin[n].todo)
<1>1. TypeOK /\ admin[n].pc \in {"send", "ack", "reack"}
  BY DEF LockInv, RolesInv, BInv, AdminPeerGone, PeerFailed
<1>2. hb_conn[n]
  BY <1>1, InRound
<1>3. /\ UNCHANGED <<up, hb_conn, wire, ifa, reply>> /\ PeerFailed(n, peer) /\ NextPeer(n)
      /\ \E s \in {"closed", "broken"} : socket' = [socket EXCEPT ![n][peer] = s]
  BY DEF AdminPeerGone, lbVars
<1> HIDE DEF peer
<1>4. \A p \in Node \ {n} : admin'[p] = admin[p] /\ socket'[p] = socket[p]
  BY <1>1, <1>3 DEF NextPeer, TypeOK
<1>5. \A b \in Node : socket'[n][b] # "open" => socket[n][b] # "open"
  BY <1>1, <1>3 DEF PeerFailed, TypeOK
<1>6. \A b \in Node : ~HasReq(wire[n][b]) /\ ~Serves(b, n) /\ reply[n][b] = None
  <2> SUFFICES ASSUME NEW b \in Node
               PROVE  ~HasReq(wire[n][b]) /\ ~Serves(b, n) /\ reply[n][b] = None
    OBVIOUS
  <2>1. Exchange(n, b)
    BY DEF Exchanges
  <2>2. CASE ~Calls(n, b)
    BY <1>2, <2>1, <2>2, NoTalk
  <2>3. CASE Calls(n, b)
    <3>1. socket[n][b] = "broken" /\ reply[n][b] = None
      BY <1>3, <2>3 DEF PeerFailed, Calls, peer
    <3>2. wire[n][b] = <<>> /\ ~Serves(b, n)
      BY <1>2, <2>1, <3>1 DEF Exchange
    <3> QED
      BY <3>1, <3>2 DEF HasReq
  <2> QED
    BY <2>2, <2>3
<1> QED
  BY <1>3, <1>4, <1>5, <1>6, TalkEnds

\* A request is sent.
LEMMA SendTalk ==
    ASSUME LockInv, FirstLives, Exchanges, NEW n \in Node, AdminSend(n)
    PROVE  Exchanges'
<1> DEFINE to == Head(admin[n].todo)
           m == [kind |-> "req", req |-> [committed_index |-> committed_index[n],
                                          last_index |-> last_index[n],
                                          op |-> admin[n].job.op]]
<1>1. /\ TypeOK /\ admin[n].pc = "send" /\ admin[n].todo # <<>>
      /\ UNCHANGED <<up, hb_conn, ifa, reply, socket>>
      /\ socket[n][to] = "open" /\ wire' = [wire EXCEPT ![n][to] = Append(@, m)]
  BY DEF LockInv, RolesInv, BInv, AdminSend, lbVars
<1>2. hb_conn[n] /\ Hand \in Request /\ n = master_node_id /\ to \in Node
  BY <1>1, InRound
<1>3. m \in Message
  BY <1>1, <1>2 DEF TypeOK, Message, ReplReq, Request, Hand
<1>4. admin'[n] = [pc |-> "ack", job |-> admin[n].job, todo |-> admin[n].todo]
      /\ \A p \in Node \ {n} : admin'[p] = admin[p]
  <2>1. admin' = [admin EXCEPT ![n] = [pc |-> "ack", job |-> admin[n].job, todo |-> admin[n].todo]]
    BY <1>1, AdminMoves
  <2> QED
    BY <1>1, <2>1 DEF TypeOK
<1>5. up[to]
  BY <1>1, <1>2 DEF FirstLives
<1>6. wire[n][to] \in Seq(Message) /\ wire'[n][to] = Append(wire[n][to], m)
      /\ \A p, b \in Node : p # n \/ b # to => wire'[p][b] = wire[p][b]
  BY <1>1, <1>2 DEF TypeOK
<1> HIDE DEF to, m
<1> SUFFICES ASSUME NEW p \in Node, NEW b \in Node PROVE Exchange(p, b)'
  BY DEF Exchanges
<1>7. Exchange(p, b)
  BY DEF Exchanges
<1>8. CASE p # n
  BY <1>1, <1>4, <1>6, <1>7, <1>8 DEF Exchange, Calls, Serves, HasReq, ReqLast
<1>9. CASE p = n
  <2>1. ~HasReq(wire[p][b]) /\ ~Serves(b, p) /\ reply[p][b] = None
        /\ ReqLast(wire[p][b]) /\ (socket[p][b] # "open" => wire[p][b] = <<>>)
        /\ (wire[p][b] # <<>> => up[b])
    BY <1>1, <1>2, <1>7, <1>9, NoTalk DEF Calls
  <2>2. CASE b = to
    <3>1. ReqLast(wire'[p][b])
      BY <1>3, <1>6, <1>9, <2>1, <2>2, ReqAppend
    <3>2. Calls(p, b)'
      BY <1>4, <1>9, <2>2 DEF Calls, to
    <3> QED
      BY <1>1, <1>5, <1>9, <2>1, <2>2, <3>1, <3>2 DEF Exchange, Serves, ReqLast
  <2>3. CASE b # to
    BY <1>1, <1>6, <1>9, <2>1, <2>3 DEF Exchange, Serves, HasReq, ReqLast
  <2> QED
    BY <2>2, <2>3
<1> QED
  BY <1>8, <1>9

\* The entries of a recovery log as messages.
LEMMA EntriesSent ==
    ASSUME TypeOK, NEW n \in Node, NEW from \in Node, reply[n][from] # None,
           NEW log, log = RecoveryLog(n, reply[n][from].committed_index),
           NEW ops, ops = [i \in 1 .. Len(log) |-> [kind |-> "op", op |-> log[i]]]
    PROVE  ops \in Seq(Message) /\ ~HasReq(ops)
<1>1. reply[n][from] \in Ack
  BY DEF TypeOK
<1>2. smr_log[n] \in Seq(Entry) /\ reply[n][from].committed_index \in Index
  BY <1>1 DEF TypeOK, Ack
<1>3. log \in Seq(Entry)
  BY <1>2 DEF RecoveryLog, Index
<1>4. Len(log) \in Nat /\ \A i \in 1 .. Len(log) : log[i] \in Entry
  BY <1>3
<1> DEFINE sent == [i \in 1 .. Len(log) |-> [kind |-> "op", op |-> log[i]]]
<1>5. sent \in [1 .. Len(log) -> Message]
  BY <1>4 DEF Message
<1>6. sent \in Seq(Message) /\ Len(sent) = Len(log)
  <2> SUFFICES ASSUME NEW s \in [1 .. Len(log) -> Message] PROVE s \in Seq(Message) /\ Len(s) = Len(log)
    BY <1>5
  <2> QED
    BY <1>4
<1>7. \A i \in 1 .. Len(log) : sent[i].kind = "op"
  OBVIOUS
<1> HIDE DEF sent
<1>8. ~HasReq(sent)
  BY <1>6, <1>7 DEF HasReq
<1> QED
  BY <1>6, <1>8 DEF sent

\* An answer is taken, and a recovery log may be sent.
LEMMA AckTalk ==
    ASSUME LockInv, FirstLives, Exchanges, NEW n \in Node, AdminAck(n)
    PROVE  Exchanges'
<1> DEFINE from == Head(admin[n].todo)
           log == RecoveryLog(n, reply[n][from].committed_index)
           ops == [i \in 1 .. Len(log) |-> [kind |-> "op", op |-> log[i]]]
<1>1. /\ TypeOK /\ admin[n].pc \in {"ack", "reack"} /\ admin[n] \in AdminState
      /\ UNCHANGED <<up, hb_conn, ifa, socket>>
      /\ reply[n][from] # None
      /\ reply' = [reply EXCEPT ![n][from] = None]
  BY DEF LockInv, RolesInv, BInv, AdminAck, lbVars, TypeOK
<1>2. hb_conn[n] /\ admin[n].todo # <<>>
  BY <1>1, InRound, AdminStateCases
<1>3. from \in Node
  BY <1>1, <1>2, InRound
<1>4. /\ reply'[n][from] = None
      /\ \A b \in Node \ {from} : reply'[n][b] = reply[n][b]
      /\ \A p \in Node \ {n} : reply'[p] = reply[p]
  <2> HIDE DEF from
  <2> QED
    BY <1>1, <1>3 DEF TypeOK
<1>5. /\ Calls(n, from) /\ ~HasReq(wire[n][from])
      /\ Serves(from, n) => reply[n][from].is_success = 2
  BY <1>1, <1>2, <1>3 DEF Exchanges, Exchange, Calls
<1>6. \A b \in Node \ {from} : /\ ~HasReq(wire[n][b]) /\ ~Serves(b, n) /\ reply[n][b] = None
                               /\ ReqLast(wire[n][b])
                               /\ (socket[n][b] # "open" => wire[n][b] = <<>>)
                               /\ (wire[n][b] # <<>> => up[b])
  <2> SUFFICES ASSUME NEW b \in Node \ {from}
               PROVE  /\ ~HasReq(wire[n][b]) /\ ~Serves(b, n) /\ reply[n][b] = None
                      /\ ReqLast(wire[n][b])
                      /\ (socket[n][b] # "open" => wire[n][b] = <<>>)
                      /\ (wire[n][b] # <<>> => up[b])
    OBVIOUS
  <2>1. ~Calls(n, b)
    BY DEF Calls
  <2> QED
    BY <1>2, <2>1, NoTalk DEF Exchanges
<1>7. CASE reply[n][from].is_success = 1 /\ NextPeer(n) /\ UNCHANGED wire
  <2>1. \A p \in Node \ {n} : admin'[p] = admin[p]
    BY <1>1, <1>7 DEF NextPeer, TypeOK
  <2>2. \A b \in Node : ~HasReq(wire[n][b]) /\ ~Serves(b, n) /\ reply'[n][b] = None
    BY <1>4, <1>5, <1>6, <1>7
  <2> QED
    BY <1>1, <1>4, <1>7, <2>1, <2>2, TalkEnds
<1>8. CASE /\ reply[n][from].is_success = 2
           /\ admin' = [admin EXCEPT ![n].pc = "reack"]
           /\ wire' = IF socket[n][from] = "open"
                      THEN [wire EXCEPT ![n][from] = @ \o ops]
                      ELSE wire
  <2>1. admin'[n] = [pc |-> "reack", job |-> admin[n].job, todo |-> admin[n].todo]
        /\ \A p \in Node \ {n} : admin'[p] = admin[p]
    <3>1. admin' = [admin EXCEPT ![n] =
                      [pc |-> "reack", job |-> admin[n].job, todo |-> admin[n].todo]]
      BY <1>1, <1>8, AdminMoves
    <3> QED
      BY <1>1, <3>1 DEF TypeOK
  <2>2. admin'[n].pc = "reack" /\ Head(admin'[n].todo) = from
    BY <2>1
  <2>3. ops \in Seq(Message) /\ ~HasReq(ops)
    BY <1>1, <1>3, EntriesSent
  <2> HIDE DEF from, ops
  <2>4. /\ \A p, b \in Node : p # n \/ b # from => wire'[p][b] = wire[p][b]
        /\ \/ wire'[n][from] = wire[n][from]
           \/ socket[n][from] = "open" /\ wire'[n][from] = wire[n][from] \o ops
    BY <1>1, <1>3, <1>8 DEF TypeOK
  <2>5. wire[n][from] \in Seq(Message)
    BY <1>1, <1>3 DEF TypeOK
  <2>6. ~HasReq(wire'[n][from]) /\ ReqLast(wire'[n][from])
    <3>1. CASE wire'[n][from] = wire[n][from]
      BY <1>5, <3>1 DEF HasReq, ReqLast
    <3>2. CASE wire'[n][from] = wire[n][from] \o ops
      <4>1. ~HasReq(wire[n][from] \o ops) /\ ReqLast(wire[n][from] \o ops)
        BY <1>5, <2>3, <2>5, ReqConcat
      <4> QED
        BY <3>2, <4>1
    <3> QED
      BY <2>4, <3>1, <3>2
  <2> SUFFICES ASSUME NEW p \in Node, NEW b \in Node PROVE Exchange(p, b)'
    BY DEF Exchanges
  <2>7. Exchange(p, b)
    BY DEF Exchanges
  <2>8. CASE p # n
    BY <1>1, <1>4, <2>1, <2>4, <2>7, <2>8 DEF Exchange, Calls, Serves, HasReq, ReqLast
  <2>9. CASE p = n /\ b # from
    BY <1>1, <1>4, <1>6, <2>4, <2>9 DEF Exchange, Serves, HasReq, ReqLast
  <2>10. CASE p = n /\ b = from
    <3>1. wire'[p][b] # <<>> => up[b]
      BY <2>4, <2>7, <2>10 DEF FirstLives, Exchange
    <3>2. socket[p][b] # "open" => wire'[p][b] = <<>> /\ ~Serves(b, p)
      BY <1>2, <2>4, <2>7, <2>10 DEF Exchange
    <3>3. ReqLast(wire[p][b])' /\ ~HasReq(wire[p][b])' /\ reply'[p][b] = None /\ Calls(p, b)'
      BY <1>4, <2>2, <2>6, <2>10 DEF HasReq, ReqLast, Calls
    <3>4. Serves(b, p)' <=> Serves(b, p)
      BY <1>1 DEF Serves
    <3> QED
      BY <1>1, <3>1, <3>2, <3>3, <3>4 DEF Exchange
  <2> QED
    BY <2>8, <2>9, <2>10
<1> QED
  BY <1>7, <1>8 DEF AdminAck

\* While b recovers it stays with its request.
LEMMA RecoveryKeeps ==
    ASSUME TypeOK, NEW b \in Node, RecoverRead(b) \/ RecoverFail(b) \/ RecoverWrite(b),
           ~ \E w : Die(b, w)
    PROVE  /\ ifa[b] # None /\ ifa'[b].from = ifa[b].from /\ ifa'[b].req = ifa[b].req
           /\ ifa'[b] # None
<1> DEFINE Same(v) == v \in IfaState /\ v.from = ifa[b].from /\ v.req = ifa[b].req
           Phase == {"read", "write", "apply"}
<1>1. ifa \in [Node -> IfaState \cup {None}] /\ ifa[b] # None
  BY DEF TypeOK, RecoverRead, RecoverFail, RecoverWrite
<1>2. ifa[b] \in IfaState /\ ifa[b].i \in Nat
  BY <1>1, IfaFields
<1>3. ASSUME NEW a \in IfaState, Same(a), NEW f \in Phase, NEW i \in Nat
      PROVE  Same([a EXCEPT !.phase = f]) /\ Same([a EXCEPT !.i = i])
  BY <1>3 DEF IfaState
<1>4. ASSUME NEW f \in Phase, NEW i \in Nat, Handled(b, f, i)
      PROVE  \E v : ifa' = [ifa EXCEPT ![b] = v] /\ Same(v)
  <2>1. CASE ifa[b].i = ifa[b].req.last_index
    <3> DEFINE d == [ifa[b] EXCEPT !.phase = f]
    <3>1. Same(d)
      BY <1>2, <1>3
    <3>2. [ifa[b] EXCEPT !.phase = f, !.i = i] = [d EXCEPT !.i = i]
      BY <1>2 DEF IfaState
    <3>3. ifa' = [ifa EXCEPT ![b] = [ifa[b] EXCEPT !.phase = f, !.i = i]]
      BY <1>4, <2>1 DEF Handled
    <3> HIDE DEF d
    <3>4. d \in IfaState
      BY <3>1
    <3>5. Same([d EXCEPT !.i = i])
      BY <1>3, <3>1, <3>4
    <3>6. ifa' = [ifa EXCEPT ![b] = [d EXCEPT !.i = i]]
      BY <3>2, <3>3
    <3> HIDE DEF Same
    <3> QED
      BY <3>5, <3>6
  <2>2. CASE ifa[b].i # ifa[b].req.last_index
    <3>1. ifa' = [ifa EXCEPT ![b] = [ifa[b] EXCEPT !.i = ifa[b].i + 1]]
      BY <1>4, <2>2 DEF Handled
    <3>2. ifa[b].i + 1 \in Nat /\ Same(ifa[b]) /\ "read" \in Phase
      BY <1>2
    <3>3. Same([ifa[b] EXCEPT !.i = ifa[b].i + 1])
      BY <1>2, <1>3, <3>2
    <3> QED
      BY <3>1, <3>3
  <2> QED
    BY <2>1, <2>2
<1>5. \E v : ifa' = [ifa EXCEPT ![b] = v] /\ Same(v)
  <2>1. CASE RecoverRead(b)
    <3>1. Handled(b, "write", last_index[b] + 1)
      BY <2>1 DEF RecoverRead
    <3>2. last_index[b] + 1 \in Nat
      <4>1. last_index[b] \in Index
        BY DEF TypeOK
      <4> QED
        BY <4>1 DEF Index
    <3> QED
      BY <1>4, <3>1, <3>2
  <2>2. CASE RecoverWrite(b)
    <3>1. Handled(b, "apply", ifa[b].i)
      BY <2>2 DEF RecoverWrite
    <3> QED
      BY <1>2, <1>4, <3>1
  <2>3. CASE RecoverFail(b)
    <3>1. ifa' = [ifa EXCEPT ![b] = [ifa[b] EXCEPT !.phase = "apply"]]
      BY <1>1, <2>3 DEF RecoverFail
    <3>2. Same([ifa[b] EXCEPT !.phase = "apply"])
      BY <1>2, <1>3
    <3> QED
      BY <3>1, <3>2
  <2> QED
    BY <2>1, <2>2, <2>3
<1>6. Same(ifa'[b])
  BY <1>1, <1>5
<1> QED
  BY <1>1, <1>6, NoneIsNothingElse

\* The ifa thread of b does something that b survives.
LEMMA IfaTalk ==
    ASSUME LockInv, Exchanges, NEW b \in Node,
           (\E p \in Node : IfaRead(p, b)) \/ RecoverRead(b) \/ RecoverFail(b)
               \/ RecoverWrite(b) \/ IfaApply(b),
           ~ \E w : Die(b, w)
    PROVE  Exchanges'
<1>1. TypeOK
  BY DEF LockInv, RolesInv, BInv
<1>2. /\ UNCHANGED <<up, hb_conn, socket, admin>>
      /\ \A a \in Node \ {b} : /\ ifa'[a] = ifa[a]
                               /\ \A p \in Node : wire'[p][a] = wire[p][a] /\ reply'[p][a] = reply[p][a]
  BY <1>1, IfaFrame
<1> SUFFICES ASSUME NEW p \in Node, NEW a \in Node PROVE Exchange(p, a)'
  BY DEF Exchanges
<1>3. Exchange(p, a)
  BY DEF Exchanges
<1>4. CASE a # b
  BY <1>2, <1>3, <1>4 DEF Exchange, Calls, Serves, HasReq, ReqLast
<1>5. CASE a = b /\ \E q \in Node : IfaRead(q, b)
  <2>1. PICK q \in Node : IfaRead(q, b)
    BY <1>5
  <2>2. /\ up[b] /\ ifa[b] = None /\ wire[q][b] # <<>> /\ Head(wire[q][b]).kind = "req"
        /\ wire' = [wire EXCEPT ![q][b] = Tail(@)]
    BY <2>1 DEF IfaRead, MtxFree
  <2>3. /\ wire[q][b] \in Seq(Message) /\ wire'[q][b] = Tail(wire[q][b])
        /\ \A k \in Node \ {q} : wire'[k][b] = wire[k][b]
    BY <1>1, <2>2 DEF TypeOK
  <2>4. ifa'[b].from = q
    <3>1. \E r, i, f : ifa' = [ifa EXCEPT ![b] = [from |-> q, req |-> r, i |-> i, phase |-> f]]
      BY <2>1 DEF IfaRead
    <3> QED
      BY <1>1, <3>1 DEF TypeOK
  <2>5. /\ \A k \in Node \ {q} : reply'[k][b] = reply[k][b]
        /\ \/ reply'[q][b] = reply[q][b]
           \/ reply'[q][b].is_success = 2
    <3>1. \/ UNCHANGED reply
          \/ \E i : Reply(q, b, [is_success |-> 2, committed_index |-> i])
      BY <2>1 DEF IfaRead
    <3>2. ASSUME NEW i, Reply(q, b, [is_success |-> 2, committed_index |-> i])
          PROVE  /\ \A k \in Node \ {q} : reply'[k][b] = reply[k][b]
                 /\ reply'[q][b] = reply[q][b] \/ reply'[q][b].is_success = 2
      BY <1>1, <3>2 DEF Reply, TypeOK
    <3> QED
      BY <3>1, <3>2
  <2>6. CASE p = q
    <3>1. HasReq(wire[p][b])
      <4>1. Len(wire[p][b]) \in Nat /\ Len(wire[p][b]) >= 1 /\ Head(wire[p][b]) = wire[p][b][1]
        BY <2>2, <2>3, <2>6, HeadTailProperties, EmptySeq, LenProperties
      <4>2. 1 \in 1 .. Len(wire[p][b]) /\ wire[p][b][1].kind = "req"
        BY <2>2, <2>6, <4>1
      <4> QED
        BY <4>2 DEF HasReq
    <3>2. hb_conn[p] => ReqLast(wire'[p][b]) /\ ~HasReq(wire'[p][b])
      BY <1>3, <1>5, <2>2, <2>3, <2>6, ReqTail DEF Exchange
    <3>3. hb_conn[p] => Calls(p, b) /\ reply[p][b] = None /\ socket[p][b] = "open"
      BY <1>3, <1>5, <2>2, <2>6, <3>1 DEF Exchange
    <3>4. Calls(p, b)' <=> Calls(p, b)
      BY <1>2 DEF Calls
    <3> QED
      BY <1>2, <1>5, <2>2, <2>5, <2>6, <3>2, <3>3, <3>4 DEF Exchange
  <2>7. CASE p # q
    <3>1. wire'[p][b] = wire[p][b] /\ reply'[p][b] = reply[p][b]
      BY <2>3, <2>5, <2>7
    <3>2. ~Serves(b, p) /\ ~Serves(b, p)'
      BY <2>2, <2>4, <2>7 DEF Serves
    <3>3. Calls(p, b)' <=> Calls(p, b)
      BY <1>2 DEF Calls
    <3> QED
      BY <1>2, <1>3, <1>5, <3>1, <3>2, <3>3 DEF Exchange
  <2> QED
    BY <2>6, <2>7
<1>6. CASE a = b /\ (RecoverRead(b) \/ RecoverFail(b) \/ RecoverWrite(b))
  <2>1. UNCHANGED reply
    BY <1>1, <1>6 DEF RecoverRead, RecoverFail, RecoverWrite, netVars
  <2>2. ifa[b] # None /\ ifa'[b].from = ifa[b].from
    BY <1>1, <1>6, RecoveryKeeps
  <2>3. \/ UNCHANGED wire
        \/ /\ wire[ifa[b].from][b] # <<>>
           /\ wire' = [wire EXCEPT ![ifa[b].from][b] = Tail(@)]
    BY <1>6 DEF RecoverRead, RecoverFail, RecoverWrite, netVars
  <2>4. ifa[b].from \in Node
    BY <1>1, <2>2 DEF TypeOK, IfaState
  <2>5. /\ wire[p][b] \in Seq(Message)
        /\ \/ wire'[p][b] = wire[p][b]
           \/ p = ifa[b].from /\ wire[p][b] # <<>> /\ wire'[p][b] = Tail(wire[p][b])
    <3>1. PICK q \in Node : q = ifa[b].from
      BY <2>4
    <3>2. wire \in [Node -> [Node -> Seq(Message)]]
      BY <1>1 DEF TypeOK
    <3>3. CASE UNCHANGED wire
      BY <3>2, <3>3
    <3>4. CASE wire[q][b] # <<>> /\ wire' = [wire EXCEPT ![q][b] = Tail(@)]
      <4>1. CASE p = q
        BY <3>1, <3>2, <3>4, <4>1
      <4>2. CASE p # q
        BY <3>2, <3>4, <4>2
      <4> QED
        BY <4>1, <4>2
    <3> QED
      BY <2>3, <3>1, <3>3, <3>4
  <2>6. Serves(b, p)' => Serves(b, p)
    BY <2>2 DEF Serves
  <2>7. Calls(p, b)' <=> Calls(p, b)
    BY <1>2 DEF Calls
  <2>8. hb_conn[p] => ReqLast(wire'[p][b]) /\ (HasReq(wire'[p][b]) => HasReq(wire[p][b]))
    BY <1>3, <1>6, <2>5, ReqTail DEF Exchange
  <2>9. wire'[p][b] # <<>> => wire[p][b] # <<>>
    BY <2>5
  <2> QED
    BY <1>2, <1>3, <1>6, <2>1, <2>6, <2>7, <2>8, <2>9 DEF Exchange
<1>7. CASE a = b /\ IfaApply(b)
  <2>1. /\ ifa[b] # None /\ UNCHANGED wire /\ ifa' = [ifa EXCEPT ![b] = None]
        /\ Reply(ifa[b].from, b, [is_success |-> 1, committed_index |-> -1])
    BY <1>7 DEF IfaApply
  <2>2. ~Serves(b, p)'
    BY <1>1, <2>1 DEF Serves, TypeOK
  <2>3. Calls(p, b)' <=> Calls(p, b)
    BY <1>2 DEF Calls
  <2>4. reply'[p][b] = reply[p][b] \/ Serves(b, p)
    <3>1. ifa[b].from \in Node
      BY <1>1, <2>1 DEF TypeOK, IfaState
    <3> QED
      BY <1>1, <2>1, <3>1 DEF Reply, Serves, TypeOK
  <2>5. CASE reply'[p][b] = reply[p][b]
    BY <1>2, <1>3, <1>7, <2>1, <2>2, <2>3, <2>5 DEF Exchange
  <2>6. CASE Serves(b, p)
    BY <1>2, <1>3, <1>7, <2>1, <2>2, <2>3, <2>6 DEF Exchange
  <2> QED
    BY <2>4, <2>5, <2>6
<1> QED
  BY <1>4, <1>5, <1>6, <1>7

\* What a death leaves of what was sent.
LEMMA DieCuts ==
    ASSUME TypeOK, NEW n \in Node, NEW w, Die(n, w), NEW p \in Node, NEW b \in Node
    PROVE  /\ b = n => wire'[p][b] = <<>>
           /\ p # n /\ b # n => wire'[p][b] = wire[p][b]
           /\ b # n => \E k \in 0 .. Len(wire[p][b]) : wire'[p][b] = SubSeq(wire[p][b], 1, k)
<1> DEFINE Cut(to, k) == [q \in Node |-> [a \in Node |->
                IF a = n THEN <<>>
                ELSE IF q = n /\ a = to THEN SubSeq(wire[n][to], 1, k)
                ELSE wire[q][a]]]
<1>0. PICK to \in Node : \E k \in 0 .. Len(wire[n][to]) : wire' = Cut(to, k)
  BY DEF Die
<1>1. PICK k \in 0 .. Len(wire[n][to]) : wire' = Cut(to, k)
  BY <1>0
<1>2. wire'[p][b] = IF b = n THEN <<>>
                    ELSE IF p = n /\ b = to THEN SubSeq(wire[n][to], 1, k)
                    ELSE wire[p][b]
  BY <1>1
<1>3. wire[p][b] \in Seq(Message)
  BY DEF TypeOK
<1>4. wire[p][b] = SubSeq(wire[p][b], 1, Len(wire[p][b])) /\ Len(wire[p][b]) \in 0 .. Len(wire[p][b])
  BY <1>3
<1> QED
  BY <1>1, <1>2, <1>4

LEMMA DieTalk ==
    ASSUME LockInv, Exchanges, NEW n \in Node, NEW w, Die(n, w)
    PROVE  Exchanges'
<1>1. TypeOK
  BY DEF LockInv, RolesInv, BInv
<1>2. /\ ~hb_conn'[n] /\ ifa'[n] = None
      /\ \A b \in Node \ {n} : /\ up'[b] = up[b] /\ hb_conn'[b] = hb_conn[b] /\ ifa'[b] = ifa[b]
                               /\ admin'[b] = admin[b]
      /\ \A p, b \in Node \ {n} : socket'[p][b] = socket[p][b] /\ reply'[p][b] = reply[p][b]
      /\ \A p \in Node \ {n} : reply'[p][n] \in {None, reply[p][n]}
  BY <1>1 DEF Die, TypeOK
<1> SUFFICES ASSUME NEW p \in Node, NEW b \in Node PROVE Exchange(p, b)'
  BY DEF Exchanges
<1>3. Exchange(p, b)
  BY DEF Exchanges
<1>4. CASE b = n
  <2>1. wire'[p][b] = <<>> /\ ~Serves(b, p)'
    BY <1>1, <1>2, <1>4, DieCuts DEF Serves
  <2>2. ReqLast(wire'[p][b]) /\ ~HasReq(wire'[p][b])
    BY <2>1 DEF HasReq, ReqLast
  <2>3. p # n => /\ hb_conn'[p] = hb_conn[p] /\ (Calls(p, b)' <=> Calls(p, b))
                 /\ reply'[p][b] \in {None, reply[p][b]}
    BY <1>2, <1>4 DEF Calls
  <2> QED
    BY <1>2, <1>3, <2>1, <2>2, <2>3 DEF Exchange
<1>5. CASE p = n /\ b # n
  <2>1. wire'[p][b] # <<>> => wire[p][b] # <<>>
    <3>1. PICK k \in 0 .. Len(wire[p][b]) : wire'[p][b] = SubSeq(wire[p][b], 1, k)
      BY <1>1, <1>5, DieCuts
    <3>2. wire[p][b] = <<>> => k = 0
      BY <3>1
    <3> QED
      BY <3>1, <3>2
  <2> QED
    BY <1>2, <1>3, <1>5, <2>1 DEF Exchange
<1>6. CASE p # n /\ b # n
  <2>1. wire'[p][b] = wire[p][b]
    BY <1>1, <1>6, DieCuts
  <2>2. (Calls(p, b)' <=> Calls(p, b)) /\ (Serves(b, p)' <=> Serves(b, p))
    BY <1>2, <1>6 DEF Calls, Serves
  <2> QED
    BY <1>2, <1>3, <1>6, <2>1, <2>2 DEF Exchange
<1> QED
  BY <1>4, <1>5, <1>6

LEMMA InitExchanges == Init => Exchanges
BY DEF Init, Exchanges, Exchange, Serves, HasReq, ReqLast

LEMMA NextExchanges ==
    ASSUME LockInv, FirstLives, Exchanges, [Next]_vars
    PROVE  Exchanges'
<1>1. ASSUME NEW c \in Customer,
             Connect(c) \/ PlaceOrder(c) \/ Ship(c) \/ Hangup(c) \/ Finish(c)
      PROVE  Exchanges'
  BY <1>1, ExchangeStays
     DEF Connect, PlaceOrder, Ship, Hangup, Finish, Enqueue, threadVars, netVars, lbVars
<1>2. ASSUME NEW n \in Node, CloseReader(n) \/ HeartBeat(n) PROVE Exchanges'
  BY <1>2, ExchangeStays DEF CloseReader, HeartBeat, threadVars, netVars, lbVars
<1>3. ASSUME NEW n \in Node, Restart(n) PROVE Exchanges'
  <2>1. UNCHANGED <<hb_conn, wire, reply, socket, ifa, admin>>
        /\ (up' = up \/ up' = [up EXCEPT ![n] = TRUE])
    BY <1>3 DEF Restart, threadVars, netVars, lbVars
  <2>2. up \in [Node -> BOOLEAN]
    BY DEF LockInv, RolesInv, BInv, TypeOK
  <2> QED
    BY <2>1, <2>2, ExchangeStays
<1>4. ASSUME NEW n \in Node, Crash(n) PROVE Exchanges'
  BY <1>4, DieTalk DEF Crash
<1>5. ASSUME NEW n \in Node, AdminThread(n) PROVE Exchanges'
  BY <1>5, QuietTalk, SendTalk, AckTalk, GoneTalk, DieTalk DEF AdminThread
<1>6. ASSUME NEW n \in Node, IfaThread(n) PROVE Exchanges'
  <2>1. CASE \E w : Die(n, w)
    BY <2>1, DieTalk
  <2>2. CASE ~ \E w : Die(n, w)
    BY <1>6, <2>2, IfaTalk DEF IfaThread, IfaStray
  <2> QED
    BY <2>1, <2>2
<1>7. CASE UNCHANGED vars
  BY <1>7, ExchangeStays DEF vars, threadVars, netVars, lbVars
<1> QED
  BY <1>1, <1>2, <1>3, <1>4, <1>5, <1>6, <1>7 DEF Next

-----------------------------------------------------------------------------
(***************************************************************************)
(* The requests that are under way.                                        *)
(***************************************************************************)

Carries(w, r) == \E i \in 1 .. Len(w) : w[i].kind = "req" /\ w[i].req = r

\* r was sent and is not handled yet.
UnderWay(r) ==
    \/ \E p, b \in Node : Carries(wire[p][b], r)
    \/ \E b \in Node : ifa[b] # None /\ ifa[b].req = r

\* What the primary n sends.
RequestOfPrimary(n) ==
    [committed_index |-> committed_index[n], last_index |-> last_index[n],
     op |-> admin[n].job.op]

LEMMA CarriesTail ==
    ASSUME NEW w \in Seq(Message), w # <<>>, NEW r
    PROVE  /\ Carries(Tail(w), r) => Carries(w, r)
           /\ Head(w).kind = "req" => Carries(w, Head(w).req)
<1> DEFINE v == Tail(w)
<1>1. /\ Len(w) \in Nat /\ Len(v) = Len(w) - 1
      /\ \A i \in 1 .. Len(w) - 1 : v[i] = w[i + 1]
  BY HeadTailProperties, EmptySeq, LenProperties
<1>2. Len(w) >= 1 /\ Head(w) = w[1]
  BY HeadTailProperties, EmptySeq, LenProperties
<1> HIDE DEF v
<1>3. Carries(v, r) => Carries(w, r)
  <2> SUFFICES ASSUME NEW i \in 1 .. Len(v), v[i].kind = "req", v[i].req = r
               PROVE  Carries(w, r)
    BY DEF Carries
  <2>1. i \in 1 .. Len(w) - 1 /\ i + 1 \in 1 .. Len(w)
    BY <1>1
  <2>2. w[i + 1].kind = "req" /\ w[i + 1].req = r
    BY <1>1, <2>1
  <2> QED
    BY <2>1, <2>2 DEF Carries
<1>4. Head(w).kind = "req" => Carries(w, Head(w).req)
  <2>1. 1 \in 1 .. Len(w)
    BY <1>1, <1>2
  <2> QED
    BY <1>2, <2>1 DEF Carries
<1> QED
  BY <1>3, <1>4 DEF v

LEMMA CarriesFront ==
    ASSUME NEW w \in Seq(Message), NEW k \in 0 .. Len(w), NEW r, Carries(SubSeq(w, 1, k), r)
    PROVE  Carries(w, r)
<1>1. Len(w) \in Nat /\ Len(SubSeq(w, 1, k)) = k /\ \A i \in 1 .. k : SubSeq(w, 1, k)[i] = w[i]
  BY LenProperties, SubSeqProperties
<1>2. \A i \in 1 .. k : i \in 1 .. Len(w)
  BY <1>1
<1> QED
  BY <1>1, <1>2 DEF Carries

LEMMA CarriesAppend ==
    ASSUME NEW w \in Seq(Message), NEW m \in Message, NEW r, Carries(Append(w, m), r)
    PROVE  Carries(w, r) \/ (m.kind = "req" /\ m.req = r)
<1>1. Len(w) \in Nat /\ Len(Append(w, m)) = Len(w) + 1
      /\ (\A i \in 1 .. Len(w) : Append(w, m)[i] = w[i]) /\ Append(w, m)[Len(w) + 1] = m
  BY LenProperties, AppendProperties
<1>2. PICK i \in 1 .. Len(w) + 1 : Append(w, m)[i].kind = "req" /\ Append(w, m)[i].req = r
  BY <1>1 DEF Carries
<1>3. CASE i = Len(w) + 1
  BY <1>1, <1>2, <1>3
<1>4. CASE i # Len(w) + 1
  <2>1. i \in 1 .. Len(w)
    BY <1>1, <1>4
  <2> QED
    BY <1>1, <1>2, <2>1 DEF Carries
<1> QED
  BY <1>3, <1>4

LEMMA CarriesConcat ==
    ASSUME NEW w \in Seq(Message), NEW v \in Seq(Message), ~HasReq(v), NEW r, Carries(w \o v, r)
    PROVE  Carries(w, r)
<1>1. Len(w) \in Nat /\ Len(v) \in Nat /\ Len(w \o v) = Len(w) + Len(v)
      /\ \A i \in 1 .. Len(w) + Len(v) :
            (w \o v)[i] = IF i <= Len(w) THEN w[i] ELSE v[i - Len(w)]
  BY LenProperties, ConcatProperties
<1>2. PICK i \in 1 .. Len(w) + Len(v) : (w \o v)[i].kind = "req" /\ (w \o v)[i].req = r
  BY <1>1 DEF Carries
<1>3. CASE i <= Len(w)
  <2>1. i \in 1 .. Len(w)
    BY <1>1, <1>3
  <2> QED
    BY <1>1, <1>2, <1>3, <2>1 DEF Carries
<1>4. CASE i > Len(w)
  <2>1. i - Len(w) \in 1 .. Len(v) /\ v[i - Len(w)].kind = "req"
    BY <1>1, <1>2, <1>4
  <2> QED
    BY <2>1 DEF HasReq
<1> QED
  BY <1>1, <1>2, <1>3, <1>4

\* Requests come from the master, and otherwise only go.
LEMMA RequestSteps ==
    ASSUME LockInv, [Next]_vars, NEW r, UnderWay(r)'
    PROVE  UnderWay(r) \/ \E n \in Node : AdminSend(n) /\ r = RequestOfPrimary(n)
<1>1. TypeOK
  BY DEF LockInv, RolesInv, BInv
<1>2. ASSUME UNCHANGED <<wire, ifa>> PROVE UnderWay(r)
  BY <1>2 DEF UnderWay
<1>3. ASSUME NEW n \in Node, NEW w, Die(n, w) PROVE UnderWay(r)
  <2>1. /\ ifa'[n] = None
        /\ \A b \in Node \ {n} : ifa'[b] = ifa[b]
    BY <1>1, <1>3 DEF Die, TypeOK
  <2>2. CASE \E b \in Node : ifa'[b] # None /\ ifa'[b].req = r
    BY <2>1, <2>2 DEF UnderWay
  <2>3. ASSUME NEW p \in Node, NEW b \in Node, Carries(wire'[p][b], r) PROVE Carries(wire[p][b], r)
    <3>1. wire[p][b] \in Seq(Message)
      BY <1>1 DEF TypeOK
    <3>2. b # n
      <4>1. CASE b = n
        <5>1. wire'[p][b] = <<>>
          BY <1>1, <1>3, <4>1, DieCuts
        <5> QED
          BY <2>3, <5>1 DEF Carries
      <4> QED
        BY <4>1
    <3>3. PICK k \in 0 .. Len(wire[p][b]) : wire'[p][b] = SubSeq(wire[p][b], 1, k)
      BY <1>1, <1>3, <3>2, DieCuts
    <3> QED
      BY <2>3, <3>1, <3>3, CarriesFront
  <2> QED
    BY <2>2, <2>3 DEF UnderWay
<1>4. ASSUME NEW n \in Node, AdminSend(n)
      PROVE  UnderWay(r) \/ r = RequestOfPrimary(n)
  <2> DEFINE to == Head(admin[n].todo)
             m == [kind |-> "req", req |-> RequestOfPrimary(n)]
  <2>1. /\ UNCHANGED ifa /\ wire' = [wire EXCEPT ![n][to] = Append(@, m)]
        /\ admin[n].pc = "send" /\ admin[n].todo # <<>>
    BY <1>4 DEF AdminSend, RequestOfPrimary
  <2>2. to \in Node /\ Hand \in Request /\ n = master_node_id
    BY <2>1, InRound
  <2>3. m \in Message /\ m.kind = "req" /\ m.req = RequestOfPrimary(n)
    BY <1>1, <2>2 DEF TypeOK, Message, ReplReq, Request, Hand, RequestOfPrimary
  <2> HIDE DEF to, m
  <2>4. wire[n][to] \in Seq(Message) /\ wire'[n][to] = Append(wire[n][to], m)
        /\ \A p, b \in Node : p # n \/ b # to => wire'[p][b] = wire[p][b]
    BY <1>1, <2>1, <2>2 DEF TypeOK
  <2>5. CASE \E b \in Node : ifa'[b] # None /\ ifa'[b].req = r
    BY <2>1, <2>5 DEF UnderWay
  <2>6. ASSUME NEW p \in Node, NEW b \in Node, Carries(wire'[p][b], r)
        PROVE  Carries(wire[p][b], r) \/ r = RequestOfPrimary(n)
    <3>1. CASE p = n /\ b = to
      <4>1. Carries(Append(wire[n][to], m), r)
        BY <2>4, <2>6, <3>1
      <4> QED
        BY <2>3, <2>4, <3>1, <4>1, CarriesAppend
    <3>2. CASE p # n \/ b # to
      BY <2>4, <2>6, <3>2
    <3> QED
      BY <3>1, <3>2
  <2> QED
    BY <2>5, <2>6 DEF UnderWay
<1>5. ASSUME NEW n \in Node, AdminAck(n) PROVE UnderWay(r)
  <2> DEFINE from == Head(admin[n].todo)
             log == RecoveryLog(n, reply[n][from].committed_index)
             ops == [i \in 1 .. Len(log) |-> [kind |-> "op", op |-> log[i]]]
  <2>1. /\ UNCHANGED ifa /\ admin[n].pc \in {"ack", "reack"} /\ reply[n][from] # None
        /\ \/ UNCHANGED wire
           \/ wire' = [wire EXCEPT ![n][from] = @ \o ops]
    BY <1>5 DEF AdminAck
  <2>2. CASE UNCHANGED wire
    BY <1>2, <2>1, <2>2
  <2>3. CASE wire' = [wire EXCEPT ![n][from] = @ \o ops]
    <3>1. admin[n].todo # <<>>
      BY <1>1, <2>1, AdminStateCases DEF TypeOK
    <3>2. from \in Node
      BY <2>1, <3>1, InRound
    <3>3. ops \in Seq(Message) /\ ~HasReq(ops)
      BY <1>1, <2>1, <3>2, EntriesSent
    <3> HIDE DEF from, ops
    <3>4. wire[n][from] \in Seq(Message) /\ wire'[n][from] = wire[n][from] \o ops
          /\ \A p, b \in Node : p # n \/ b # from => wire'[p][b] = wire[p][b]
      BY <1>1, <2>3, <3>2 DEF TypeOK
    <3>5. CASE \E b \in Node : ifa'[b] # None /\ ifa'[b].req = r
      BY <2>1, <3>5 DEF UnderWay
    <3>6. ASSUME NEW p \in Node, NEW b \in Node, Carries(wire'[p][b], r)
          PROVE  Carries(wire[p][b], r)
      <4>1. CASE p = n /\ b = from
        <5>1. Carries(wire[n][from] \o ops, r)
          BY <3>4, <3>6, <4>1
        <5> QED
          BY <3>3, <3>4, <4>1, <5>1, CarriesConcat
      <4>2. CASE p # n \/ b # from
        BY <3>4, <3>6, <4>2
      <4> QED
        BY <4>1, <4>2
    <3> QED
      BY <3>5, <3>6 DEF UnderWay
  <2> QED
    BY <2>1, <2>2, <2>3
<1>6. ASSUME NEW b \in Node, NEW p \in Node, IfaRead(p, b) PROVE UnderWay(r)
  <2>1. /\ wire[p][b] # <<>> /\ Head(wire[p][b]).kind = "req"
        /\ wire' = [wire EXCEPT ![p][b] = Tail(@)]
        /\ \E f, i : ifa' = [ifa EXCEPT ![b] = [from |-> p, req |-> Head(wire[p][b]).req,
                                               i |-> i, phase |-> f]]
    BY <1>6 DEF IfaRead
  <2>2. wire[p][b] \in Seq(Message) /\ wire'[p][b] = Tail(wire[p][b])
        /\ \A q, a \in Node : q # p \/ a # b => wire'[q][a] = wire[q][a]
    BY <1>1, <2>1 DEF TypeOK
  <2>3. ifa'[b].req = Head(wire[p][b]).req /\ \A a \in Node \ {b} : ifa'[a] = ifa[a]
    BY <1>1, <2>1 DEF TypeOK
  <2>4. ASSUME NEW q \in Node, NEW a \in Node, Carries(wire'[q][a], r) PROVE Carries(wire[q][a], r)
    BY <2>1, <2>2, <2>4, CarriesTail
  <2>5. ASSUME NEW a \in Node, ifa'[a] # None, ifa'[a].req = r PROVE UnderWay(r)
    <3>1. CASE a = b
      <4>1. Carries(wire[p][b], r)
        BY <2>1, <2>2, <2>3, <2>5, <3>1, CarriesTail
      <4> QED
        BY <4>1 DEF UnderWay
    <3>2. CASE a # b
      BY <2>3, <2>5, <3>2 DEF UnderWay
    <3> QED
      BY <3>1, <3>2
  <2> QED
    BY <2>4, <2>5 DEF UnderWay
<1>7. ASSUME NEW b \in Node, RecoverRead(b) \/ RecoverFail(b) \/ RecoverWrite(b), ~ \E w : Die(b, w)
      PROVE  UnderWay(r)
  <2>1. ifa[b] # None /\ ifa'[b].req = ifa[b].req /\ \A a \in Node \ {b} : ifa'[a] = ifa[a]
    BY <1>1, <1>7, RecoveryKeeps, IfaFrame
  <2>2. PICK q \in Node : q = ifa[b].from
    BY <1>1, <2>1 DEF TypeOK, IfaState
  <2>3. \/ UNCHANGED wire
        \/ wire[q][b] # <<>> /\ wire' = [wire EXCEPT ![q][b] = Tail(@)]
    BY <1>7, <2>2 DEF RecoverRead, RecoverFail, RecoverWrite, netVars
  <2>4. ASSUME NEW p \in Node, NEW a \in Node, Carries(wire'[p][a], r) PROVE Carries(wire[p][a], r)
    <3>1. CASE UNCHANGED wire
      BY <2>4, <3>1
    <3>2. CASE wire[q][b] # <<>> /\ wire' = [wire EXCEPT ![q][b] = Tail(@)]
      <4>1. wire[q][b] \in Seq(Message) /\ wire'[q][b] = Tail(wire[q][b])
            /\ (p # q \/ a # b => wire'[p][a] = wire[p][a])
        BY <1>1, <3>2 DEF TypeOK
      <4> QED
        BY <2>4, <3>2, <4>1, CarriesTail
    <3> QED
      BY <2>3, <3>1, <3>2
  <2> QED
    BY <2>1, <2>4 DEF UnderWay
<1>8. ASSUME NEW b \in Node, IfaApply(b), ~ \E w : Die(b, w) PROVE UnderWay(r)
  <2>1. UNCHANGED wire /\ ifa' = [ifa EXCEPT ![b] = None]
    BY <1>8 DEF IfaApply
  <2>2. \A a \in Node : ifa'[a] # None => ifa'[a] = ifa[a]
    BY <1>1, <2>1 DEF TypeOK
  <2> QED
    BY <2>1, <2>2 DEF UnderWay
<1>9. ASSUME NEW b \in Node, IfaThread(b) PROVE UnderWay(r)
  <2>1. CASE \E w : Die(b, w)
    BY <1>3, <2>1
  <2>2. CASE ~ \E w : Die(b, w)
    BY <1>6, <1>7, <1>8, <1>9, <2>2 DEF IfaThread, IfaStray
  <2> QED
    BY <2>1, <2>2
<1>10. ASSUME NEW n \in Node, AdminThread(n), ~AdminSend(n) PROVE UnderWay(r)
  BY <1>2, <1>3, <1>5, <1>10 DEF AdminThread, AdminRecheck, AdminTake, AdminSkip, AdminPeerGone,
     AdminCommit, netVars
<1>11. ASSUME NEW c \in Customer,
              Connect(c) \/ PlaceOrder(c) \/ Ship(c) \/ Hangup(c) \/ Finish(c)
       PROVE  UnderWay(r)
  BY <1>2, <1>11 DEF Connect, PlaceOrder, Ship, Hangup, Finish, threadVars, netVars
<1>12. ASSUME NEW n \in Node, CloseReader(n) \/ Crash(n) \/ Restart(n) \/ HeartBeat(n)
       PROVE  UnderWay(r)
  BY <1>2, <1>3, <1>12 DEF CloseReader, Crash, Restart, HeartBeat, threadVars, netVars
<1>13. CASE UNCHANGED vars
  BY <1>2, <1>13 DEF vars, threadVars, netVars
<1> QED
  BY <1>4, <1>9, <1>10, <1>11, <1>12, <1>13 DEF Next

-----------------------------------------------------------------------------
(***************************************************************************)
(* How far a server that was started again is behind its own log.          *)
(***************************************************************************)

\* Not all servers that have never died have the first order, or it is in the
\* master's hands, or a request that brings it is under way.
FirstIsOpen ==
    \/ \E n \in Node : hb_conn[n] /\ last_index[n] = -1
    \/ /\ hb_conn[master_node_id] /\ Hand # None
       /\ committed_index[master_node_id] = -1
    \/ \E r \in ReplReq : UnderWay(r) /\ r.committed_index = -1

\* As long as it is, nobody has committed anything, nor is told that something is.
FirstOrder ==
    FirstIsOpen =>
        /\ \A n \in Node : committed_index[n] = -1
        /\ \A r \in ReplReq : UnderWay(r) => r.committed_index = -1

\* The last index of a request is at most one ahead of its committed index.
LagOfRequests == \A r \in ReplReq : UnderWay(r) => r.last_index - r.committed_index \in {0, 1}

\* So are those of a server that has died, while its ifa thread is idle.
LagOfOthers ==
    \A n \in Node : ~hb_conn[n] /\ ifa[n] = None => last_index[n] - committed_index[n] \in {0, 1}

\* The inductive invariant, with SurvivorInv, for servers that were started again.
LagInv == Exchanges /\ FirstOrder /\ LagOfRequests /\ LagOfOthers

\* The request that an ifa thread handles is under way.
LEMMA HandledIsUnderWay ==
    ASSUME TypeOK, NEW b \in Node, ifa[b] # None
    PROVE  ifa[b].req \in ReplReq /\ UnderWay(ifa[b].req)
BY DEF TypeOK, IfaState, UnderWay

\* A living primary that waits for no answer has no request under way.
LEMMA NothingUnderWay ==
    ASSUME LockInv, Exchanges, hb_conn[master_node_id],
           admin[master_node_id].pc \notin {"ack", "reack"}, NEW r
    PROVE  ~UnderWay(r)
<1>1. TypeOK /\ master_node_id \in Node
  BY DEF LockInv, RolesInv, BInv, TypeOK
<1>2. \A b \in Node : ~HasReq(wire[master_node_id][b]) /\ ~Serves(b, master_node_id)
  BY <1>1 DEF Exchanges, Exchange, Calls
<1>3. ASSUME NEW p \in Node, NEW b \in Node, Carries(wire[p][b], r) PROVE FALSE
  <2>1. wire[p][b] # <<>> /\ HasReq(wire[p][b])
    BY <1>3 DEF Carries, HasReq
  <2> QED
    BY <1>2, <2>1 DEF LockInv, RolesInv, OnePrimary
<1>4. ASSUME NEW b \in Node, ifa[b] # None PROVE FALSE
  <2>1. ifa[b].from \in Node
    BY <1>1, <1>4 DEF TypeOK, IfaState
  <2> QED
    BY <1>2, <1>4, <2>1 DEF LockInv, RolesInv, OnePrimary, Serves
<1> QED
  BY <1>3, <1>4 DEF UnderWay

\* What the primary sends: its last order is not committed, unless it announces.
LEMMA SentRequest ==
    ASSUME LockInv, NEW n \in Node, AdminSend(n)
    PROVE  /\ n = master_node_id /\ hb_conn[n] /\ Hand # None
           /\ RequestOfPrimary(n).committed_index = committed_index[n]
           /\ RequestOfPrimary(n).last_index - RequestOfPrimary(n).committed_index \in {0, 1}
<1>1. admin[n].pc = "send" /\ TypeOK
  BY DEF AdminSend, LockInv, RolesInv, BInv
<1>2. n = master_node_id /\ hb_conn[n] /\ Hand \in Request
  BY <1>1, InRound
<1>3. Hand # None
  BY <1>2, NoneIsNoRequest
<1>4. committed_index[n] = last_index[n] - Ahead(Hand.op)
  BY <1>2, <1>3 DEF LockInv, Lockstep, InHand
<1>5. last_index[n] \in Int
  BY <1>1 DEF TypeOK, Index
<1> QED
  BY <1>2, <1>3, <1>4, <1>5 DEF RequestOfPrimary, Ahead

LEMMA FirstStaysOpen ==
    ASSUME LockInv, [Next]_vars, FirstIsOpen'
    PROVE  FirstIsOpen
<1>1. TypeOK /\ TypeOK'
  <2>1. TypeOK
    BY DEF LockInv, RolesInv, BInv
  <2>2. TypeOK'
    BY <2>1, NextType
  <2> QED
    BY <2>1, <2>2
<1>2. ASSUME NEW n \in Node, hb_conn'[n], last_index'[n] = -1 PROVE FirstIsOpen
  <2>1. hb_conn[n] /\ LogStep(n) /\ last_index[n] \in Index
    BY <1>1, <1>2, LogSteps DEF TypeOK
  <2>2. last_index'[n] \in {last_index[n], last_index[n] + 1}
    BY <2>1 DEF LogStep, Keeps, Logs, Advances
  <2>3. last_index[n] = -1
    BY <1>2, <2>1, <2>2 DEF Index
  <2> QED
    BY <2>1, <2>3 DEF FirstIsOpen
<1>3. ASSUME NEW r \in ReplReq, UnderWay(r)', r.committed_index = -1 PROVE FirstIsOpen
  <2>1. CASE UnderWay(r)
    BY <1>3, <2>1 DEF FirstIsOpen
  <2>2. CASE \E n \in Node : AdminSend(n) /\ r = RequestOfPrimary(n)
    BY <1>3, <2>2, SentRequest DEF FirstIsOpen
  <2> QED
    BY <1>3, <2>1, <2>2, RequestSteps
<1>4. ASSUME hb_conn'[master_node_id'], Hand' # None, committed_index'[master_node_id'] = -1
      PROVE  FirstIsOpen
  <2> DEFINE m == master_node_id
  <2>1. master_node_id' = m
    <3>1. CASE UNCHANGED master_node_id
      BY <3>1
    <3>2. CASE \E c \in Customer : Connect(c)
      <4>1. admin' = admin /\ master_node_id' \in Node
        BY <1>1, <3>2 DEF Connect, threadVars, TypeOK
      <4>2. admin[master_node_id'].job # None /\ admin[master_node_id'] \in AdminState
        BY <1>1, <1>4, <4>1 DEF Hand, TypeOK
      <4>3. admin[master_node_id'].pc # "wait"
        BY <4>2, AdminStateCases
      <4> QED
        BY <4>1, <4>3, OnlyMasterWorks DEF LockInv
    <3> QED
      BY <3>1, <3>2, ServerSteps
  <2>2. m \in Node /\ hb_conn[m] /\ LogStep(m) /\ last_index[m] \in Index /\ committed_index[m] \in Index
    BY <1>1, <1>4, <2>1, LogSteps DEF TypeOK
  <2>3. CASE AdminTake(m)
    <3>1. committed_index[m] = last_index[m] /\ committed_index'[m] = committed_index[m]
      BY <2>2, <2>3, TakeEffect
    <3> QED
      BY <1>4, <2>1, <2>2, <3>1 DEF FirstIsOpen
  <2>4. CASE AdminCommit(m)
    BY <1>4, <2>1, <2>2, <2>4, CommitEffect DEF Hand
  <2>5. CASE Hand' = Hand
    <3>1. committed_index'[m] = committed_index[m]
          \/ (committed_index'[m] = last_index[m] /\ committed_index[m] \in {last_index[m] - 1, last_index[m]})
      BY <2>2 DEF LogStep, Keeps, Logs, Advances
    <3>2. committed_index[m] = -1
      BY <1>4, <2>1, <2>2, <3>1 DEF Index
    <3> QED
      BY <1>4, <2>2, <2>5, <3>2 DEF FirstIsOpen
  <2> QED
    BY <1>4, <2>1, <2>3, <2>4, <2>5, HandSteps
<1> QED
  BY <1>2, <1>3, <1>4 DEF FirstIsOpen

\* Somebody else runs as long as the first order is open: so a server that is
\* started then is told of it.
LEMMA SomebodyRuns ==
    ASSUME SurvivorInv, Exchanges, FirstIsOpen, NEW n \in Node, ~up[n]
    PROVE  \E b \in Node \ {n} : up[b]
<1>1. \A b \in Node : hb_conn[b] => up[b] /\ b # n
  BY DEF SurvivorInv, LockInv, RolesInv, Lives
<1>2. TypeOK /\ master_node_id \in Node
  BY DEF SurvivorInv, LockInv, RolesInv, BInv, TypeOK
<1>3. ASSUME NEW r, UnderWay(r) PROVE \E b \in Node \ {n} : up[b]
  <2>1. CASE \E p, b \in Node : Carries(wire[p][b], r)
    <3>1. PICK p \in Node, b \in Node : Carries(wire[p][b], r)
      BY <2>1
    <3>2. wire[p][b] # <<>>
      BY <3>1 DEF Carries
    <3>3. up[b]
      BY <3>2 DEF Exchanges, Exchange
    <3> QED
      BY <3>3
  <2>2. CASE \E b \in Node : ifa[b] # None /\ ifa[b].req = r
    BY <2>2 DEF SurvivorInv, Blank
  <2> QED
    BY <1>3, <2>1, <2>2 DEF UnderWay
<1> QED
  BY <1>1, <1>2, <1>3 DEF FirstIsOpen

\* AllAlike, of the state after a step.
LEMMA AllAlikeNext ==
    (LockInv /\ Uncommitted => \A a, b \in Node : hb_conn[a] /\ hb_conn[b] =>
        /\ last_index[a] <= last_index[b] + 1
        /\ committed_index[a] <= last_index[b]
        /\ \A i \in 0 .. last_index[a] : i <= last_index[b] => At(smr_log[a], i) = At(smr_log[b], i))'
BY AllAlike, PTL

\* While the first order is open nobody commits.
LEMMA NobodyCommits ==
    ASSUME SurvivorInv, SurvivorInv', Exchanges, FirstOrder, [Next]_vars, FirstIsOpen',
           NEW n \in Node
    PROVE  committed_index'[n] = -1
<1>1. TypeOK /\ TypeOK' /\ LockInv /\ LockInv'
  BY DEF SurvivorInv, LockInv, RolesInv, BInv
<1>2. FirstIsOpen /\ (\A b \in Node : committed_index[b] = -1)
      /\ \A r \in ReplReq : UnderWay(r) => r.committed_index = -1
  BY <1>1, FirstStaysOpen DEF FirstOrder
<1>3. ASSUME committed_index'[n] = committed_index[n] PROVE committed_index'[n] = -1
  BY <1>2, <1>3
<1>4. ASSUME NEW m \in Node, NEW w, Die(m, w) PROVE committed_index'[n] = -1
  BY <1>1, <1>2, <1>4 DEF Die, TypeOK
<1>5. ASSUME NEW m \in Node, AdminRecheck(m) \/ AdminCommit(m), ~ \E w : Die(m, w)
      PROVE  committed_index'[n] = -1
  <2>1. admin[m].pc \notin {"ack", "reack"} /\ m = master_node_id /\ hb_conn[m]
    BY <1>1, <1>5, OnlyMasterWorks DEF AdminRecheck, AdminCommit, AdminAwake, MtxFree, LockInv
  <2>2. /\ UNCHANGED <<hb_conn, master_node_id, wire, ifa>>
        /\ \A b \in Node \ {m} : committed_index'[b] = committed_index[b]
    <3>1. CASE AdminRecheck(m)
      <4>1. UNCHANGED <<hb_conn, master_node_id, wire, ifa>>
        BY <1>5, <3>1 DEF AdminRecheck, netVars, lbVars
      <4>2. \/ committed_index' = committed_index
            \/ committed_index' = [committed_index EXCEPT ![m] = last_index[m]]
        BY <1>5, <3>1 DEF AdminRecheck, RecheckCommit
      <4>3. committed_index \in [Node -> Index]
        BY <1>1 DEF TypeOK
      <4> QED
        BY <4>1, <4>2, <4>3
    <3>2. CASE AdminCommit(m)
      <4>1. UNCHANGED <<hb_conn, master_node_id, wire, ifa>>
        BY <1>5, <3>2 DEF AdminCommit, netVars, lbVars
      <4>2. \/ committed_index' = committed_index
            \/ committed_index' = [committed_index EXCEPT ![m] = last_index[m]]
        BY <3>2 DEF AdminCommit, CommitLast
      <4>3. committed_index \in [Node -> Index]
        BY <1>1 DEF TypeOK
      <4> QED
        BY <4>1, <4>2, <4>3
    <3> QED
      BY <1>5, <3>1, <3>2
  <2>3. \A r : ~UnderWay(r)'
    <3>1. \A r : ~UnderWay(r)
      BY <1>1, <2>1, NothingUnderWay DEF SurvivorInv
    <3> QED
      BY <2>2, <3>1 DEF UnderWay
  <2>4. CASE n # m
    BY <1>3, <2>2, <2>4
  <2>5. CASE n = m
    <3>1. CASE \E a \in Node : hb_conn'[a] /\ last_index'[a] = -1
      <4>1. PICK a \in Node : hb_conn'[a] /\ last_index'[a] = -1
        BY <3>1
      <4>2. hb_conn'[n] /\ committed_index'[n] \in Index
        BY <1>1, <2>1, <2>2, <2>5 DEF TypeOK
      <4>3. committed_index'[n] <= last_index'[a]
        <5>1. (LockInv /\ Uncommitted)'
          BY DEF SurvivorInv
        <5>3. \A c, d \in Node : hb_conn'[c] /\ hb_conn'[d] => committed_index'[c] <= last_index'[d]
          BY <5>1, AllAlikeNext
        <5> QED
          BY <4>1, <4>2, <5>3
      <4> QED
        BY <4>1, <4>2, <4>3 DEF Index
    <3>2. CASE Hand' # None /\ committed_index'[master_node_id'] = -1
      BY <2>1, <2>2, <2>5, <3>2
    <3> QED
      BY <2>3, <3>1, <3>2 DEF FirstIsOpen
  <2> QED
    BY <2>4, <2>5
<1>6. ASSUME NEW m \in Node, AdminThread(m) PROVE committed_index'[n] = -1
  <2>1. CASE \E w : Die(m, w)
    BY <1>4, <2>1
  <2>2. CASE ~ \E w : Die(m, w)
    BY <1>3, <1>5, <1>6, <2>2 DEF AdminThread, AdminTake, AdminSkip, AdminSend, AdminAck, AdminPeerGone,
       logVars
  <2> QED
    BY <2>1, <2>2
<1>7. ASSUME NEW b \in Node, IfaThread(b) PROVE committed_index'[n] = -1
  <2>1. CASE \E w : Die(b, w)
    BY <1>4, <2>1
  <2>2. CASE RecoverWrite(b) /\ ~ \E w : Die(b, w)
    <3>1. ifa[b] # None /\ ifa[b].i \in Nat /\ ifa[b].req.committed_index = -1
      <4>1. ifa[b] # None
        BY <2>2 DEF RecoverWrite
      <4>2. ifa[b].i \in Nat
        BY <1>1, <4>1, IfaFields
      <4>3. ifa[b].req \in ReplReq /\ UnderWay(ifa[b].req)
        BY <1>1, <4>1, HandledIsUnderWay
      <4> QED
        BY <1>2, <4>1, <4>2, <4>3
    <3>2. ~IsCommitted(ifa[b].req, ifa[b].i)
      BY <3>1 DEF IsCommitted
    <3>3. committed_index' = committed_index
      BY <2>2, <3>2 DEF RecoverWrite
    <3> QED
      BY <1>3, <3>3
  <2>3. CASE IfaApply(b) /\ ~ \E w : Die(b, w)
    <3>1. ifa[b].req.committed_index = -1
      <4>1. ifa[b] # None
        BY <2>3 DEF IfaApply
      <4>2. ifa[b].req \in ReplReq /\ UnderWay(ifa[b].req)
        BY <1>1, <4>1, HandledIsUnderWay
      <4> QED
        BY <1>2, <4>2
    <3>2. committed_index' = committed_index
      BY <2>3, <3>1 DEF IfaApply
    <3> QED
      BY <1>3, <3>2
  <2> QED
    BY <1>3, <1>7, <2>1, <2>2, <2>3 DEF IfaThread, IfaRead, IfaStray, RecoverRead, RecoverFail, logVars
<1>8. ASSUME NEW m \in Node, Restart(m) PROVE committed_index'[n] = -1
  <2>1. ~up[m]
    BY <1>8 DEF Restart
  <2> DEFINE live == {i \in 1 .. Len(Peers[m]) : up[Peers[m][i]]}
             size == Len(Recovered(wal[m]))
  <2>2. live # {} /\ live \in SUBSET Nat
    <3>1. PICK b \in Node \ {m} : up[b]
      BY <1>2, <2>1, SomebodyRuns
    <3>2. Peers[m] \in Seq(Node) /\ b \in Range(Peers[m])
      BY <3>1, PeersAssumption, MeshAssumption
    <3>3. PICK i \in DOMAIN Peers[m] : Peers[m][i] = b
      BY <3>2 DEF Range
    <3> QED
      BY <3>1, <3>2, <3>3
  <2>3. RemoteCommitted(m) = -1
    <3>1. Least(live) \in live
      BY <2>2, LeastType
    <3>2. Peers[m][Least(live)] \in Node
      BY <3>1, PeersAssumption
    <3> QED
      BY <1>2, <2>2, <3>2 DEF RemoteCommitted
  <2>4. ReplayIndex(size, RemoteCommitted(m)) = -1
    <3>1. size \in Nat
      <4>1. Recovered(wal[m]) \in Seq(Entry)
        BY <1>1, RecoveredType DEF TypeOK
      <4> QED
        BY <4>1
    <3> HIDE DEF size
    <3> QED
      BY <2>3, <3>1 DEF ReplayIndex
  <2>5. committed_index' = committed_index \/ committed_index' = [committed_index EXCEPT ![m] = -1]
    BY <1>8, <2>4 DEF Restart
  <2> QED
    BY <1>1, <1>2, <2>5 DEF TypeOK
<1>9. ASSUME NEW c \in Customer,
             Connect(c) \/ PlaceOrder(c) \/ Ship(c) \/ Hangup(c) \/ Finish(c)
      PROVE  committed_index'[n] = -1
  BY <1>3, <1>9 DEF Connect, PlaceOrder, Ship, Hangup, Finish, logVars
<1>10. ASSUME NEW m \in Node, CloseReader(m) \/ Crash(m) \/ HeartBeat(m) PROVE committed_index'[n] = -1
  BY <1>3, <1>4, <1>10 DEF CloseReader, Crash, HeartBeat, logVars
<1>11. CASE UNCHANGED vars
  BY <1>3, <1>11 DEF vars, logVars
<1> QED
  BY <1>6, <1>7, <1>8, <1>9, <1>10, <1>11 DEF Next

LEMMA NextFirstOrder ==
    ASSUME SurvivorInv, SurvivorInv', Exchanges, FirstOrder, [Next]_vars
    PROVE  FirstOrder'
<1> SUFFICES ASSUME FirstIsOpen'
             PROVE  /\ \A n \in Node : committed_index'[n] = -1
                    /\ \A r \in ReplReq : UnderWay(r)' => r.committed_index = -1
  BY DEF FirstOrder
<1>1. \A n \in Node : committed_index'[n] = -1
  BY NobodyCommits
<1>2. (\A n \in Node : committed_index[n] = -1)
      /\ \A r \in ReplReq : UnderWay(r) => r.committed_index = -1
  BY FirstStaysOpen DEF FirstOrder, SurvivorInv
<1>3. ASSUME NEW r \in ReplReq, UnderWay(r)' PROVE r.committed_index = -1
  <2>1. CASE UnderWay(r)
    BY <1>2, <2>1
  <2>2. CASE \E n \in Node : AdminSend(n) /\ r = RequestOfPrimary(n)
    BY <1>2, <2>2, SentRequest DEF SurvivorInv
  <2> QED
    BY <1>3, <2>1, <2>2, RequestSteps DEF SurvivorInv
<1> QED
  BY <1>1, <1>3

LEMMA NextLagOfRequests ==
    ASSUME LockInv, LagOfRequests, [Next]_vars
    PROVE  LagOfRequests'
<1> SUFFICES ASSUME NEW r \in ReplReq, UnderWay(r)'
             PROVE  r.last_index - r.committed_index \in {0, 1}
  BY DEF LagOfRequests
<1>1. CASE UnderWay(r)
  BY <1>1 DEF LagOfRequests
<1>2. CASE \E n \in Node : AdminSend(n) /\ r = RequestOfPrimary(n)
  BY <1>2, SentRequest
<1> QED
  BY <1>1, <1>2, RequestSteps

LEMMA ReadIsHandled ==
    ASSUME TypeOK, NEW p \in Node, NEW b \in Node, IfaRead(p, b)
    PROVE  ifa'[b] # None
<1> DEFINE req == Head(wire[p][b]).req
           gap == req.last_index - last_index[b] > 1
<1>1. /\ wire[p][b] # <<>> /\ Head(wire[p][b]).kind = "req"
      /\ wire' = [wire EXCEPT ![p][b] = Tail(@)]
      /\ ifa' = [ifa EXCEPT ![b] = [from |-> p, req |-> req, i |-> last_index[b] + 1,
                                     phase |-> IF gap THEN "read" ELSE "apply"]]
  BY DEF IfaRead
<1>2. Head(wire[p][b]) \in Message
  BY <1>1, ReadType
<1>3. req \in ReplReq
  BY <1>1, <1>2 DEF Message
<1>4. last_index[b] + 1 \in Nat
  <2>1. last_index[b] \in Index
    BY DEF TypeOK
  <2> QED
    BY <2>1 DEF Index
<1> HIDE DEF req, gap
<1>5. \A phase \in {"read", "apply"} :
         [from |-> p, req |-> req, i |-> last_index[b] + 1, phase |-> phase] \in IfaState
  BY <1>3, <1>4 DEF IfaState
<1>6. ifa'[b] \in IfaState
  <2>1. [from |-> p, req |-> req, i |-> last_index[b] + 1,
         phase |-> IF gap THEN "read" ELSE "apply"] \in IfaState
    BY <1>5
  <2> QED
    BY <1>1, <2>1 DEF TypeOK
<1> QED
  BY <1>6, NoneIsNothingElse

LEMMA NextLagOfOthers ==
    ASSUME LockInv, FirstOrder, LagOfRequests, LagOfOthers, [Next]_vars
    PROVE  LagOfOthers'
<1> SUFFICES ASSUME NEW n \in Node, ~hb_conn'[n], ifa'[n] = None
             PROVE  last_index'[n] - committed_index'[n] \in {0, 1}
  BY DEF LagOfOthers
<1>1. TypeOK
  BY DEF LockInv, RolesInv, BInv
<1>2. ASSUME ~hb_conn[n], ifa[n] = None,
             last_index'[n] = last_index[n], committed_index'[n] = committed_index[n]
      PROVE  last_index'[n] - committed_index'[n] \in {0, 1}
  BY <1>2 DEF LagOfOthers
<1>3. ASSUME NEW m \in Node, NEW w, Die(m, w) PROVE last_index'[n] - committed_index'[n] \in {0, 1}
  <2>1. CASE n = m
    <3>1. last_index'[n] = -1 /\ committed_index'[n] = -1
      BY <1>1, <1>3, <2>1 DEF Die, TypeOK
    <3> QED
      BY <3>1
  <2>2. CASE n # m
    <3>1. hb_conn'[n] = hb_conn[n] /\ ifa'[n] = ifa[n]
          /\ last_index'[n] = last_index[n] /\ committed_index'[n] = committed_index[n]
      BY <1>1, <1>3, <2>2 DEF Die, TypeOK
    <3> QED
      BY <1>2, <3>1
  <2> QED
    BY <2>1, <2>2
<1>4. ASSUME NEW m \in Node, AdminThread(m) PROVE last_index'[n] - committed_index'[n] \in {0, 1}
  <2>1. CASE \E w : Die(m, w)
    BY <1>3, <2>1
  <2>2. CASE ~ \E w : Die(m, w)
    <3>1. hb_conn' = hb_conn /\ ifa' = ifa
      BY <1>4, <2>2 DEF AdminThread, AdminRecheck, AdminTake, AdminSkip, AdminSend, AdminAck,
         AdminPeerGone, AdminCommit, lbVars
    <3>2. hb_conn[m]
      BY <1>1, <1>4, <2>2, OnlyMasterWorks, AdminStateCases
         DEF LockInv, AdminThread, AdminRecheck, AdminAwake, AdminTake, AdminSkip, AdminSend, AdminAck,
             AdminPeerGone, PeerFailed, AdminCommit
    <3>3. last_index'[n] = last_index[n] /\ committed_index'[n] = committed_index[n]
      <4>1. n # m
        BY <3>1, <3>2
      <4>2. CASE AdminRecheck(m)
        BY <1>1, <2>2, <4>1, <4>2 DEF AdminRecheck, RecheckCommit, TypeOK
      <4>3. CASE AdminTake(m)
        BY <1>1, <4>1, <4>3 DEF AdminTake, TypeOK
      <4>4. CASE AdminCommit(m)
        BY <1>1, <4>1, <4>4 DEF AdminCommit, CommitLast, TypeOK
      <4> QED
        BY <1>4, <4>2, <4>3, <4>4 DEF AdminThread, AdminSkip, AdminSend, AdminAck, AdminPeerGone, logVars
    <3> QED
      BY <1>2, <3>1, <3>3
  <2> QED
    BY <2>1, <2>2
<1>5. ASSUME NEW b \in Node, IfaThread(b), ~ \E w : Die(b, w)
      PROVE  last_index'[n] - committed_index'[n] \in {0, 1}
  <2>1. (\E p \in Node : IfaRead(p, b)) \/ RecoverRead(b) \/ RecoverFail(b)
            \/ RecoverWrite(b) \/ IfaApply(b)
    BY <1>5 DEF IfaThread, IfaStray
  <2>2. hb_conn' = hb_conn /\ \A a \in Node \ {b} :
            /\ last_index'[a] = last_index[a] /\ committed_index'[a] = committed_index[a]
            /\ ifa'[a] = ifa[a]
    BY <1>1, <1>5, <2>1, IfaFrame
  <2>3. CASE n # b
    BY <1>2, <2>2, <2>3
  <2>4. CASE n = b
    <3>1. ~RecoverRead(b) /\ ~RecoverFail(b) /\ ~RecoverWrite(b)
      <4>1. ASSUME RecoverRead(b) \/ RecoverFail(b) \/ RecoverWrite(b) PROVE FALSE
        BY <1>1, <1>5, <2>4, <4>1, RecoveryKeeps
      <4> QED
        BY <4>1
    <3>2. \A p \in Node : ~IfaRead(p, b)
      <4>1. ASSUME NEW p \in Node, IfaRead(p, b) PROVE FALSE
        BY <1>1, <2>4, <4>1, ReadIsHandled
      <4> QED
        BY <4>1
    <3>3. IfaApply(b) /\ ifa[b] # None
      BY <2>1, <3>1, <3>2 DEF IfaApply
    <3> DEFINE req == ifa[b].req
    <3>4. req \in ReplReq /\ UnderWay(req) /\ req.last_index - req.committed_index \in {0, 1}
      BY <1>1, <3>3, HandledIsUnderWay DEF LagOfRequests
    <3>5. last_index'[n] = req.last_index
          /\ committed_index'[n] = IF req.committed_index = -1 THEN committed_index[n] ELSE req.committed_index
      BY <1>1, <1>5, <2>4, <3>3 DEF IfaApply, TakeOverIndex, TypeOK
    <3>6. req.committed_index = -1 => committed_index[n] = -1
      BY <3>4 DEF FirstOrder, FirstIsOpen
    <3> HIDE DEF req
    <3> QED
      BY <3>4, <3>5, <3>6
  <2> QED
    BY <2>3, <2>4
<1>6. ASSUME NEW b \in Node, IfaThread(b) PROVE last_index'[n] - committed_index'[n] \in {0, 1}
  BY <1>3, <1>5, <1>6
<1>7. ASSUME NEW m \in Node, Restart(m) PROVE last_index'[n] - committed_index'[n] \in {0, 1}
  <2>1. hb_conn' = hb_conn /\ ifa' = ifa
    BY <1>7 DEF Restart, threadVars, lbVars
  <2>2. \/ last_index' = last_index /\ committed_index' = committed_index
        \/ \E last : /\ last_index' = [last_index EXCEPT ![m] = last]
                     /\ committed_index' = [committed_index EXCEPT ![m] = last]
    BY <1>7 DEF Restart
  <2>3. CASE last_index' = last_index /\ committed_index' = committed_index
    BY <1>2, <2>1, <2>3
  <2>4. CASE \E last : /\ last_index' = [last_index EXCEPT ![m] = last]
                       /\ committed_index' = [committed_index EXCEPT ![m] = last]
    <3>1. CASE n # m
      <4>1. last_index'[n] = last_index[n] /\ committed_index'[n] = committed_index[n]
        BY <1>1, <2>4, <3>1 DEF TypeOK
      <4> QED
        BY <1>2, <2>1, <4>1
    <3>2. CASE n = m
      <4>1. last_index'[n] = committed_index'[n]
        BY <1>1, <2>4, <3>2 DEF TypeOK
      <4>2. last_index'[n] \in Int
        <5>1. TypeOK'
          BY <1>1, NextType
        <5> QED
          BY <5>1 DEF TypeOK, Index
      <4> QED
        BY <4>1, <4>2
    <3> QED
      BY <3>1, <3>2
  <2> QED
    BY <2>2, <2>3, <2>4
<1>8. ASSUME NEW c \in Customer,
             Connect(c) \/ PlaceOrder(c) \/ Ship(c) \/ Hangup(c) \/ Finish(c)
      PROVE  last_index'[n] - committed_index'[n] \in {0, 1}
  BY <1>2, <1>8 DEF Connect, PlaceOrder, Ship, Hangup, Finish, Enqueue, logVars, threadVars, lbVars
<1>9. ASSUME NEW m \in Node, CloseReader(m) \/ Crash(m) \/ HeartBeat(m)
      PROVE  last_index'[n] - committed_index'[n] \in {0, 1}
  BY <1>2, <1>3, <1>9 DEF CloseReader, Crash, HeartBeat, logVars, threadVars, lbVars
<1>10. CASE UNCHANGED vars
  BY <1>2, <1>10 DEF vars, logVars, threadVars, lbVars
<1> QED
  BY <1>4, <1>6, <1>7, <1>8, <1>9, <1>10 DEF Next

LEMMA InitLag == Init => LagInv
<1> SUFFICES ASSUME Init PROVE LagInv
  OBVIOUS
<1>1. Exchanges
  BY InitExchanges
<1>2. /\ \A p, b \in Node : wire[p][b] = <<>>
      /\ \A n \in Node : /\ ifa[n] = None /\ hb_conn[n]
                         /\ last_index[n] = -1 /\ committed_index[n] = -1
  BY DEF Init
<1>3. \A r : ~UnderWay(r)
  BY <1>2 DEF UnderWay, Carries
<1> QED
  BY <1>1, <1>2, <1>3 DEF LagInv, FirstOrder, LagOfRequests, LagOfOthers

LEMMA NextLag == ASSUME SurvivorInv, SurvivorInv', LagInv, [Next]_vars PROVE LagInv'
<1>1. LockInv /\ FirstLives /\ Exchanges /\ FirstOrder /\ LagOfRequests /\ LagOfOthers
  BY DEF SurvivorInv, LagInv
<1>2. Exchanges'
  BY <1>1, NextExchanges
<1>3. FirstOrder'
  BY <1>1, NextFirstOrder
<1>4. LagOfRequests'
  BY <1>1, NextLagOfRequests
<1>5. LagOfOthers'
  BY <1>1, NextLagOfOthers
<1> QED
  BY <1>2, <1>3, <1>4, <1>5 DEF LagInv

\* A server lags behind its own log by one entry at most, as recheckcommit
\* (Server.cpp:115-122) takes for granted, whatever is started again.
THEOREM LagIsAtMostOne == ASSUME Graceful PROVE Spec => []LagAtMostOne
<1>1. Init => LagInv
  BY InitLag
<1>2. SurvivorInv /\ SurvivorInv' /\ LagInv /\ [Next]_vars => LagInv'
  BY NextLag
<1>3. SurvivorInv /\ LagInv => LagAtMostOne
  <2> SUFFICES ASSUME SurvivorInv, LagInv, NEW n \in Node, MtxFree(n)
               PROVE  last_index[n] - committed_index[n] \in {0, 1}
    BY DEF LagAtMostOne
  <2>1. CASE hb_conn[n]
    <3>1. last_index[n] \in Index /\ committed_index[n] \in {last_index[n] - 1, last_index[n]}
      BY <2>1, TidyIndexes DEF SurvivorInv
    <3> QED
      BY <3>1 DEF Index
  <2>2. CASE ~hb_conn[n]
    BY <2>2 DEF LagInv, LagOfOthers, MtxFree
  <2> QED
    BY <2>1, <2>2
<1> QED
  BY <1>1, <1>2, <1>3, SurvivorsInvariance, PTL DEF Spec

-----------------------------------------------------------------------------
(***************************************************************************)
(* The servers that have never died keep the promise of OrderLedger.       *)
(***************************************************************************)

\* No survivor has logged less than m.
Shortest(m) == m \in Survivors /\ \A n \in Survivors : last_index[m] <= last_index[n]

LedgerNow == IF Survivors = {} THEN <<>> ELSE Common(Survivors)

\* A survivor's log up to last_index.
LEMMA FrontOfLog ==
    ASSUME SurvivorInv, NEW m \in Survivors
    PROVE  /\ m \in Node /\ hb_conn[m]
           /\ last_index[m] \in Int /\ last_index[m] >= -1
           /\ Len(smr_log[m]) \in Nat /\ last_index[m] < Len(smr_log[m])
           /\ Logged(m) = 0 .. last_index[m]
           /\ \A i \in 1 .. last_index[m] + 1 : smr_log[m][i] \in Order
<1>1. m \in Node /\ hb_conn[m]
  BY SurvivorsAre DEF SurvivorInv
<1>2. /\ last_index[m] \in Index /\ smr_log[m] \in Seq(Entry) /\ Len(smr_log[m]) \in Nat
      /\ Len(smr_log[m]) \in {last_index[m] + 1, last_index[m] + 2}
      /\ Logged(m) = 0 .. last_index[m]
  BY <1>1, TidyIndexes DEF SurvivorInv
<1>3. last_index[m] \in Int /\ last_index[m] >= -1 /\ last_index[m] < Len(smr_log[m])
  BY <1>2 DEF Index
<1>4. \A i \in 1 .. Len(smr_log[m]) : smr_log[m][i] \in Order
  BY <1>1 DEF SurvivorInv, OrderInv, LogsInOrder, InOrder
<1>5. \A i \in 1 .. last_index[m] + 1 : i \in 1 .. Len(smr_log[m])
  BY <1>2, <1>3
<1> QED
  BY <1>1, <1>2, <1>3, <1>4, <1>5

\* Any two survivors have the same up to the shorter last_index.
LEMMA FrontsAgree ==
    ASSUME SurvivorInv, NEW a \in Survivors, NEW b \in Survivors
    PROVE  /\ last_index[a] <= last_index[b] + 1
           /\ \A i \in 0 .. last_index[a] : i <= last_index[b] => At(smr_log[a], i) = At(smr_log[b], i)
BY FrontOfLog, AllAlike DEF SurvivorInv

LEMMA SomeShortest == SurvivorInv => (Survivors # {} => \E m \in Survivors : Shortest(m))
<1> SUFFICES ASSUME SurvivorInv, NEW a \in Survivors PROVE \E m \in Survivors : Shortest(m)
  OBVIOUS
<1>1. CASE \A n \in Survivors : last_index[a] <= last_index[n]
  BY <1>1 DEF Shortest
<1>2. CASE ~ \A n \in Survivors : last_index[a] <= last_index[n]
  <2>1. PICK m \in Survivors : ~(last_index[a] <= last_index[m])
    BY <1>2
  <2>2. ASSUME NEW n \in Survivors PROVE last_index[m] <= last_index[n]
    <3>1. last_index[a] <= last_index[n] + 1
      BY FrontsAgree
    <3>2. last_index[a] \in Int /\ last_index[m] \in Int /\ last_index[n] \in Int
      BY FrontOfLog
    <3> QED
      BY <2>1, <3>1, <3>2
  <2> QED
    BY <2>2 DEF Shortest
<1> QED
  BY <1>1, <1>2

\* The ledger is the shortest log.
LedgerShows ==
    \A m \in Survivors : Shortest(m) =>
        /\ LedgerNow \in Seq(Order)
        /\ Len(LedgerNow) = last_index[m] + 1
        /\ \A i \in 1 .. last_index[m] + 1 : LedgerNow[i] = smr_log[m][i]

LEMMA LedgerIs == SurvivorInv => LedgerShows
<1> SUFFICES ASSUME SurvivorInv, NEW m \in Survivors, Shortest(m)
             PROVE  /\ LedgerNow \in Seq(Order)
                    /\ Len(LedgerNow) = last_index[m] + 1
                    /\ \A i \in 1 .. last_index[m] + 1 : LedgerNow[i] = smr_log[m][i]
  BY DEF LedgerShows
<1> DEFINE log == smr_log[CHOOSE n \in Survivors : TRUE]
           Agreed(k) == k < Len(log) /\ \A n \in Survivors :
                            k \in Logged(n) /\ At(smr_log[n], k) = At(log, k)
           IsEnd(k) == ~Agreed(k) /\ \A i \in 0 .. k - 1 : Agreed(i)
           last == last_index[m]
<1>1. LedgerNow = SubSeq(log, 1, CHOOSE k \in 0 .. Len(log) : IsEnd(k))
  BY DEF LedgerNow, Common
<1>2. PICK a \in Survivors : log = smr_log[a]
  OBVIOUS
<1> HIDE DEF log
<1>3. /\ last \in Int /\ last >= -1 /\ Logged(m) = 0 .. last
      /\ \A i \in 1 .. last + 1 : smr_log[m][i] \in Order
      /\ last_index[a] \in Int /\ Len(log) \in Nat /\ last_index[a] < Len(log)
      /\ last <= last_index[a]
  BY <1>2, FrontOfLog DEF Shortest
<1> HIDE DEF last
<1>4. ASSUME NEW i \in 0 .. last PROVE Agreed(i)
  <2>1. i < Len(log) /\ i \in 0 .. last_index[a]
    BY <1>3
  <2>2. ASSUME NEW n \in Survivors PROVE i \in Logged(n) /\ At(smr_log[n], i) = At(log, i)
    <3>1. last_index[n] \in Int /\ Logged(n) = 0 .. last_index[n] /\ last <= last_index[n]
      BY FrontOfLog DEF Shortest, last
    <3>2. i \in 0 .. last_index[n]
      BY <1>3, <3>1
    <3> QED
      BY <1>2, <1>3, <2>1, <3>1, <3>2, FrontsAgree
  <2> QED
    BY <2>1, <2>2
<1>5. ~Agreed(last + 1)
  BY <1>3
<1>6. last + 1 \in 0 .. Len(log) /\ IsEnd(last + 1)
  BY <1>3, <1>4, <1>5
<1>7. ASSUME NEW k \in 0 .. Len(log), IsEnd(k) PROVE k = last + 1
  <2>1. ~(k <= last)
    BY <1>4, <1>7
  <2>2. ~(last + 1 <= k - 1)
    BY <1>3, <1>5, <1>7
  <2> QED
    BY <1>3, <2>1, <2>2
<1> HIDE DEF IsEnd
<1>8. (CHOOSE k \in 0 .. Len(log) : IsEnd(k)) = last + 1
  BY <1>6, <1>7
<1>9. LedgerNow = SubSeq(log, 1, last + 1)
  BY <1>1, <1>8
<1>10. \A i \in 1 .. last + 1 : log[i] = smr_log[m][i]
  <2>1. ASSUME NEW i \in 1 .. last + 1 PROVE log[i] = smr_log[m][i]
    <3>1. i - 1 \in 0 .. last /\ (i - 1) + 1 = i
      BY <1>3
    <3>2. At(smr_log[m], i - 1) = At(log, i - 1)
      BY <1>4, <3>1
    <3> QED
      BY <3>1, <3>2 DEF At
  <2> QED
    BY <2>1
<1>11. \A i \in 1 .. last + 1 : log[i] \in Order
  BY <1>3, <1>10
<1>12. /\ LedgerNow \in Seq(Order)
       /\ Len(LedgerNow) = IF 1 <= last + 1 THEN last + 1 - 1 + 1 ELSE 0
       /\ \A i \in 1 .. last + 1 - 1 + 1 : LedgerNow[i] = log[1 + i - 1]
  BY <1>3, <1>9, <1>11, SubSeqProperties
<1>13. /\ Len(LedgerNow) = last + 1
       /\ \A i \in 1 .. last + 1 : LedgerNow[i] = log[i]
  BY <1>3, <1>12
<1> QED
  BY <1>10, <1>12, <1>13 DEF last

\* A server's log grows only when nobody dies.
LEMMA GrowthIsQuiet ==
    ASSUME LockInv, [Next]_vars, NEW b \in Node, hb_conn'[b], ~Keeps(b)
    PROVE  hb_conn' = hb_conn
<1>1. TypeOK /\ LogStep(b)
  BY LogSteps DEF LockInv, RolesInv, BInv
<1>2. \A w : ~Die(b, w)
  BY DieSteps
<1>3. CASE AdminTake(b)
  BY <1>3 DEF AdminTake, lbVars
<1>4. CASE \E p \in Node : IfaRead(p, b)
  BY <1>4 DEF IfaRead, lbVars
<1>5. CASE AdminRecheck(b) \/ AdminCommit(b) \/ IfaApply(b)
  BY <1>2, <1>5 DEF AdminRecheck, AdminCommit, IfaApply, lbVars
<1> QED
  BY <1>1, <1>3, <1>4, <1>5 DEF LogStep

\* Robots are shipped in steps of their own.
LEMMA AckedSteps ==
    ASSUME LockInv, [Next]_vars
    PROVE  acked' = acked \/ \E c \in Customer : Ship(c)
BY CustomerSteps DEF CustomerStep, Connect, PlaceOrder, Hangup, Finish, AdminCommit

\* What of a survivor's log is within last_index stays.
LEMMA FrontStays ==
    ASSUME LockInv, [Next]_vars, NEW b \in Node, hb_conn'[b], last_index[b] < Len(smr_log[b])
    PROVE  /\ last_index'[b] \in {last_index[b], last_index[b] + 1}
           /\ \A i \in 1 .. last_index[b] + 1 : smr_log'[b][i] = smr_log[b][i]
<1>1. LogStep(b) /\ hb_conn[b]
  BY LogSteps
<1>2. /\ last_index[b] \in Index /\ smr_log[b] \in Seq(Entry) /\ Len(smr_log[b]) \in Nat
  BY <1>1, TidyIndexes
<1>3. last_index'[b] \in {last_index[b], last_index[b] + 1}
  BY <1>1 DEF LogStep, Keeps, Logs, Advances
<1>4. CASE smr_log'[b] = smr_log[b]
  BY <1>3, <1>4
<1>5. ASSUME NEW op, Logs(b, op)
      PROVE  \A i \in 1 .. last_index[b] + 1 : smr_log'[b][i] = smr_log[b][i]
  <2>1. PICK log2 : log2 = smr_log'[b]
    OBVIOUS
  <2>2. log2 = Append(smr_log[b], op) /\ op \in Entry /\ Len(smr_log[b]) = last_index[b] + 1
    BY <1>5, <2>1 DEF Logs, Entry
  <2>3. \A i \in 1 .. Len(smr_log[b]) : log2[i] = smr_log[b][i]
    BY <1>2, <2>2, AppendProperties
  <2> QED
    BY <2>1, <2>2, <2>3
<1> QED
  BY <1>1, <1>3, <1>4, <1>5 DEF LogStep, Keeps, Advances

\* As long as there are survivors the ledger only grows, by one order at a time.
LEMMA LedgerGrows ==
    ASSUME SurvivorInv, SurvivorInv', [Next]_vars, Survivors' # {}
    PROVE  /\ Survivors # {}
           /\ \/ LedgerNow' = LedgerNow
              \/ acked' = acked /\ \E o \in Order : LedgerNow' = Append(LedgerNow, o)
<1>1. SurvivorInv' => (Survivors # {} => \E m \in Survivors : Shortest(m))'
  BY SomeShortest, PTL
<1>2. PICK m2 \in Survivors' : Shortest(m2)'
  BY <1>1
<1>3. /\ Survivors' = {n \in Node : hb_conn'[n]}
      /\ Survivors = {n \in Node : hb_conn[n]}
  BY DEF SurvivorInv, LockInv, RolesInv, Lives, Survivors
<1>4. \A n \in Survivors' : n \in Survivors /\ n \in Node /\ hb_conn'[n]
  BY <1>3, HbFalls DEF SurvivorInv
<1>5. PICK m \in Survivors : Shortest(m)
  BY <1>2, <1>4, SomeShortest
<1>6. PICK last, last2 : last = last_index[m] /\ last2 = last_index'[m2]
  OBVIOUS
<1>7. PICK log, log2 : log = LedgerNow /\ log2 = LedgerNow'
  OBVIOUS
<1>8. SurvivorInv' => LedgerShows'
  BY LedgerIs, PTL
<1>9. /\ log \in Seq(Order) /\ Len(log) = last + 1
      /\ \A i \in 1 .. last + 1 : log[i] = smr_log[m][i]
  BY <1>5, <1>6, <1>7, LedgerIs DEF LedgerShows
<1>10. /\ log2 \in Seq(Order) /\ Len(log2) = last2 + 1
       /\ \A i \in 1 .. last2 + 1 : log2[i] = smr_log'[m2][i]
  BY <1>2, <1>6, <1>7, <1>8 DEF LedgerShows
<1>11. /\ last \in Int /\ last >= -1
       /\ last_index[m2] \in Int /\ last_index[m2] < Len(smr_log[m2])
       /\ last <= last_index[m2] /\ last_index[m2] <= last + 1
  BY <1>2, <1>4, <1>5, <1>6, FrontOfLog, FrontsAgree DEF Shortest
<1>12. /\ last2 \in {last_index[m2], last_index[m2] + 1}
       /\ \A i \in 1 .. last_index[m2] + 1 : smr_log'[m2][i] = smr_log[m2][i]
  BY <1>2, <1>4, <1>6, <1>11, FrontStays DEF SurvivorInv
<1>13. last2 = last \/ (last2 = last + 1 /\ acked' = acked)
  <2>1. CASE hb_conn'[m]
    <3>1. last2 <= last_index'[m]
      BY <1>2, <1>3, <1>6, <2>1, FrontOfLog DEF Shortest
    <3>2. last_index'[m] \in {last, last + 1}
      BY <1>6, <2>1, FrontOfLog, FrontStays DEF SurvivorInv
    <3>3. last2 \in {last, last + 1}
      BY <1>11, <1>12, <3>1, <3>2
    <3>4. ASSUME NEW c \in Customer, Ship(c) PROVE last2 = last
      <4>1. last_index'[m] = last
        BY <1>6, <3>4 DEF Ship, logVars
      <4> QED
        BY <1>11, <1>12, <3>1, <4>1
    <3> QED
      BY <3>3, <3>4, AckedSteps DEF SurvivorInv
  <2>2. CASE ~hb_conn'[m]
    <3>1. hb_conn' # hb_conn
      BY <1>3, <2>2
    <3>2. last2 = last_index[m2]
      BY <1>2, <1>4, <1>6, <3>1, GrowthIsQuiet DEF SurvivorInv, Keeps
    <3>3. \A c \in Customer : ~Ship(c)
      BY <3>1 DEF Ship, lbVars
    <3>4. acked' = acked
      BY <3>3, AckedSteps DEF SurvivorInv
    <3> QED
      BY <1>11, <3>2, <3>4
  <2> QED
    BY <2>1, <2>2
<1>14. \A i \in 1 .. last + 1 : log2[i] = log[i]
  <2> SUFFICES ASSUME NEW i \in 1 .. last + 1 PROVE log2[i] = log[i]
    OBVIOUS
  <2>1. i \in 1 .. last2 + 1 /\ i \in 1 .. last_index[m2] + 1
    BY <1>11, <1>13
  <2>2. /\ i - 1 \in 0 .. last /\ i - 1 <= last_index[m2] /\ (i - 1) + 1 = i
    BY <1>11
  <2>3. At(smr_log[m], i - 1) = At(smr_log[m2], i - 1)
    BY <1>2, <1>4, <1>6, <2>2, FrontsAgree
  <2>4. smr_log[m][i] = smr_log[m2][i]
    BY <2>2, <2>3 DEF At
  <2> QED
    BY <1>9, <1>10, <1>12, <2>1, <2>4
<1>15. CASE last2 = last
  <2>1. log2 = log
    BY <1>9, <1>10, <1>14, <1>15, SeqEqual
  <2> QED
    BY <1>5, <1>7, <2>1
<1>16. CASE last2 = last + 1 /\ acked' = acked
  <2>1. PICK o \in Order : o = log2[last + 2]
    <3>1. last + 2 \in 1 .. Len(log2)
      BY <1>10, <1>11, <1>16
    <3> QED
      BY <1>10, <3>1, ElementOfSeq
  <2>2. PICK log3 : log3 = Append(log, o)
    OBVIOUS
  <2>3. /\ log3 \in Seq(Order) /\ Len(log3) = last + 2
        /\ \A i \in 1 .. last + 1 : log3[i] = log[i]
        /\ log3[last + 2] = o
    BY <1>9, <1>11, <2>2, AppendProperties
  <2>4. \A i \in 1 .. last + 2 : log2[i] = log3[i]
    BY <1>11, <1>14, <2>1, <2>3
  <2>5. Len(log2) = last + 2
    BY <1>10, <1>11, <1>16
  <2>6. log2 = log3
    BY <1>10, <2>3, <2>4, <2>5, SeqEqual
  <2> QED
    BY <1>5, <1>7, <1>16, <2>2, <2>6
<1> QED
  BY <1>13, <1>15, <1>16

-----------------------------------------------------------------------------
(***************************************************************************)
(* The steps of the servers are steps of the ledger, or none.              *)
(***************************************************************************)

LEMMA InitLedger == Init /\ SurvivorInv => Ledger!Init
<1> SUFFICES ASSUME Init, SurvivorInv PROVE Ledger!Init
  OBVIOUS
<1>1. LBOrder # <<>> /\ LBOrder[1] \in Node
  <2>1. LBOrder \in Seq(Node) /\ LBOrder # <<>>
    BY LBOrderAssumption
  <2>2. Len(LBOrder) \in Nat /\ Len(LBOrder) # 0
    BY <2>1, LenProperties, EmptySeq
  <2> QED
    BY <2>1, <2>2, ElementOfSeq
<1>2. Survivors # {} /\ \A n \in Survivors : last_index[n] = -1
  BY <1>1 DEF Init, Survivors
<1>3. PICK m \in Survivors : Shortest(m)
  BY <1>2, SomeShortest
<1>4. LedgerNow \in Seq(Order) /\ Len(LedgerNow) = 0
  BY <1>2, <1>3, LedgerIs DEF LedgerShows
<1>5. LedgerNow = <<>>
  BY <1>4, EmptySeq
<1> QED
  BY <1>2, <1>5 DEF Ledger!Init, LedgerNow, Init

LEMMA StepsTheLedger ==
    ASSUME SurvivorInv, SurvivorInv', [Next]_vars
    PROVE  [Ledger!Next]_(Ledger!vars)
<1>1. LockInv /\ LockInv'
  BY DEF SurvivorInv
<1>2. CASE Survivors' # {} /\ ~ \E c \in Customer : Ship(c)
  <2>1. acked' = acked
    BY <1>1, <1>2, AckedSteps
  <2>2. /\ Survivors # {}
        /\ LedgerNow' = LedgerNow \/ \E o \in Order : LedgerNow' = Append(LedgerNow, o)
    BY <1>2, LedgerGrows
  <2> QED
    BY <1>2, <2>1, <2>2 DEF LedgerNow, Ledger!Next, Ledger!Take, Ledger!vars
<1>3. ASSUME NEW c \in Customer, Ship(c) PROVE Ledger!Next \/ UNCHANGED Ledger!vars
  <2> DEFINE o == [arg1 |-> c, arg2 |-> ordered[c]]
  <2>1. /\ acked' = acked \cup {o} /\ o \in acked'
        /\ UNCHANGED <<up, hb_conn, smr_log, last_index>>
    BY <1>3 DEF Ship, logVars, lbVars
  <2>2. master_node_id \in Survivors
    BY <1>1, <1>3
       DEF Ship, LockInv, RolesInv, Lives, ActiveAtMaster, Active, BInv, TypeOK, Survivors
  <2>3. /\ Survivors' = Survivors /\ Survivors # {}
        /\ \A b \in Survivors : b \in Node /\ hb_conn'[b]
    BY <2>1, <2>2, FrontOfLog DEF Survivors
  <2>4. PICK m \in Survivors : Shortest(m)
    BY <2>3, SomeShortest
  <2>5. \E i \in Logged(m) : At(smr_log[m], i) = o
    <3>1. \E e : e = o /\ Holds(m, e)'
      BY <2>1, <2>3 DEF SurvivorInv, Held
    <3> QED
      BY <2>1, <3>1 DEF Holds, Logged
  <2>6. \E i \in 1 .. Len(LedgerNow) : LedgerNow[i] = o
    <3>1. PICK i \in 0 .. last_index[m] : smr_log[m][i + 1] = o
      BY <2>5, FrontOfLog DEF At
    <3>2. i + 1 \in 1 .. last_index[m] + 1
      BY FrontOfLog
    <3> QED
      BY <2>4, <3>1, <3>2, LedgerIs DEF LedgerShows
  <2>7. CASE LedgerNow' = LedgerNow
    <3>1. Ledger!Ship(o)
      BY <2>1, <2>3, <2>6, <2>7 DEF LedgerNow, Ledger!Ship
    <3>2. LedgerNow \in Seq(Order)
      BY <2>4, LedgerIs DEF LedgerShows
    <3>3. o \in Order
      BY <2>6, <3>2, ElementOfSeq
    <3> QED
      BY <3>1, <3>3 DEF Ledger!Next
  <2>8. CASE acked' = acked /\ \E e \in Order : LedgerNow' = Append(LedgerNow, e)
    BY <2>3, <2>8 DEF LedgerNow, Ledger!Next, Ledger!Take
  <2> QED
    BY <2>3, <2>7, <2>8, LedgerGrows
<1>4. CASE Survivors' = {} /\ ~ \E c \in Customer : Ship(c)
  <2>1. acked' = acked
    BY <1>1, <1>4, AckedSteps
  <2> QED
    BY <1>4, <2>1 DEF Ledger!Next, Ledger!Stop, Ledger!vars
<1> QED
  BY <1>2, <1>3, <1>4

\* The servers together are one ledger (OrderLedger): orders are only added at its
\* end, every order whose robot was shipped (Server.cpp:150-182) is in it, and it
\* lasts as long as a server that has never died, whichever takes over.
THEOREM ImplementsOrderLedger == ASSUME Graceful PROVE Spec => OrderLedgerSpec
<1>1. Init /\ SurvivorInv => Ledger!Init
  BY InitLedger
<1>2. SurvivorInv /\ SurvivorInv' /\ [Next]_vars => [Ledger!Next]_(Ledger!vars)
  BY StepsTheLedger
<1> QED
  BY <1>1, <1>2, SurvivorsInvariance, PTL DEF Spec, OrderLedgerSpec, Ledger!Spec

=============================================================================
